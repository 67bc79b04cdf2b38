----------------------------- MODULE Approvals -----------------------------
(***************************************************************************)
(* M-of-N approval of privileged operations.                               *)
(*                                                                         *)
(*   packages/db/approvals.ts          apps/server/src/api/approvals.ts    *)
(*   packages/db/worm-mode.ts          packages/db/schema.sql              *)
(*                                                                         *)
(* The handlers run their statements on the connection pool and not in a   *)
(* transaction: the lock that SELECT ... FOR UPDATE takes is gone when the *)
(* statement ends, and every statement is a step.  A call is a request     *)
(* that a server is handling; a person may have several under way.         *)
(***************************************************************************)
EXTENDS Naturals, FiniteSets

CONSTANTS
  Requests,   \* approval requests that may be created
  Worm,       \* those of them whose operation is enable_worm
  Required,   \* required_approvals of each
  Approvers,  \* designated approvers, the superuser among them
  Calls,      \* calls that may be under way at a time
  NoOne       \* no request, approver or decision

ASSUME ApprovalsAssumption ==
  /\ Worm \subseteq Requests
  /\ Required \in [Requests -> Nat \ {0}]
  /\ IsFiniteSet(Approvers)
  /\ NoOne \notin Requests \cup Approvers

VARIABLES
  status,  \* approval_requests.status, "none" before the row exists
  votes,   \* approval_votes
  call,    \* per call: what it has read and is about to write
  worm     \* the tenant policy worm_mode

approvalVars == <<status, votes, call, worm>>

Decisions == {"approved", "rejected"}
Votes     == [request : Requests, by : Approvers, decision : Decisions]

\* The votes of a request with a decision.
VotesFor(r, d) == {v \in votes : v.request = r /\ v.decision = d}

HasQuorum(r) == Cardinality(VotesFor(r, "approved")) >= Required[r]

NoCall == [pc |-> "idle", request |-> NoOne, by |-> NoOne, decision |-> NoOne]

ApprovalsInit ==
  /\ status = [r \in Requests |-> "none"]
  /\ votes  = {}
  /\ call   = [c \in Calls |-> NoCall]
  /\ worm   = FALSE

CallAt(c, pc)   == call[c].pc = pc
Continues(c, pc) == call' = [call EXCEPT ![c].pc = pc]
Returns(c)      == call' = [call EXCEPT ![c] = NoCall]

-----------------------------------------------------------------------------
(* createApprovalRequest and castVote.                                     *)

CreateApprovalRequest(r) ==
  /\ status[r] = "none"
  /\ status' = [status EXCEPT ![r] = "pending"]
  /\ UNCHANGED <<votes, call, worm>>

\* The read that is meant to lock the request.
StartVote(c, r, a, d) ==
  /\ CallAt(c, "idle") /\ status[r] = "pending"
  /\ call' = [call EXCEPT ![c] = [pc |-> "insert", request |-> r, by |-> a, decision |-> d]]
  /\ UNCHANGED <<status, votes, worm>>

\* One vote per approver: a second row violates the constraint and the call
\* fails.  A rejection decides the request, an approval is counted first.
InsertVote(c) ==
  /\ CallAt(c, "insert")
  /\ \/ /\ \E v \in votes : v.request = call[c].request /\ v.by = call[c].by
        /\ Returns(c) /\ UNCHANGED votes
     \/ /\ \A v \in votes : v.request # call[c].request \/ v.by # call[c].by
        /\ votes' = votes \cup {[request |-> call[c].request, by |-> call[c].by, decision |-> call[c].decision]}
        /\ Continues(c, IF call[c].decision = "rejected" THEN "update" ELSE "count")
  /\ UNCHANGED <<status, worm>>

\* As CountVotes below, had the query left out the decision.
CountVotesWrong(c) ==
  /\ CallAt(c, "count")
  /\ IF Cardinality({v \in votes : v.request = call[c].request}) >= Required[call[c].request]
     THEN Continues(c, "update") ELSE Returns(c)
  /\ UNCHANGED <<status, votes, worm>>

CountVotes(c) ==
  /\ CallAt(c, "count")
  /\ IF HasQuorum(call[c].request) THEN Continues(c, "update") ELSE Returns(c)
  /\ UNCHANGED <<status, votes, worm>>

\* The write names the request and nothing of the state it was read in.
UpdateStatus(c) ==
  /\ CallAt(c, "update")
  /\ status' = [status EXCEPT ![call[c].request] = call[c].decision]
  /\ Returns(c)
  /\ UNCHANGED <<votes, worm>>

-----------------------------------------------------------------------------
(* markExecuted, and the operation that an approval is for.                *)

StartExecute(c, r) ==
  /\ CallAt(c, "idle") /\ status[r] = "approved"
  /\ call' = [call EXCEPT ![c] = [pc |-> "execute", request |-> r, by |-> NoOne, decision |-> NoOne]]
  /\ UNCHANGED <<status, votes, worm>>

MarkExecuted(c) ==
  /\ CallAt(c, "execute")
  /\ status' = [status EXCEPT ![call[c].request] = "executed"]
  /\ Returns(c)
  /\ UNCHANGED <<votes, worm>>

\* assertApproved, for the enable_worm type.
StartEnableWorm(c, r) ==
  /\ CallAt(c, "idle") /\ status[r] = "approved" /\ r \in Worm
  /\ call' = [call EXCEPT ![c] = [pc |-> "enable", request |-> r, by |-> NoOne, decision |-> NoOne]]
  /\ UNCHANGED <<status, votes, worm>>

EnableWorm(c) ==
  /\ CallAt(c, "enable")
  /\ worm' = TRUE
  /\ Returns(c)
  /\ UNCHANGED <<status, votes>>

\* A call is lost with its server; the vote it has inserted stays.
LoseCall(c) ==
  /\ call[c].pc \notin {"idle", "lost"}
  /\ IF call[c].pc \in {"count", "update"} THEN Continues(c, "lost") ELSE Returns(c)
  /\ UNCHANGED <<status, votes, worm>>

ApprovalsNext ==
  \/ \E r \in Requests : CreateApprovalRequest(r)
  \/ \E c \in Calls, r \in Requests :
       \/ \E a \in Approvers, d \in Decisions : StartVote(c, r, a, d)
       \/ StartExecute(c, r) \/ StartEnableWorm(c, r)
  \/ \E c \in Calls :
       \/ InsertVote(c) \/ CountVotes(c) \/ UpdateStatus(c)
       \/ MarkExecuted(c) \/ EnableWorm(c) \/ LoseCall(c)

ApprovalsSpec == ApprovalsInit /\ [][ApprovalsNext]_approvalVars

-----------------------------------------------------------------------------
CallRows == [pc : {"idle", "insert", "count", "update", "execute", "enable", "lost"},
             request : {NoOne} \cup Requests, by : {NoOne} \cup Approvers,
             decision : {NoOne} \cup Decisions]

\* Every variable keeps to its type.
ApprovalsTypeOK ==
  /\ status \in [Requests -> {"none", "pending", "approved", "rejected", "executed"}]
  /\ votes \subseteq Votes
  /\ call \in [Calls -> CallRows]
  /\ worm \in BOOLEAN

\* Whatever calls overlap, a request that counts as approved or executed has
\* the approvals of Required different approvers, and WORM mode is on only if
\* some request of its type has.
QuorumBehind ==
  /\ \A r \in Requests : status[r] \in {"approved", "executed"} => HasQuorum(r)
  /\ worm => \E r \in Worm : HasQuorum(r)

\* No quorum and no rejection goes unnoticed: when the votes of a request decide
\* it, either its status says so or a call that inserted one of them has still to
\* write it, or was lost on the way.
NoticedWhenDecided ==
  \A r \in Requests :
    status[r] = "pending" /\ (HasQuorum(r) \/ VotesFor(r, "rejected") # {})
      => \E c \in Calls : call[c].request = r /\ call[c].pc \in {"count", "update", "lost"}

\* What a request's status says and what its votes say agree, both ways.
DecisionSound == QuorumBehind /\ NoticedWhenDecided

\* "A single 'rejected' vote from any approver transitions the request to 'rejected',
\* permanently blocking execution."
RejectionBlocks ==
  [][\A r \in Requests : status[r] = "rejected" => status'[r] = "rejected"]_status
=============================================================================
