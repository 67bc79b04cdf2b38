---------------------------- MODULE RecordsProofs ----------------------------
(***************************************************************************)
(* What decides on records, keeps them and proves what became of them, for *)
(* any requests, approvers, holds, officers, callers, audited operations,  *)
(* policies, rows, keys and jobs and any values of the numeric constants:  *)
(* the inductive invariant of each component, what it implies, and that it *)
(* holds of the component wherever the others run.                         *)
(***************************************************************************)
EXTENDS MCRecords, FiniteSetTheorems, TLAPS

-----------------------------------------------------------------------------
(* M-of-N approvals.                                                       *)

\* A call that votes knows its request, its approver and its decision, and one
\* that executes or enables its request.
CallInv ==
  \A c \in Calls :
    /\ call[c].pc \in {"insert", "count", "update"} =>
         call[c].request \in Requests /\ call[c].by \in Approvers /\ call[c].decision \in Decisions
    /\ call[c].pc \in {"execute", "enable"} => call[c].request \in Requests
    /\ call[c].pc = "enable" => call[c].request \in Worm
    /\ call[c].pc = "count" => call[c].decision = "approved"
    /\ call[c].pc # "idle" => \A r \in Requests : call[c].request = r => status[r] # "none"

\* Nobody votes on a request that is not there.
VotesInv ==
  /\ IsFiniteSet(votes)
  /\ \A v \in votes : status[v.request] # "none"

\* What an approval writes, or goes on to use, has its quorum already.
QuorumInv ==
  /\ \A r \in Requests : status[r] \in {"approved", "executed"} => HasQuorum(r)
  /\ \A c \in Calls :
       \/ call[c].pc = "update" /\ call[c].decision = "approved"
       \/ call[c].pc \in {"execute", "enable"}
       => HasQuorum(call[c].request)
  /\ worm => \E r \in Worm : HasQuorum(r)

\* A call that has still to write what the votes with decision d decide.
Pending(r, d) ==
  \E c \in Calls : /\ call[c].request = r /\ call[c].decision = d
                   /\ call[c].pc \in {"count", "update", "lost"}

\* Each of the two decisions is noticed by a call that voted for it.
NoticeInv ==
  \A r \in Requests : status[r] = "pending" =>
    /\ HasQuorum(r) => Pending(r, "approved")
    /\ VotesFor(r, "rejected") # {} => Pending(r, "rejected")

ApprovalsInv == ApprovalsTypeOK /\ CallInv /\ VotesInv /\ QuorumInv /\ NoticeInv

-----------------------------------------------------------------------------
\* Votes are only added, so a quorum stays.
LEMMA QuorumStays ==
  ASSUME NEW r \in Requests, votes \subseteq votes', IsFiniteSet(votes'), HasQuorum(r),
         votes' \subseteq Votes
  PROVE  HasQuorum(r)'
<1> DEFINE old == VotesFor(r, "approved")
           new == VotesFor(r, "approved")'
<1>1. old \subseteq new  BY DEF VotesFor
<1>2. IsFiniteSet(new)  BY FS_Subset, new \subseteq votes' DEF VotesFor
<1>3. Cardinality(old) <= Cardinality(new) /\ Cardinality(old) \in Nat /\ Cardinality(new) \in Nat
  BY <1>1, <1>2, FS_Subset, FS_CardinalityType
<1>4. Required[r] \in Nat  BY ApprovalsAssumption
<1>5. Cardinality(old) >= Required[r]  BY DEF HasQuorum
<1>6. Cardinality(new) >= Required[r]
  <2> HIDE DEF old, new
  <2> QED  BY <1>3, <1>4, <1>5
<1> QED  BY <1>6 DEF HasQuorum

\* A request without votes has no quorum.
LEMMA NoVotesNoQuorum ==
  ASSUME NEW r \in Requests, \A v \in votes : v.request # r
  PROVE  ~HasQuorum(r) /\ VotesFor(r, "rejected") = {}
<1>1. VotesFor(r, "approved") = {} /\ VotesFor(r, "rejected") = {}  BY DEF VotesFor
<1>2. Required[r] \in Nat \ {0}  BY ApprovalsAssumption
<1> QED  BY <1>1, <1>2, FS_EmptySet DEF HasQuorum

\* The votes keep the state of a request's quorum when they stay.
LEMMA SameVotes ==
  ASSUME NEW r \in Requests, UNCHANGED votes
  PROVE  HasQuorum(r)' = HasQuorum(r) /\ \A d \in Decisions : VotesFor(r, d)' = VotesFor(r, d)
BY DEF HasQuorum, VotesFor

\* The initial state has no votes and no calls.
LEMMA ApprovalsStart == ApprovalsInit => ApprovalsInv
<1> SUFFICES ASSUME ApprovalsInit PROVE ApprovalsInv  OBVIOUS
<1> USE DEF ApprovalsInit, NoCall
<1>1. ApprovalsTypeOK  BY DEF ApprovalsTypeOK, CallRows
<1>2. CallInv  BY DEF CallInv
<1>3. VotesInv  BY FS_EmptySet DEF VotesInv
<1>4. \A r \in Requests : ~HasQuorum(r) /\ VotesFor(r, "rejected") = {}  BY NoVotesNoQuorum
<1>5. QuorumInv  BY <1>4 DEF QuorumInv
<1>6. NoticeInv  BY <1>4 DEF NoticeInv
<1> QED  BY <1>1, <1>2, <1>3, <1>5, <1>6 DEF ApprovalsInv

-----------------------------------------------------------------------------
\* Every step keeps the types (all actions of Approvals).
LEMMA ApprovalsTypeStep == ApprovalsInv /\ [ApprovalsNext]_approvalVars => ApprovalsTypeOK'
<1> SUFFICES ASSUME ApprovalsTypeOK, CallInv, [ApprovalsNext]_approvalVars PROVE ApprovalsTypeOK'
  BY DEF ApprovalsInv
<1> USE DEF ApprovalsTypeOK, CallRows, CallAt, Continues, Returns, NoCall
<1>1. ASSUME NEW r \in Requests, CreateApprovalRequest(r) PROVE ApprovalsTypeOK'
  BY <1>1 DEF CreateApprovalRequest
<1>2. ASSUME NEW c \in Calls, NEW r \in Requests, NEW a \in Approvers, NEW d \in Decisions, StartVote(c, r, a, d)
      PROVE  ApprovalsTypeOK'
  BY <1>2 DEF StartVote
<1>3. ASSUME NEW c \in Calls, NEW r \in Requests, StartExecute(c, r) \/ StartEnableWorm(c, r)
      PROVE  ApprovalsTypeOK'
  BY <1>3 DEF StartExecute, StartEnableWorm
<1>4. ASSUME NEW c \in Calls, InsertVote(c) PROVE ApprovalsTypeOK'
  BY <1>4 DEF InsertVote, CallInv, Votes
<1>5. ASSUME NEW c \in Calls, CountVotes(c) PROVE ApprovalsTypeOK'
  BY <1>5 DEF CountVotes
<1>6. ASSUME NEW c \in Calls, UpdateStatus(c) PROVE ApprovalsTypeOK'
  BY <1>6 DEF UpdateStatus, CallInv, Decisions
<1>7. ASSUME NEW c \in Calls, MarkExecuted(c) \/ EnableWorm(c) PROVE ApprovalsTypeOK'
  <2>1. CASE MarkExecuted(c)  BY <2>1 DEF MarkExecuted, CallInv
  <2>2. CASE EnableWorm(c)  BY <2>2 DEF EnableWorm
  <2> QED  BY <1>7, <2>1, <2>2
<1>8. ASSUME NEW c \in Calls, LoseCall(c) PROVE ApprovalsTypeOK'
  BY <1>8 DEF LoseCall
<1>9. CASE UNCHANGED approvalVars  BY <1>9 DEF approvalVars
<1> QED  BY <1>1, <1>2, <1>3, <1>4, <1>5, <1>6, <1>7, <1>8, <1>9 DEF ApprovalsNext

\* Every step keeps what a call knows of its request.
LEMMA StepCall == ApprovalsInv /\ [ApprovalsNext]_approvalVars => CallInv'
<1> SUFFICES ASSUME ApprovalsTypeOK, CallInv, [ApprovalsNext]_approvalVars PROVE CallInv'
  BY DEF ApprovalsInv
<1> USE DEF ApprovalsTypeOK, CallRows, CallInv, CallAt, Continues, Returns, NoCall
<1>1. ASSUME NEW r \in Requests, CreateApprovalRequest(r) PROVE CallInv'
  BY <1>1 DEF CreateApprovalRequest
<1>2. ASSUME NEW c \in Calls, NEW r \in Requests, NEW a \in Approvers, NEW d \in Decisions, StartVote(c, r, a, d)
      PROVE  CallInv'
  BY <1>2 DEF StartVote
<1>3. ASSUME NEW c \in Calls, NEW r \in Requests, StartExecute(c, r) \/ StartEnableWorm(c, r)
      PROVE  CallInv'
  BY <1>3 DEF StartExecute, StartEnableWorm
<1>4. ASSUME NEW c \in Calls, InsertVote(c) PROVE CallInv'
  BY <1>4 DEF InsertVote, Decisions
<1>5. ASSUME NEW c \in Calls, CountVotes(c) PROVE CallInv'
  BY <1>5 DEF CountVotes
<1>6. ASSUME NEW c \in Calls, UpdateStatus(c) PROVE CallInv'
  BY <1>6 DEF UpdateStatus, Decisions
<1>7. ASSUME NEW c \in Calls, MarkExecuted(c) \/ EnableWorm(c) PROVE CallInv'
  BY <1>7 DEF MarkExecuted, EnableWorm
<1>8. ASSUME NEW c \in Calls, LoseCall(c) PROVE CallInv'
  BY <1>8 DEF LoseCall
<1>9. CASE UNCHANGED approvalVars  BY <1>9 DEF approvalVars
<1> QED  BY <1>1, <1>2, <1>3, <1>4, <1>5, <1>6, <1>7, <1>8, <1>9 DEF ApprovalsNext

\* No step takes a vote away, and a request that is there stays.
LEMMA StepMonotone ==
  ApprovalsInv /\ [ApprovalsNext]_approvalVars =>
    /\ votes \subseteq votes' /\ IsFiniteSet(votes')
    /\ \A r \in Requests : status[r] # "none" => status'[r] # "none"
<1> SUFFICES ASSUME ApprovalsTypeOK, CallInv, VotesInv, [ApprovalsNext]_approvalVars
             PROVE  /\ votes \subseteq votes' /\ IsFiniteSet(votes')
                    /\ \A r \in Requests : status[r] # "none" => status'[r] # "none"
  BY DEF ApprovalsInv
<1> USE DEF VotesInv, ApprovalsTypeOK, CallAt
<1>1. ASSUME NEW r \in Requests, CreateApprovalRequest(r)
      PROVE  UNCHANGED votes /\ \A q \in Requests : status[q] # "none" => status'[q] # "none"
  BY <1>1 DEF CreateApprovalRequest
<1>2. ASSUME NEW c \in Calls, InsertVote(c)
      PROVE  votes \subseteq votes' /\ IsFiniteSet(votes') /\ UNCHANGED status
  BY ZenonT(40), <1>2, FS_AddElement DEF InsertVote
<1>3. ASSUME NEW c \in Calls, UpdateStatus(c)
      PROVE  UNCHANGED votes /\ \A q \in Requests : status[q] # "none" => status'[q] # "none"
  BY <1>3 DEF UpdateStatus, CallInv, Decisions
<1>4. ASSUME NEW c \in Calls, MarkExecuted(c)
      PROVE  UNCHANGED votes /\ \A q \in Requests : status[q] # "none" => status'[q] # "none"
  BY <1>4 DEF MarkExecuted, CallInv
<1>5. ASSUME NEW c \in Calls, CountVotes(c) \/ EnableWorm(c) \/ LoseCall(c)
      PROVE  UNCHANGED <<status, votes>>
  BY <1>5 DEF CountVotes, EnableWorm, LoseCall
<1>6. ASSUME NEW c \in Calls, NEW r \in Requests,
             \/ \E a \in Approvers, d \in Decisions : StartVote(c, r, a, d)
             \/ StartExecute(c, r) \/ StartEnableWorm(c, r)
      PROVE  UNCHANGED <<status, votes>>
  BY <1>6 DEF StartVote, StartExecute, StartEnableWorm
<1>7. CASE UNCHANGED approvalVars  BY <1>7 DEF approvalVars
<1> QED  BY <1>1, <1>2, <1>3, <1>4, <1>5, <1>6, <1>7 DEF ApprovalsNext

\* Every step keeps the votes finite and on requests that are there.
LEMMA StepVotes == ApprovalsInv /\ [ApprovalsNext]_approvalVars => VotesInv'
<1> SUFFICES ASSUME ApprovalsInv, [ApprovalsNext]_approvalVars PROVE VotesInv'  OBVIOUS
<1>1. /\ votes \subseteq votes' /\ IsFiniteSet(votes')
      /\ \A r \in Requests : status[r] # "none" => status'[r] # "none"
  BY StepMonotone
<1>2. CASE \E c \in Calls : InsertVote(c)
  <2> PICK c \in Calls : InsertVote(c)  BY <1>2
  <2>1. call[c].request \in Requests /\ status[call[c].request] # "none" /\ UNCHANGED status
    BY DEF InsertVote, CallAt, ApprovalsInv, CallInv
  <2>2. \A v \in votes' : v \in votes \/ v.request = call[c].request
    BY DEF InsertVote
  <2> QED  BY <1>1, <2>1, <2>2 DEF VotesInv, ApprovalsInv
<1>3. CASE UNCHANGED votes
  BY <1>1, <1>3 DEF VotesInv, ApprovalsInv, ApprovalsTypeOK, Votes
<1>4. (\E c \in Calls : InsertVote(c)) \/ UNCHANGED votes
  BY DEF ApprovalsNext, approvalVars, CreateApprovalRequest, StartVote, StartExecute, StartEnableWorm,
         CountVotes, UpdateStatus, MarkExecuted, EnableWorm, LoseCall
<1> QED  BY <1>2, <1>3, <1>4

-----------------------------------------------------------------------------
\* A call that writes, or goes on to use, an approval.
Owes(c) == \/ call[c].pc = "update" /\ call[c].decision = "approved"
           \/ call[c].pc \in {"execute", "enable"}

\* A step whose statuses, calls and policy are as before or have their quorum.
Covered ==
  /\ \A r \in Requests : status'[r] \in {"approved", "executed"} =>
       status[r] \in {"approved", "executed"} \/ HasQuorum(r)
  /\ \A c \in Calls : Owes(c)' =>
       \/ Owes(c) /\ call'[c].request = call[c].request
       \/ call'[c].request \in Requests /\ HasQuorum(call'[c].request)
  /\ worm' => worm \/ \E r \in Worm : HasQuorum(r)

\* Such a step keeps the quorum behind every approval.
LEMMA CoveredSteps == ApprovalsInv /\ [ApprovalsNext]_approvalVars /\ Covered => QuorumInv'
<1> SUFFICES ASSUME ApprovalsInv, [ApprovalsNext]_approvalVars, Covered PROVE QuorumInv'  OBVIOUS
<1>1. ApprovalsTypeOK /\ CallInv /\ QuorumInv  BY DEF ApprovalsInv
<1>2. \A r \in Requests : HasQuorum(r) => HasQuorum(r)'
  <2> SUFFICES ASSUME NEW r \in Requests, HasQuorum(r) PROVE HasQuorum(r)'  OBVIOUS
  <2>1. votes' \subseteq Votes  BY ApprovalsTypeStep DEF ApprovalsTypeOK
  <2> QED  BY <2>1, StepMonotone, QuorumStays
<1>3. \A r \in Requests : status'[r] \in {"approved", "executed"} => HasQuorum(r)'
  BY <1>1, <1>2 DEF Covered, QuorumInv
<1>4. \A c \in Calls : Owes(c)' => HasQuorum(call[c].request)'
  <2> SUFFICES ASSUME NEW c \in Calls, Owes(c)' PROVE HasQuorum(call[c].request)'  OBVIOUS
  <2>1. Owes(c) => call[c].request \in Requests /\ HasQuorum(call[c].request)
    BY <1>1 DEF CallInv, QuorumInv, Owes
  <2>2. PICK r \in Requests : call'[c].request = r /\ HasQuorum(r)  BY <2>1 DEF Covered
  <2>3. HasQuorum(r)'  BY <1>2, <2>2
  <2> QED  BY <2>2, <2>3 DEF HasQuorum, VotesFor
<1>5. worm' => \E r \in Worm : HasQuorum(r)'
  BY <1>1, <1>2, ApprovalsAssumption DEF Covered, QuorumInv
<1> QED  BY <1>3, <1>4, <1>5 DEF QuorumInv, Owes

\* Every step is of that kind.
LEMMA StepQuorum == ApprovalsInv /\ [ApprovalsNext]_approvalVars => QuorumInv'
<1> SUFFICES ASSUME ApprovalsInv, [ApprovalsNext]_approvalVars PROVE Covered
  BY CoveredSteps
<1>a. ApprovalsTypeOK /\ CallInv /\ QuorumInv  BY DEF ApprovalsInv
<1> USE <1>a DEF ApprovalsTypeOK, CallRows, CallAt, Continues, Returns, NoCall, Covered, Owes
<1>1. ASSUME NEW r \in Requests, CreateApprovalRequest(r) PROVE Covered
  BY <1>1 DEF CreateApprovalRequest
<1>2. ASSUME NEW c \in Calls, NEW r \in Requests, NEW a \in Approvers, NEW d \in Decisions, StartVote(c, r, a, d)
      PROVE  Covered
  BY <1>2 DEF StartVote
<1>3. ASSUME NEW c \in Calls, NEW r \in Requests, StartExecute(c, r) \/ StartEnableWorm(c, r)
      PROVE  Covered
  BY <1>3 DEF StartExecute, StartEnableWorm, QuorumInv
<1>4. ASSUME NEW c \in Calls, InsertVote(c) PROVE Covered
  BY <1>4 DEF InsertVote
<1>5. ASSUME NEW c \in Calls, CountVotes(c) PROVE Covered
  BY <1>5 DEF CountVotes, CallInv
<1>6. ASSUME NEW c \in Calls, UpdateStatus(c) PROVE Covered
  BY <1>6 DEF UpdateStatus, QuorumInv, CallInv, Decisions
<1>7. ASSUME NEW c \in Calls, MarkExecuted(c) PROVE Covered
  BY <1>7 DEF MarkExecuted, QuorumInv, CallInv
<1>8. ASSUME NEW c \in Calls, EnableWorm(c) PROVE Covered
  BY <1>8 DEF EnableWorm, QuorumInv, CallInv
<1>9. ASSUME NEW c \in Calls, LoseCall(c) PROVE Covered
  BY <1>9 DEF LoseCall
<1>10. CASE UNCHANGED approvalVars  BY <1>10 DEF approvalVars
<1> QED  BY <1>1, <1>2, <1>3, <1>4, <1>5, <1>6, <1>7, <1>8, <1>9, <1>10 DEF ApprovalsNext

-----------------------------------------------------------------------------
\* A call that has voted goes on to its end with its request and its decision.
LEMMA PendingStays ==
  ASSUME ApprovalsInv, [ApprovalsNext]_approvalVars, NEW r \in Requests, NEW d \in Decisions,
         Pending(r, d), status'[r] = "pending", d = "approved" => HasQuorum(r)
  PROVE  Pending(r, d)'
<1>a. ApprovalsTypeOK /\ CallInv  BY DEF ApprovalsInv
<1>1. PICK k \in Calls : /\ call[k].request = r /\ call[k].decision = d
                         /\ call[k].pc \in {"count", "update", "lost"}
  BY DEF Pending
<1> SUFFICES /\ call'[k].request = r /\ call'[k].decision = d
             /\ call'[k].pc \in {"count", "update", "lost"}
  BY DEF Pending
<1> USE <1>a, <1>1 DEF ApprovalsTypeOK, CallRows, CallAt, Continues, Returns, NoCall
<1> DEFINE Goal == /\ call'[k].request = r /\ call'[k].decision = d
                   /\ call'[k].pc \in {"count", "update", "lost"}
<1>2. ASSUME NEW q \in Requests, CreateApprovalRequest(q) PROVE Goal
  BY <1>2 DEF CreateApprovalRequest
<1>3. ASSUME NEW c \in Calls, NEW q \in Requests,
             \/ \E a \in Approvers, e \in Decisions : StartVote(c, q, a, e)
             \/ StartExecute(c, q) \/ StartEnableWorm(c, q)
      PROVE  Goal
  BY <1>3 DEF StartVote, StartExecute, StartEnableWorm
<1>4. ASSUME NEW c \in Calls, InsertVote(c) PROVE Goal
  BY <1>4 DEF InsertVote
<1>5. ASSUME NEW c \in Calls, CountVotes(c) PROVE Goal
  BY <1>5 DEF CountVotes, CallInv
<1>6. ASSUME NEW c \in Calls, UpdateStatus(c) PROVE Goal
  BY <1>6 DEF UpdateStatus, CallInv, Decisions
<1>7. ASSUME NEW c \in Calls, MarkExecuted(c) \/ EnableWorm(c) PROVE Goal
  BY <1>7 DEF MarkExecuted, EnableWorm
<1>8. ASSUME NEW c \in Calls, LoseCall(c) PROVE Goal
  BY <1>8 DEF LoseCall
<1>9. CASE UNCHANGED approvalVars  BY <1>9 DEF approvalVars
<1> QED  BY <1>2, <1>3, <1>4, <1>5, <1>6, <1>7, <1>8, <1>9 DEF ApprovalsNext

\* A step that adds to the votes with a decision leaves the call that did it.
LEMMA NewVotesPend ==
  ASSUME ApprovalsInv, [ApprovalsNext]_approvalVars, NEW r \in Requests, NEW d \in Decisions
  PROVE  VotesFor(r, d)' = VotesFor(r, d) \/ Pending(r, d)'
<1>1. (\E c \in Calls : InsertVote(c)) \/ UNCHANGED votes
  BY DEF ApprovalsNext, approvalVars, CreateApprovalRequest, StartVote, StartExecute, StartEnableWorm,
         CountVotes, UpdateStatus, MarkExecuted, EnableWorm, LoseCall
<1>2. CASE UNCHANGED votes  BY <1>2 DEF VotesFor
<1>3. ASSUME NEW c \in Calls, InsertVote(c) PROVE VotesFor(r, d)' = VotesFor(r, d) \/ Pending(r, d)'
  <2>1. CASE UNCHANGED votes  BY <2>1 DEF VotesFor
  <2>2. CASE call[c].request = r /\ call[c].decision = d /\ votes' # votes
    <3>1. call'[c].pc \in {"count", "update"} /\ call'[c].request = r /\ call'[c].decision = d
      BY <1>3, <2>2 DEF InsertVote, ApprovalsInv, ApprovalsTypeOK, CallRows, Continues
    <3> QED  BY <3>1 DEF Pending
  <2>3. CASE call[c].request # r \/ call[c].decision # d
    <3>1. votes' = votes \/ votes' = votes \cup {[request |-> call[c].request, by |-> call[c].by, decision |-> call[c].decision]}
      BY <1>3 DEF InsertVote
    <3> QED  BY <2>3, <3>1 DEF VotesFor
  <2> QED  BY <2>1, <2>2, <2>3
<1> QED  BY <1>1, <1>2, <1>3

\* Every step keeps decisive votes noticed.
LEMMA StepNotice == ApprovalsInv /\ [ApprovalsNext]_approvalVars => NoticeInv'
<1> SUFFICES ASSUME ApprovalsInv, [ApprovalsNext]_approvalVars, NEW r \in Requests, status'[r] = "pending"
             PROVE  /\ HasQuorum(r)' => Pending(r, "approved")'
                    /\ VotesFor(r, "rejected")' # {} => Pending(r, "rejected")'
  BY DEF NoticeInv
<1>a. ApprovalsTypeOK /\ CallInv /\ VotesInv /\ NoticeInv  BY DEF ApprovalsInv
<1>1. CASE status[r] = "pending"
  <2>1. HasQuorum(r) => Pending(r, "approved")'
    BY <1>1, <1>a, PendingStays DEF NoticeInv, Decisions
  <2>2. VotesFor(r, "rejected") # {} => Pending(r, "rejected")'
    BY <1>1, <1>a, PendingStays DEF NoticeInv, Decisions
  <2>3. HasQuorum(r)' => HasQuorum(r) \/ Pending(r, "approved")'
    BY NewVotesPend DEF HasQuorum, Decisions
  <2>4. VotesFor(r, "rejected")' # {} => VotesFor(r, "rejected") # {} \/ Pending(r, "rejected")'
    BY NewVotesPend DEF Decisions
  <2> QED  BY <2>1, <2>2, <2>3, <2>4
<1>2. CASE status[r] # "pending"
  <2>1. CreateApprovalRequest(r) /\ status[r] = "none"
    <3>1. ~ \E c \in Calls : UpdateStatus(c)
      BY <1>2, <1>a DEF UpdateStatus, ApprovalsTypeOK, CallInv, CallAt, Decisions
    <3>2. ~ \E c \in Calls : MarkExecuted(c)
      BY <1>2, <1>a DEF MarkExecuted, ApprovalsTypeOK, CallInv, CallAt
    <3>3. ~ UNCHANGED status  BY <1>2
    <3>4. PICK q \in Requests : CreateApprovalRequest(q)
      BY <3>1, <3>2, <3>3 DEF ApprovalsNext, approvalVars, StartVote, StartExecute, StartEnableWorm,
         InsertVote, CountVotes, EnableWorm, LoseCall
    <3>5. q = r  BY <1>2, <3>4, <1>a DEF CreateApprovalRequest, ApprovalsTypeOK
    <3> QED  BY <3>4, <3>5 DEF CreateApprovalRequest
  <2>2. ~HasQuorum(r) /\ VotesFor(r, "rejected") = {}
    <3>1. \A v \in votes : v.request # r  BY <2>1, <1>a DEF VotesInv
    <3> QED  BY <3>1, NoVotesNoQuorum
  <2>3. UNCHANGED votes  BY <2>1 DEF CreateApprovalRequest
  <2>4. HasQuorum(r)' = HasQuorum(r) /\ VotesFor(r, "rejected")' = VotesFor(r, "rejected")
    BY <2>3, SameVotes DEF Decisions
  <2> QED  BY <2>2, <2>4
<1> QED  BY <1>1, <1>2

-----------------------------------------------------------------------------
\* The four parts of the invariant hold together in every reachable state of the approval handlers.
THEOREM ApprovalsInductive == ApprovalsSpec => []ApprovalsInv
<1>1. ApprovalsInit => ApprovalsInv  BY ApprovalsStart
<1>2. ApprovalsInv /\ [ApprovalsNext]_approvalVars => ApprovalsInv'
  BY ApprovalsTypeStep, StepCall, StepVotes, StepQuorum, StepNotice DEF ApprovalsInv
<1> QED  BY <1>1, <1>2, PTL DEF ApprovalsSpec

\* Nothing is approved or executed, nor WORM mode turned on, without the approvals of
\* as many different approvers as the request requires (castVote, markExecuted, enableWorm).
THEOREM NothingWithoutQuorum == ApprovalsSpec => []QuorumBehind
<1>1. ApprovalsInv => QuorumBehind  BY DEF ApprovalsInv, QuorumInv, QuorumBehind
<1> QED  BY <1>1, ApprovalsInductive, PTL

\* The votes that decide a request never go unnoticed: the status follows, or a call
\* that voted has still to write it or was lost (castVote).
THEOREM DecisionsNoticed == ApprovalsSpec => []NoticedWhenDecided
<1>1. ApprovalsInv => NoticedWhenDecided
  BY DEF ApprovalsInv, NoticeInv, Pending, NoticedWhenDecided
<1> QED  BY <1>1, ApprovalsInductive, PTL

\* Decisions are backed by their votes, and votes that decide are noticed, for any
\* requests, calls and quorums (approvals.ts).
THEOREM DecisionsCorrect == ApprovalsSpec => []DecisionSound
<1>1. QuorumBehind /\ NoticedWhenDecided => DecisionSound
  BY DEF DecisionSound
<1> QED  BY <1>1, NothingWithoutQuorum, DecisionsNoticed, PTL

-----------------------------------------------------------------------------
(* Legal holds.                                                            *)

\* What a call knows of the request it resolves and of the hold behind it.
Knows(it, rem) ==
  /\ it.pc \in {"mark", "insert", "resolve", "settle"} => it.hold \in Holds /\ it.by \in Officers
  /\ it.pc \in {"resolve", "settle"} =>
       /\ it.removal \in DOMAIN rem
       /\ rem[it.removal].hold = it.hold
       /\ it.verdict \in {"approved", "rejected"}
  /\ it.pc = "resolve" /\ it.verdict = "approved" => it.by # rem[it.removal].by
  /\ it.pc = "settle" /\ it.verdict = "approved" => rem[it.removal].co # Nobody

SessionInv == \A c \in Sessions : Knows(session[c], removal)

\* An officer who approved is not the one who asked.
RemovalInv ==
  \A q \in DOMAIN removal : removal[q].co # removal[q].by

HoldsInv == HoldsTypeOK /\ SessionInv /\ RemovalInv /\ FourEyes /\ RemovalTracked /\ HoldsRespected

-----------------------------------------------------------------------------
\* There are no holds and no calls at first.
LEMMA HoldsStart == HoldsInit => HoldsInv
<1> SUFFICES ASSUME HoldsInit PROVE HoldsInv  OBVIOUS
<1> USE DEF HoldsInit, NoSession, Asleep
<1>1. HoldsTypeOK
  BY LegalHoldAssumption DEF HoldsTypeOK, SessionRows, RemovalRows
<1>2. SessionInv /\ RemovalInv  BY DEF SessionInv, Knows, RemovalInv
<1>3. FourEyes /\ RemovalTracked /\ HoldsRespected  BY DEF FourEyes, RemovalTracked, HoldsRespected
<1> QED  BY <1>1, <1>2, <1>3 DEF HoldsInv

\* The row a call or a request is replaced by decides the type of them all.
LEMMA RowTypes ==
  ASSUME HoldsTypeOK, SessionInv, NEW c \in Sessions
  PROVE  /\ NoSession \in SessionRows
         /\ \A o \in Officers, h \in Holds :
              [pc |-> "mark", hold |-> h, removal |-> 0, by |-> o, verdict |-> "none"] \in SessionRows
         /\ \A o \in Officers, q \in DOMAIN removal, v \in {"approved", "rejected"} :
              [pc |-> "resolve", hold |-> removal[q].hold, removal |-> q, by |-> o, verdict |-> v] \in SessionRows
         /\ \A pc \in {"insert", "settle", "lost"} : [session[c] EXCEPT !.pc = pc] \in SessionRows
         /\ \A it \in SessionRows : [session EXCEPT ![c] = it] \in [Sessions -> SessionRows]
<1> USE LegalHoldAssumption
<1>1. NoSession \in SessionRows  BY DEF NoSession, SessionRows
<1>2. \A o \in Officers, h \in Holds :
        [pc |-> "mark", hold |-> h, removal |-> 0, by |-> o, verdict |-> "none"] \in SessionRows
  BY DEF SessionRows
<1>3. ASSUME NEW o \in Officers, NEW q \in DOMAIN removal, NEW v \in {"approved", "rejected"}
      PROVE  [pc |-> "resolve", hold |-> removal[q].hold, removal |-> q, by |-> o, verdict |-> v] \in SessionRows
  <2>1. removal[q] \in RemovalRows /\ Len(removal) \in Nat /\ q \in 1..Len(removal) /\ Len(removal) <= MaxRemovals
    BY DEF HoldsTypeOK
  <2>2. q \in 0..MaxRemovals /\ removal[q].hold \in Holds  BY <2>1 DEF RemovalRows
  <2> QED  BY <2>2 DEF SessionRows
<1>4. \A pc \in {"insert", "settle", "lost"} : [session[c] EXCEPT !.pc = pc] \in SessionRows
  BY DEF HoldsTypeOK, SessionRows
<1>5. \A it \in SessionRows : [session EXCEPT ![c] = it] \in [Sessions -> SessionRows]
  BY DEF HoldsTypeOK
<1> QED  BY <1>1, <1>2, <1>3, <1>4, <1>5

\* What is written to the holds has its type.
LEMMA HoldTypes ==
  ASSUME HoldsTypeOK, NEW h \in Holds, NEW to \in {"active", "pending_removal", "removed"}, SetHold(h, to)
  PROVE  hold' \in [Holds -> {"none", "active", "pending_removal", "removed"}] /\ fresh' \subseteq Holds
BY DEF HoldsTypeOK, SetHold

\* A step on the holds, the calls and the requests keeps the types.
LEMMA HoldsTypeStep == HoldsInv /\ [HoldsNext]_holdVars => HoldsTypeOK'
<1> SUFFICES ASSUME HoldsTypeOK, SessionInv, [HoldsNext]_holdVars PROVE HoldsTypeOK'
  BY DEF HoldsInv
<1>1. ASSUME NEW h \in Holds, PlaceLegalHold(h) PROVE HoldsTypeOK'
  BY <1>1, HoldTypes DEF PlaceLegalHold, HoldsTypeOK, UnchangedSweep
<1>2. ASSUME NEW c \in Sessions, NEW o \in Officers, NEW h \in Holds, StartRemovalRequest(c, o, h) PROVE HoldsTypeOK'
  BY <1>2, RowTypes DEF StartRemovalRequest, HoldsTypeOK, UnchangedSweep
<1>3. ASSUME NEW c \in Sessions, NEW o \in Officers, NEW q \in DOMAIN removal, NEW v \in {"approved", "rejected"},
             StartVerdict(c, o, q, v)
      PROVE  HoldsTypeOK'
  BY <1>3, RowTypes DEF StartVerdict, HoldsTypeOK, UnchangedSweep
<1>4. ASSUME NEW c \in Sessions, MarkPendingRemoval(c) PROVE HoldsTypeOK'
  <2>1. session[c].hold \in Holds  BY <1>4 DEF MarkPendingRemoval, SessionAt, SessionInv, Knows
  <2>2. hold' \in [Holds -> {"none", "active", "pending_removal", "removed"}] /\ fresh' \subseteq Holds
    BY <1>4, <2>1, HoldTypes DEF MarkPendingRemoval
  <2>3. session' \in [Sessions -> SessionRows]  BY <1>4, RowTypes DEF MarkPendingRemoval, Goes
  <2> QED  BY <1>4, <2>2, <2>3 DEF MarkPendingRemoval, HoldsTypeOK, UnchangedSweep
<1>5. ASSUME NEW c \in Sessions, InsertRemoval(c) PROVE HoldsTypeOK'
  <2>1. session' \in [Sessions -> SessionRows]  BY <1>5, RowTypes DEF InsertRemoval, Leaves
  <2>2. removal' \in Seq(RemovalRows) /\ Len(removal') <= MaxRemovals
    <3>1. CASE UNCHANGED removal  BY <3>1 DEF HoldsTypeOK
    <3>2. CASE removal' # removal
      <4> DEFINE it == [status |-> "pending", hold |-> session[c].hold, by |-> session[c].by, co |-> Nobody]
      <4>1. it \in RemovalRows  BY <1>5 DEF InsertRemoval, SessionAt, SessionInv, Knows, RemovalRows
      <4>2. removal' = Append(removal, it) /\ Len(removal) < MaxRemovals  BY <1>5, <3>2 DEF InsertRemoval
      <4>3. removal \in Seq(RemovalRows) /\ MaxRemovals \in Nat  BY LegalHoldAssumption DEF HoldsTypeOK
      <4> HIDE DEF it
      <4> QED  BY <4>1, <4>2, <4>3
    <3> QED  BY <3>1, <3>2
  <2> QED  BY <1>5, <2>1, <2>2 DEF InsertRemoval, HoldsTypeOK, UnchangedSweep
<1>6. ASSUME NEW c \in Sessions, ResolveRemoval(c) PROVE HoldsTypeOK'
  <2>1. session' \in [Sessions -> SessionRows]  BY <1>6, RowTypes DEF ResolveRemoval, Leaves, Goes
  <2>2. removal' \in Seq(RemovalRows) /\ Len(removal') <= MaxRemovals
    <3>1. CASE UNCHANGED removal  BY <3>1 DEF HoldsTypeOK
    <3>2. CASE removal' # removal
      <4> DEFINE q == session[c].removal
                 it == [removal[q] EXCEPT !.status = session[c].verdict,
                           !.co = IF session[c].verdict = "approved" THEN session[c].by ELSE @]
      <4>1. q \in DOMAIN removal /\ removal[q] \in RemovalRows
        BY <1>6 DEF ResolveRemoval, SessionAt, SessionInv, Knows, HoldsTypeOK
      <4>2. it \in RemovalRows  BY <1>6, <4>1 DEF ResolveRemoval, SessionAt, SessionInv, Knows, RemovalRows
      <4>3. removal' = [removal EXCEPT ![q] = it]  BY <1>6, <3>2 DEF ResolveRemoval
      <4>4. removal \in Seq(RemovalRows) /\ Len(removal) <= MaxRemovals  BY DEF HoldsTypeOK
      <4> HIDE DEF it, q
      <4> QED  BY <4>1, <4>2, <4>3, <4>4
    <3> QED  BY <3>1, <3>2
  <2> QED  BY <1>6, <2>1, <2>2 DEF ResolveRemoval, HoldsTypeOK, UnchangedSweep
<1>7. ASSUME NEW c \in Sessions, SettleHold(c) PROVE HoldsTypeOK'
  <2>1. session[c].hold \in Holds  BY <1>7 DEF SettleHold, SessionAt, SessionInv, Knows
  <2>2. hold' \in [Holds -> {"none", "active", "pending_removal", "removed"}] /\ fresh' \subseteq Holds
    BY <1>7, <2>1, HoldTypes DEF SettleHold
  <2>3. session' \in [Sessions -> SessionRows]  BY <1>7, RowTypes DEF SettleHold, Leaves
  <2> QED  BY <1>7, <2>2, <2>3 DEF SettleHold, HoldsTypeOK, UnchangedSweep
<1>8. ASSUME NEW c \in Sessions, LoseSession(c) PROVE HoldsTypeOK'
  <2>1. ASSUME session[c].pc \in {"insert", "settle"} PROVE session' \in [Sessions -> SessionRows]
    <3>1. session' = [session EXCEPT ![c] = [session[c] EXCEPT !.pc = "lost"]]  BY <1>8, <2>1 DEF LoseSession, Goes
    <3> QED  BY <3>1, RowTypes
  <2>2. ASSUME session[c].pc \notin {"insert", "settle"} PROVE session' \in [Sessions -> SessionRows]
    <3>1. session' = [session EXCEPT ![c] = NoSession]  BY <1>8, <2>2 DEF LoseSession, Leaves
    <3> QED  BY <3>1, RowTypes
  <2>3. session' \in [Sessions -> SessionRows]  BY <2>1, <2>2
  <2> QED  BY <1>8, <2>3 DEF LoseSession, HoldsTypeOK, UnchangedSweep
<1>9. ASSUME NEW e \in Records, GrowOld(e) PROVE HoldsTypeOK'
  BY <1>9 DEF GrowOld, HoldsTypeOK
<1>10. ASSUME NEW e \in Records, CheckRecord(e) PROVE HoldsTypeOK'
  BY <1>10 DEF CheckRecord, HoldsTypeOK
<1>11. CASE Scan  BY <1>11 DEF Scan, HoldsTypeOK
<1>12. CASE DeleteRecord  BY <1>12 DEF DeleteRecord, HoldsTypeOK
<1>13. CASE EndSweep  BY <1>13 DEF EndSweep, Asleep, HoldsTypeOK
<1>14. CASE UNCHANGED holdVars  BY <1>14 DEF holdVars, HoldsTypeOK
<1> QED  BY <1>1, <1>2, <1>3, <1>4, <1>5, <1>6, <1>7, <1>8, <1>9, <1>10, <1>11, <1>12, <1>13, <1>14 DEF HoldsNext

\* A step leaves the requests as they were, or adds one, or resolves one that a call is at.
LEMMA StepRemoval ==
  HoldsInv /\ [HoldsNext]_holdVars =>
    /\ DOMAIN removal \subseteq DOMAIN removal'
    /\ \A q \in DOMAIN removal : removal'[q].hold = removal[q].hold /\ removal'[q].by = removal[q].by
    /\ \A q \in DOMAIN removal : removal[q].co # Nobody => removal'[q].co # Nobody
    /\ RemovalInv'
<1> SUFFICES ASSUME HoldsTypeOK, SessionInv, RemovalInv, [HoldsNext]_holdVars
             PROVE  /\ DOMAIN removal \subseteq DOMAIN removal'
                    /\ \A q \in DOMAIN removal : removal'[q].hold = removal[q].hold /\ removal'[q].by = removal[q].by
                    /\ \A q \in DOMAIN removal : removal[q].co # Nobody => removal'[q].co # Nobody
                    /\ RemovalInv'
  BY DEF HoldsInv
<1> DEFINE Goal == /\ DOMAIN removal \subseteq DOMAIN removal'
                   /\ \A q \in DOMAIN removal : removal'[q].hold = removal[q].hold /\ removal'[q].by = removal[q].by
                   /\ \A q \in DOMAIN removal : removal[q].co # Nobody => removal'[q].co # Nobody
                   /\ RemovalInv'
<1>1. CASE UNCHANGED removal  BY <1>1 DEF RemovalInv
<1>2. ASSUME NEW c \in Sessions, InsertRemoval(c), removal' # removal PROVE Goal
  <2> DEFINE it == [status |-> "pending", hold |-> session[c].hold, by |-> session[c].by, co |-> Nobody]
  <2>1. removal' = Append(removal, it) /\ removal \in Seq(RemovalRows)  BY <1>2 DEF InsertRemoval, HoldsTypeOK
  <2>2. it.by # it.co
    BY <1>2, LegalHoldAssumption DEF InsertRemoval, SessionAt, SessionInv, Knows
  <2> HIDE DEF it
  <2>3. /\ DOMAIN removal' = 1..(Len(removal) + 1) /\ DOMAIN removal = 1..Len(removal) /\ Len(removal) \in Nat
        /\ \A q \in 1..Len(removal) : removal'[q] = removal[q]
        /\ removal'[Len(removal) + 1] = it
    BY <2>1
  <2>4. \A q \in 1..(Len(removal) + 1) : q \in 1..Len(removal) \/ q = Len(removal) + 1  BY <2>3
  <2> QED  BY <2>2, <2>3, <2>4 DEF RemovalInv
<1>3. ASSUME NEW c \in Sessions, ResolveRemoval(c), removal' # removal PROVE Goal
  <2> DEFINE q == session[c].removal
  <2>a. session[c].pc = "resolve"  BY <1>3 DEF ResolveRemoval, SessionAt
  <2>b. removal \in Seq(RemovalRows)  BY DEF HoldsTypeOK
  <2>c. /\ q \in DOMAIN removal
        /\ session[c].by \in Officers /\ session[c].verdict \in {"approved", "rejected"}
        /\ session[c].verdict = "approved" => session[c].by # removal[q].by
    BY <2>a DEF SessionInv, Knows
  <2>1. /\ q \in DOMAIN removal /\ removal[q].by \in Officers /\ removal \in Seq(RemovalRows)
        /\ session[c].by \in Officers /\ session[c].verdict \in {"approved", "rejected"}
        /\ session[c].verdict = "approved" => session[c].by # removal[q].by
    <3>1. removal[q] \in RemovalRows  BY <2>b, <2>c
    <3>2. removal[q].by \in Officers  BY <3>1 DEF RemovalRows
    <3> QED  BY <2>b, <2>c, <3>2
  <2>2. removal' = [removal EXCEPT ![q].status = session[c].verdict,
                                   ![q].co = IF session[c].verdict = "approved" THEN session[c].by ELSE @]
    BY <1>3 DEF ResolveRemoval
  <2>3. removal[q] \in RemovalRows  BY <2>1
  <2>4. /\ DOMAIN removal' = DOMAIN removal
        /\ \A p \in DOMAIN removal : p # q => removal'[p] = removal[p]
        /\ removal'[q].hold = removal[q].hold /\ removal'[q].by = removal[q].by
        /\ removal'[q].co = IF session[c].verdict = "approved" THEN session[c].by ELSE removal[q].co
    BY <2>1, <2>2, <2>3 DEF RemovalRows
  <2> HIDE DEF q
  <2> QED  BY <2>1, <2>4, LegalHoldAssumption DEF RemovalInv
<1>4. \/ UNCHANGED removal \/ \E c \in Sessions : InsertRemoval(c) \/ ResolveRemoval(c)
  BY DEF HoldsNext, holdVars, PlaceLegalHold, StartRemovalRequest, StartVerdict, MarkPendingRemoval, SettleHold,
         LoseSession, GrowOld, CheckRecord, Scan, DeleteRecord, EndSweep
<1> QED  BY <1>1, <1>2, <1>3, <1>4

\* A call that a step leaves alone still knows what it knew.
LEMMA KnowsStays ==
  ASSUME HoldsInv, [HoldsNext]_holdVars, NEW it, Knows(it, removal)
  PROVE  Knows(it, removal')
BY StepRemoval DEF Knows

\* Each step leaves the call that takes it with what the next one needs.
LEMMA StepSession == HoldsInv /\ [HoldsNext]_holdVars => SessionInv'
<1> SUFFICES ASSUME HoldsInv, [HoldsNext]_holdVars, NEW d \in Sessions PROVE Knows(session'[d], removal')
  BY DEF SessionInv
<1>a. HoldsTypeOK /\ SessionInv /\ Knows(session[d], removal)  BY DEF HoldsInv, SessionInv
<1>b. session[d] \in SessionRows /\ \A it : Knows(it, removal) => Knows(it, removal')
  BY <1>a, KnowsStays DEF HoldsTypeOK
<1> DEFINE Becomes(it) == session' = [session EXCEPT ![d] = it]
<1>c. \A it : Becomes(it) => session'[d] = it  BY <1>a DEF HoldsTypeOK
<1>0. CASE session'[d] = session[d]  BY <1>0, <1>a, <1>b
<1>1. ASSUME NEW o \in Officers, NEW h \in Holds, StartRemovalRequest(d, o, h) PROVE Knows(session'[d], removal')
  BY <1>1, <1>c DEF StartRemovalRequest, Knows
<1>2. ASSUME NEW o \in Officers, NEW q \in DOMAIN removal, NEW v \in {"approved", "rejected"}, StartVerdict(d, o, q, v)
      PROVE  Knows(session'[d], removal')
  <2> DEFINE it == [pc |-> "resolve", hold |-> removal[q].hold, removal |-> q, by |-> o, verdict |-> v]
  <2>1. Becomes(it)  BY <1>2 DEF StartVerdict
  <2>2. removal[q] \in RemovalRows  BY <1>a DEF HoldsTypeOK
  <2>3. Knows(it, removal)  BY <1>2, <2>2 DEF StartVerdict, Knows, RemovalRows
  <2> QED  BY <2>1, <2>3, <1>b, <1>c
<1>3. ASSUME MarkPendingRemoval(d) PROVE Knows(session'[d], removal')
  <2>1. Becomes([session[d] EXCEPT !.pc = "insert"]) /\ session[d].pc = "mark"
    BY <1>3 DEF MarkPendingRemoval, SessionAt, Goes
  <2>2. Knows([session[d] EXCEPT !.pc = "insert"], removal)  BY <2>1, <1>a, <1>b DEF Knows, SessionRows
  <2> QED  BY <2>1, <2>2, <1>b, <1>c
<1>4. ASSUME Leaves(d) PROVE Knows(session'[d], removal')
  <2>1. session'[d] = NoSession  BY <1>4, <1>c DEF Leaves
  <2> QED  BY <2>1 DEF NoSession, Knows
<1>5. ASSUME ResolveRemoval(d), ~Leaves(d) PROVE Knows(session'[d], removal')
  <2> DEFINE q == session[d].removal
  <2>1. Becomes([session[d] EXCEPT !.pc = "settle"]) /\ session[d].pc = "resolve"
    BY <1>5 DEF ResolveRemoval, SessionAt, Goes
  <2>2. /\ session[d].hold \in Holds /\ session[d].by \in Officers /\ q \in DOMAIN removal
        /\ removal[q].hold = session[d].hold /\ session[d].verdict \in {"approved", "rejected"}
    BY <2>1, <1>a DEF Knows
  <2>3. session[d].verdict = "approved" => removal'[q].co = session[d].by
    <3>1. removal' = [removal EXCEPT ![q].status = session[d].verdict,
                          ![q].co = IF session[d].verdict = "approved" THEN session[d].by ELSE @]
      BY <1>5 DEF ResolveRemoval
    <3>2. removal[q] \in RemovalRows  BY <1>a, <2>2 DEF HoldsTypeOK
    <3> HIDE DEF q
    <3> QED  BY <3>1, <3>2, <2>2 DEF RemovalRows
  <2>4. q \in DOMAIN removal' /\ removal'[q].hold = session[d].hold  BY <2>2, StepRemoval
  <2>5. [session[d] EXCEPT !.pc = "settle"] = [pc |-> "settle", hold |-> session[d].hold, removal |-> q,
           by |-> session[d].by, verdict |-> session[d].verdict]
    BY <1>b DEF SessionRows
  <2>6. Knows([session[d] EXCEPT !.pc = "settle"], removal')
    BY <2>2, <2>3, <2>4, <2>5, LegalHoldAssumption DEF Knows
  <2> QED  BY <2>1, <2>6, <1>c
<1>6. ASSUME LoseSession(d), ~Leaves(d) PROVE Knows(session'[d], removal')
  <2>1. Becomes([session[d] EXCEPT !.pc = "lost"])  BY <1>6 DEF LoseSession, Goes
  <2>2. Knows([session[d] EXCEPT !.pc = "lost"], removal')  BY <1>b DEF Knows, SessionRows
  <2> QED  BY <2>1, <2>2, <1>c
<1>7. \/ session'[d] = session[d] \/ Leaves(d)
      \/ \E o \in Officers, h \in Holds : StartRemovalRequest(d, o, h)
      \/ \E o \in Officers, q \in DOMAIN removal, v \in {"approved", "rejected"} : StartVerdict(d, o, q, v)
      \/ MarkPendingRemoval(d) \/ ResolveRemoval(d) \/ LoseSession(d)
  <2>1. ASSUME NEW c \in Sessions, c # d, NEW it, session' = [session EXCEPT ![c] = it]
        PROVE  session'[d] = session[d]
    BY <2>1, <1>a DEF HoldsTypeOK
  <2>2. \/ UNCHANGED session
        \/ \E c \in Sessions, o \in Officers, h \in Holds : StartRemovalRequest(c, o, h)
        \/ \E c \in Sessions, o \in Officers, q \in DOMAIN removal, v \in {"approved", "rejected"} : StartVerdict(c, o, q, v)
        \/ \E c \in Sessions : \/ MarkPendingRemoval(c) \/ InsertRemoval(c)
                               \/ ResolveRemoval(c) \/ SettleHold(c) \/ LoseSession(c)
    BY DEF HoldsNext, holdVars, PlaceLegalHold, GrowOld, CheckRecord, Scan, DeleteRecord, EndSweep
  <2>3. CASE \E c \in Sessions, o \in Officers, h \in Holds : StartRemovalRequest(c, o, h)
    BY <2>1, <2>3 DEF StartRemovalRequest
  <2>4. CASE \E c \in Sessions, o \in Officers, q \in DOMAIN removal, v \in {"approved", "rejected"} : StartVerdict(c, o, q, v)
    BY <2>1, <2>4 DEF StartVerdict
  <2>5. ASSUME NEW c \in Sessions, MarkPendingRemoval(c) \/ ResolveRemoval(c) \/ LoseSession(c)
        PROVE  c = d \/ session'[d] = session[d]
    BY <2>1, <2>5 DEF MarkPendingRemoval, ResolveRemoval, LoseSession, Goes, Leaves
  <2>6. ASSUME NEW c \in Sessions, InsertRemoval(c) \/ SettleHold(c)
        PROVE  Leaves(d) \/ session'[d] = session[d]
    BY <2>1, <2>6 DEF InsertRemoval, SettleHold, Leaves
  <2> QED  BY <2>2, <2>3, <2>4, <2>5, <2>6
<1> QED  BY <1>0, <1>1, <1>2, <1>3, <1>4, <1>5, <1>6, <1>7

-----------------------------------------------------------------------------
\* Which steps write a hold, and what they write.
LEMMA HoldWrites ==
  ASSUME HoldsInv, [HoldsNext]_holdVars, NEW h \in Holds, hold'[h] # hold[h]
  PROVE  \/ hold'[h] = "active"
         \/ \E c \in Sessions : MarkPendingRemoval(c) /\ session[c].hold = h
         \/ \E c \in Sessions : SettleHold(c) /\ session[c].hold = h /\ session[c].verdict = "approved"
<1>0. hold \in [Holds -> {"none", "active", "pending_removal", "removed"}]  BY DEF HoldsInv, HoldsTypeOK
<1>1. ASSUME NEW g, NEW to, SetHold(g, to) PROVE g = h /\ hold'[h] = to
  BY <1>0, <1>1 DEF SetHold
<1>2. \/ \E g \in Holds : PlaceLegalHold(g)
      \/ \E c \in Sessions : MarkPendingRemoval(c) \/ SettleHold(c)
  BY DEF HoldsNext, holdVars, StartRemovalRequest, StartVerdict, InsertRemoval, ResolveRemoval, LoseSession,
         GrowOld, CheckRecord, Scan, DeleteRecord, EndSweep
<1>3. CASE \E g \in Holds : PlaceLegalHold(g)  BY <1>1, <1>3 DEF PlaceLegalHold
<1>4. ASSUME NEW c \in Sessions, MarkPendingRemoval(c) PROVE session[c].hold = h
  BY <1>1, <1>4 DEF MarkPendingRemoval
<1>5. ASSUME NEW c \in Sessions, SettleHold(c)
      PROVE  session[c].hold = h /\ (session[c].verdict = "approved" \/ hold'[h] = "active")
  BY <1>1, <1>5 DEF SettleHold
<1> QED  BY <1>2, <1>3, <1>4, <1>5

\* Only the settling of an approved request takes a hold away, and its approval stays on record.
LEMMA StepFourEyes == HoldsInv /\ [HoldsNext]_holdVars => FourEyes'
<1> SUFFICES ASSUME HoldsInv, [HoldsNext]_holdVars, NEW h \in Holds, hold'[h] = "removed"
             PROVE  \E q \in DOMAIN removal' : removal'[q].hold = h /\ removal'[q].co \notin {Nobody, removal'[q].by}
  BY DEF FourEyes
<1>1. CASE hold[h] = "removed"
  <2>1. PICK q \in DOMAIN removal : removal[q].hold = h /\ removal[q].co # Nobody
    BY <1>1 DEF HoldsInv, FourEyes
  <2> QED  BY <2>1, StepRemoval DEF RemovalInv
<1>2. CASE hold[h] # "removed"
  <2>1. PICK c \in Sessions : SettleHold(c) /\ session[c].hold = h /\ session[c].verdict = "approved"
    <3>1. ASSUME NEW c \in Sessions, MarkPendingRemoval(c), session[c].hold = h PROVE hold'[h] = "pending_removal"
      BY <3>1 DEF MarkPendingRemoval, SetHold, HoldsInv, HoldsTypeOK
    <3> QED  BY <1>2, <3>1, HoldWrites
  <2> DEFINE q == session[c].removal
  <2>2. q \in DOMAIN removal /\ removal[q].hold = h /\ removal[q].co # Nobody
    BY <2>1 DEF HoldsInv, SessionInv, Knows, SettleHold, SessionAt
  <2> QED  BY <2>2, StepRemoval DEF RemovalInv
<1> QED  BY <1>1, <1>2

\* What RemovalTracked says of one hold.
Tracked(h) ==
  \/ \E q \in DOMAIN removal : removal[q].hold = h /\ removal[q].status = "pending"
  \/ \E c \in Sessions : session[c].hold = h /\ session[c].pc \in {"insert", "settle", "lost"}

\* A hold that waits is tracked until a step takes it out of the waiting.
LEMMA StepTracked == HoldsInv /\ [HoldsNext]_holdVars => RemovalTracked'
<1> SUFFICES ASSUME HoldsInv, [HoldsNext]_holdVars, NEW h \in Holds, hold'[h] = "pending_removal"
             PROVE  Tracked(h)'
  BY DEF RemovalTracked, Tracked
<1>a. /\ HoldsTypeOK /\ SessionInv /\ RemovalTracked
      /\ session \in [Sessions -> SessionRows] /\ removal \in Seq(RemovalRows)
  BY DEF HoldsInv, HoldsTypeOK
<1>1. CASE hold[h] # "pending_removal"
  <2>1. PICK c \in Sessions : MarkPendingRemoval(c) /\ session[c].hold = h
    <3>1. ASSUME NEW c \in Sessions, SettleHold(c), session[c].hold = h, session[c].verdict = "approved"
          PROVE  hold'[h] = "removed"
      BY <3>1 DEF SettleHold, SetHold, HoldsInv, HoldsTypeOK
    <3> QED  BY <1>1, <3>1, HoldWrites
  <2>2. session'[c].hold = h /\ session'[c].pc = "insert"
    BY <1>a, <2>1 DEF MarkPendingRemoval, Goes, SessionRows
  <2> QED  BY <2>2 DEF Tracked
<1>2. CASE hold[h] = "pending_removal"
  <2>1. Tracked(h)  BY <1>2, <1>a DEF RemovalTracked, Tracked
  <2>2. CASE \E q \in DOMAIN removal : removal[q].hold = h /\ removal[q].status = "pending"
    <3>1. PICK q \in DOMAIN removal : removal[q].hold = h /\ removal[q].status = "pending"  BY <2>2
    <3>2. CASE removal'[q] = removal[q]  BY <3>1, <3>2, StepRemoval DEF Tracked
    <3>3. CASE removal'[q] # removal[q]
      <4>1. PICK c \in Sessions : ResolveRemoval(c) /\ removal' # removal
        <5>1. ASSUME NEW c \in Sessions, InsertRemoval(c) PROVE removal'[q] = removal[q]
          BY <1>a, <3>1, <5>1 DEF InsertRemoval
        <5> QED
          BY <3>3, <5>1 DEF HoldsNext, holdVars, PlaceLegalHold, StartRemovalRequest, StartVerdict, MarkPendingRemoval,
             SettleHold, LoseSession, GrowOld, CheckRecord, Scan, DeleteRecord, EndSweep
      <4>2. session[c].removal = q
        BY <1>a, <3>1, <3>3, <4>1 DEF ResolveRemoval
      <4>3. session[c].pc = "resolve" /\ session[c].hold = h
        BY <1>a, <3>1, <4>1, <4>2 DEF ResolveRemoval, SessionAt, SessionInv, Knows
      <4>4. session'[c].hold = h /\ session'[c].pc = "settle"
        BY <1>a, <4>1, <4>3 DEF ResolveRemoval, Goes, SessionRows
      <4> QED  BY <4>4 DEF Tracked
    <3> QED  BY <3>2, <3>3
  <2>3. ASSUME NEW c \in Sessions, session[c].hold = h, session[c].pc \in {"insert", "settle", "lost"}
        PROVE  Tracked(h)'
    <3>1. CASE session'[c] = session[c]  BY <2>3, <3>1 DEF Tracked
    <3>2. CASE InsertRemoval(c)
      <4>1. CASE Taken(h, "pending", session[c].by) /\ UNCHANGED removal
        BY <4>1 DEF Taken, Tracked
      <4>2. CASE removal' = Append(removal,
                   [status |-> "pending", hold |-> h, by |-> session[c].by, co |-> Nobody])
        <5>1. Len(removal) + 1 \in DOMAIN removal' /\ removal'[Len(removal) + 1].hold = h
              /\ removal'[Len(removal) + 1].status = "pending"
          BY <1>a, <4>2
        <5> QED  BY <5>1 DEF Tracked
      <4> QED  BY <2>3, <3>2, <4>1, <4>2 DEF InsertRemoval
    <3>3. CASE SettleHold(c)
      <4>1. hold'[h] # "pending_removal"
        BY <1>a, <2>3, <3>3 DEF SettleHold, SetHold, HoldsTypeOK
      <4> QED  BY <4>1
    <3>4. CASE LoseSession(c)
      <4>1. session[c].pc # "lost" /\ session' = [session EXCEPT ![c].pc = "lost"]
        BY <2>3, <3>4 DEF LoseSession, Goes
      <4>2. session'[c].hold = h /\ session'[c].pc = "lost"  BY <1>a, <2>3, <4>1 DEF SessionRows
      <4> QED  BY <4>2 DEF Tracked
    <3>5. \/ session'[c] = session[c] \/ InsertRemoval(c) \/ SettleHold(c) \/ LoseSession(c)
      <4>1. ASSUME NEW d \in Sessions, d # c, NEW it, session' = [session EXCEPT ![d] = it]
            PROVE  session'[c] = session[c]
        BY <4>1, <1>a
      <4>2. ASSUME NEW d \in Sessions, NEW o \in Officers, NEW g \in Holds, StartRemovalRequest(d, o, g)
            PROVE  session'[c] = session[c]
        BY <4>1, <4>2, <2>3 DEF StartRemovalRequest, SessionAt
      <4>3. ASSUME NEW d \in Sessions, NEW o \in Officers, NEW q \in DOMAIN removal,
                   NEW v \in {"approved", "rejected"}, StartVerdict(d, o, q, v)
            PROVE  session'[c] = session[c]
        BY <4>1, <4>3, <2>3 DEF StartVerdict, SessionAt
      <4>4. ASSUME NEW d \in Sessions, MarkPendingRemoval(d) PROVE session'[c] = session[c]
        BY <4>1, <4>4, <2>3 DEF MarkPendingRemoval, SessionAt, Goes
      <4>5. ASSUME NEW d \in Sessions, ResolveRemoval(d) PROVE session'[c] = session[c]
        BY <4>1, <4>5, <2>3 DEF ResolveRemoval, SessionAt, Goes, Leaves
      <4>6. ASSUME NEW d \in Sessions, InsertRemoval(d) \/ SettleHold(d) \/ LoseSession(d)
            PROVE  d = c \/ session'[c] = session[c]
        BY <4>1, <4>6 DEF InsertRemoval, SettleHold, LoseSession, Goes, Leaves
      <4>7. \/ UNCHANGED session
            \/ \E d \in Sessions, o \in Officers, g \in Holds : StartRemovalRequest(d, o, g)
            \/ \E d \in Sessions, o \in Officers, q \in DOMAIN removal, v \in {"approved", "rejected"} :
                 StartVerdict(d, o, q, v)
            \/ \E d \in Sessions : \/ MarkPendingRemoval(d) \/ InsertRemoval(d)
                                   \/ ResolveRemoval(d) \/ SettleHold(d) \/ LoseSession(d)
        BY DEF HoldsNext, holdVars, PlaceLegalHold, GrowOld, CheckRecord, Scan, DeleteRecord, EndSweep
      <4> QED  BY <4>2, <4>3, <4>4, <4>5, <4>6, <4>7
    <3> QED  BY <3>1, <3>2, <3>3, <3>4, <3>5
  <2> QED  BY <2>1, <2>2, <2>3 DEF Tracked
<1> QED  BY <1>1, <1>2

\* A hold that comes into force after the check is remembered, and a check starts afresh.
LEMMA StepRespected == HoldsInv /\ [HoldsNext]_holdVars => HoldsRespected'
<1> SUFFICES ASSUME HoldsInv, [HoldsNext]_holdVars, sweep'.pc = "delete", NEW h \in Holds, InForce(h)'
             PROVE  h \in fresh'
  BY DEF HoldsRespected
<1>a. HoldsTypeOK /\ HoldsRespected  BY DEF HoldsInv
<1>b. hold \in [Holds -> {"none", "active", "pending_removal", "removed"}]  BY <1>a DEF HoldsTypeOK
<1>1. ASSUME NEW g, NEW to, SetHold(g, to), UNCHANGED sweep PROVE h \in fresh'
  <2>1. InForce(h) => h \in fresh /\ fresh \subseteq fresh'  BY <1>a, <1>1 DEF HoldsRespected, SetHold
  <2>2. ~InForce(h) => g = h /\ to # "removed"  BY <1>b, <1>1 DEF InForce, SetHold
  <2>3. ~InForce(h) => h \in fresh'  BY <2>2, <1>1 DEF SetHold
  <2> QED  BY <2>1, <2>3
<1>2. ASSUME UNCHANGED <<hold, fresh, sweep>> PROVE h \in fresh'
  BY <1>a, <1>2 DEF HoldsRespected, InForce
<1>3. ASSUME NEW e \in Records, CheckRecord(e) PROVE h \in fresh'
  <2>1. ~InForce(h)  BY <1>a, <1>3 DEF CheckRecord, HoldsTypeOK
  <2> QED  BY <1>3, <2>1 DEF CheckRecord, InForce
<1>4. \/ \E g, to : SetHold(g, to) /\ UNCHANGED sweep
      \/ UNCHANGED <<hold, fresh, sweep>>
      \/ \E e \in Records : CheckRecord(e)
  <2>1. ASSUME NEW g \in Holds, PlaceLegalHold(g) PROVE \E f, to : SetHold(f, to) /\ UNCHANGED sweep
    BY <2>1 DEF PlaceLegalHold, UnchangedSweep
  <2>2. ASSUME NEW c \in Sessions, MarkPendingRemoval(c) PROVE \E f, to : SetHold(f, to) /\ UNCHANGED sweep
    BY <2>2 DEF MarkPendingRemoval, UnchangedSweep
  <2>3. ASSUME NEW c \in Sessions, SettleHold(c) PROVE \E f, to : SetHold(f, to) /\ UNCHANGED sweep
    BY <2>3 DEF SettleHold, UnchangedSweep
  <2>4. ASSUME NEW c \in Sessions, InsertRemoval(c) \/ ResolveRemoval(c) \/ LoseSession(c)
        PROVE  UNCHANGED <<hold, fresh, sweep>>
    BY <2>4 DEF InsertRemoval, ResolveRemoval, LoseSession, UnchangedSweep
  <2>5. ASSUME NEW c \in Sessions, NEW o \in Officers, NEW g \in Holds, StartRemovalRequest(c, o, g)
        PROVE  UNCHANGED <<hold, fresh, sweep>>
    BY <2>5 DEF StartRemovalRequest, UnchangedSweep
  <2>6. ASSUME NEW c \in Sessions, NEW o \in Officers, NEW q \in DOMAIN removal,
               NEW v \in {"approved", "rejected"}, StartVerdict(c, o, q, v)
        PROVE  UNCHANGED <<hold, fresh, sweep>>
    BY <2>6 DEF StartVerdict, UnchangedSweep
  <2>7. ASSUME NEW e \in Records, GrowOld(e) PROVE UNCHANGED <<hold, fresh, sweep>>  BY <2>7 DEF GrowOld
  <2>8. ~Scan /\ ~DeleteRecord /\ ~EndSweep  BY DEF Scan, DeleteRecord, EndSweep, Asleep
  <2>9. CASE UNCHANGED holdVars  BY <2>9 DEF holdVars
  <2> QED  BY <2>1, <2>2, <2>3, <2>4, <2>5, <2>6, <2>7, <2>8, <2>9 DEF HoldsNext
<1> QED  BY <1>1, <1>2, <1>3, <1>4

-----------------------------------------------------------------------------
\* The conjuncts hold together, in every reachable state.
LEMMA HoldsInductive == HoldsSpec => []HoldsInv
<1>1. HoldsInv /\ [HoldsNext]_holdVars => HoldsInv'
  BY HoldsTypeStep, StepSession, StepRemoval, StepFourEyes, StepTracked, StepRespected DEF HoldsInv
<1> QED  BY HoldsStart, <1>1, PTL DEF HoldsSpec

\* Four eyes: however the calls of officers overlap and are lost, a hold that was
\* removed has a request on record that another officer approved (legal-hold.ts,
\* approveHoldRemoval).
THEOREM FourEyesAlways == HoldsSpec => []FourEyes
<1>1. HoldsInv => FourEyes  BY DEF HoldsInv
<1> QED  BY HoldsInductive, <1>1, PTL

\* A hold that waits for its second officer can be decided on, or a call that has
\* still to insert or settle its request can be named, or one that was lost
\* (legal-hold.ts, requestHoldRemoval).
THEOREM RemovalsTracked == HoldsSpec => []RemovalTracked
<1>1. HoldsInv => RemovalTracked  BY DEF HoldsInv
<1> QED  BY HoldsInductive, <1>1, PTL

\* The sweep deletes under no hold that was in force when it checked the record
\* (retention-engine.ts, deleteEntityPastRetention).
THEOREM SweepsRespectHolds == HoldsSpec => []HoldsRespected
<1>1. HoldsInv => HoldsRespected  BY DEF HoldsInv
<1> QED  BY HoldsInductive, <1>1, PTL

\* Holds end by four eyes, can always be decided on, and keep what they hold, for any
\* holds, officers, calls and records (legal-hold.ts, retention-engine.ts).
THEOREM HoldsCorrect == HoldsSpec => []HoldsSound
<1>1. FourEyes /\ RemovalTracked /\ HoldsRespected => HoldsSound
  BY DEF HoldsSound
<1> QED  BY <1>1, FourEyesAlways, RemovalsTracked, SweepsRespectHolds, PTL

-----------------------------------------------------------------------------
(* Life cycles of items.                                                   *)

\* The states of the machines.
StatesOf(k) == IF k \in Recordings THEN RecordingStates
               ELSE IF k = "email" THEN EmailStates
               ELSE IF k = "annotation" THEN AnnotationStates ELSE AutolearnStates

AnyState == {NoState} \cup RecordingStates \cup EmailStates \cup AnnotationStates \cup AutolearnStates

MoverRecord == [at : {"idle", "write", "log", "hash", "audit"}, from : AnyState \cup Nat, to : AnyState]

\* Callers that are at a move.
Busy == {c \in LifeCalls : mover[c].at # "idle"}

\* Every stop is that of a call, and a call that is under way has not stopped.
LifeTypes ==
  /\ machine \in DOMAIN Maps /\ row \in {NoState} \cup StatesOf(machine)
  /\ mover \in [LifeCalls -> MoverRecord]
  /\ ledger \in Seq(AnyState \X AnyState) /\ moves \in Seq(AnyState \X AnyState) /\ chain \in Seq(Nat)
  /\ started \in 0..MaxMoves /\ cuts \in Nat /\ overlapped \in BOOLEAN
  /\ IsFiniteSet(Busy) /\ cuts + Cardinality(Busy) <= started

\* A move of the item's own machine, or its beginning.
LegalMove(from, to) ==
  IF from = NoState THEN to = First[machine] ELSE from \in StatesOf(machine) /\ to \in Maps[machine][from]

\* What a caller is going to write is such a move.
CallerAt(c) ==
  /\ mover[c].at = "write" => mover[c].from # NoState /\ LegalMove(mover[c].from, mover[c].to)
  /\ mover[c].at = "log" => LegalMove(mover[c].from, mover[c].to) /\ machine # "autolearn"
  /\ mover[c].at = "audit" => mover[c].from \in Nat

LegalRows == \A i \in DOMAIN ledger : LegalMove(ledger[i][1], ledger[i][2])

\* Of the calls that have yet to log their move: those whose move is m.
Telling(m) == {c \in Untold : MoveOf(c) = m}

\* The log and what is yet to be logged tell no move more often than it was written, and leave
\* out as many as were cut.
Told ==
  /\ \A m \in AnyState \X AnyState : Times(ledger, m) + Cardinality(Telling(m)) <= Times(moves, m)
  /\ machine # "autolearn" => Len(moves) = Len(ledger) + Cardinality(Untold) + cuts

\* The breaks of a log l that goes on to the state s.
BreaksOf(l, s) ==
  {i \in 1..Len(l) + 1 :
     (IF i = 1 THEN NoState ELSE l[i - 1][2]) # (IF i = Len(l) + 1 THEN s ELSE l[i][1])}

\* While calls do not overlap one of them is under way at most: the row is what it read, then
\* what it has written, and the log without it breaks once per stop.
Alone ==
  ~overlapped =>
    /\ \A c, d \in LifeCalls : mover[c].at # "idle" /\ mover[d].at # "idle" => c = d
    /\ \A i \in DOMAIN chain : chain[i] = i - 1
    /\ \A c \in LifeCalls : mover[c].at = "audit" => mover[c].from = Len(chain)
    /\ machine # "autolearn" =>
         /\ \A c \in LifeCalls : mover[c].at = "write" => mover[c].from = row
         /\ \A c \in LifeCalls : mover[c].at = "log" =>
              mover[c].to = row /\ Cardinality(BreaksOf(ledger, mover[c].from)) <= cuts
         /\ (\A c \in LifeCalls : mover[c].at # "log") => Cardinality(BreaksOf(ledger, row)) <= cuts

LifeInv == LifeTypes /\ (\A c \in LifeCalls : CallerAt(c)) /\ LegalRows /\ Told /\ Alone

-----------------------------------------------------------------------------
\* The five maps: each is over the states of its machine, stays in them, and has no way out
\* of a state the machine ends in.
LEMMA TheMaps ==
  ASSUME NEW k \in DOMAIN Maps
  PROVE  /\ DOMAIN Maps[k] = StatesOf(k) /\ First[k] \in StatesOf(k)
         /\ \A s \in StatesOf(k) : Maps[k][s] \subseteq StatesOf(k)
         /\ \A s \in Ended[k] : s \in StatesOf(k) /\ Maps[k][s] = {}
         /\ NoState \notin StatesOf(k) /\ StatesOf(k) \subseteq AnyState
<1>0. k \in {"edge", "worker", "email", "annotation", "autolearn"}
  BY DEF Maps
<1>1. NoState \notin StatesOf(k) /\ StatesOf(k) \subseteq AnyState
  BY NoStateAssumption DEF StatesOf, AnyState
<1>2. CASE k = "edge"
  <2>1. Maps[k] = EdgePath /\ StatesOf(k) = RecordingStates /\ First[k] = "IDLE"
        /\ Ended[k] = {"INDEXED", "TRANSCRIPTION_FAILED"}
    BY <1>2 DEF Maps, StatesOf, Recordings, First, Ended
  <2> QED  BY <2>1, <1>1 DEF EdgePath, RecordingStates
<1>3. CASE k = "worker"
  <2>1. Maps[k] = WorkerPath /\ StatesOf(k) = RecordingStates /\ First[k] = "IDLE"
        /\ Ended[k] = {"INDEXED", "TRANSCRIPTION_FAILED"}
    BY <1>3 DEF Maps, StatesOf, Recordings, First, Ended
  <2> QED  BY <2>1, <1>1 DEF EdgePath, WorkerPath, RecordingStates
<1>4. CASE k = "email"
  <2>1. Maps[k] = EmailPath /\ StatesOf(k) = EmailStates /\ First[k] = "IMAP_RECEIVED"
        /\ Ended[k] = {"INDEXED"}
    BY <1>4 DEF Maps, StatesOf, Recordings, First, Ended
  <2> QED  BY <2>1, <1>1 DEF EmailPath, EmailStates
<1>5. CASE k = "annotation"
  <2>1. Maps[k] = AnnotationPath /\ StatesOf(k) = AnnotationStates /\ First[k] = "ANNOTATION_OPEN"
        /\ Ended[k] = {"DISMISSED", "AUTO_RESOLVED"}
    BY <1>5 DEF Maps, StatesOf, Recordings, First, Ended
  <2> QED  BY <2>1, <1>1 DEF AnnotationPath, AnnotationStates
<1>6. CASE k = "autolearn"
  <2>1. Maps[k] = AutolearnPath /\ StatesOf(k) = AutolearnStates /\ First[k] = "WORKER_STARTED"
        /\ Ended[k] = {"COMPLETE", "REJECTED", "FAILED"}
    BY <1>6 DEF Maps, StatesOf, Recordings, First, Ended
  <2> QED  BY <2>1, <1>1 DEF AutolearnPath, AutolearnStates
<1> QED  BY <1>0, <1>2, <1>3, <1>4, <1>5, <1>6

\* The steps, by what they do: the functions of one machine differ in name only.
LEMMA LifeCases ==
  ASSUME LifeInv, LifeNext
  PROVE  \E c \in LifeCalls :
           \/ Insert(c, "log") /\ machine # "autolearn"
           \/ Insert(c, "idle") /\ machine = "autolearn"
           \/ Check(c, Maps[machine])
           \/ WriteRow(c) \/ WriteLog(c) \/ ReadLastHash(c) \/ WriteAudit(c) \/ Cut(c)
<1>0. machine \in {"edge", "worker", "email", "annotation", "autolearn"}
  BY DEF LifeInv, LifeTypes, Maps
<1>1. PICK c \in LifeCalls :
        \/ InitRecordingState(c) \/ InitEmailState(c) \/ InitAnnotationState(c) \/ CreateAutolearnJob(c)
        \/ TransitionRecording(c) \/ TransitionEmail(c) \/ TransitionAnnotation(c) \/ AdvanceAutolearn(c)
        \/ WriteRow(c) \/ WriteLog(c) \/ ReadLastHash(c) \/ WriteAudit(c) \/ Cut(c)
  BY DEF LifeNext
<1>2. InitRecordingState(c) \/ InitEmailState(c) \/ InitAnnotationState(c)
        => Insert(c, "log") /\ machine # "autolearn"
  BY DEF InitRecordingState, InitEmailState, InitAnnotationState, Of, Recordings
<1>3. CreateAutolearnJob(c) => Insert(c, "idle") /\ machine = "autolearn"
  BY DEF CreateAutolearnJob, Of
<1>4. /\ machine = "edge" => Maps[machine] = EdgePath
      /\ machine = "worker" => Maps[machine] = WorkerPath
      /\ machine = "email" => Maps[machine] = EmailPath
      /\ machine = "annotation" => Maps[machine] = AnnotationPath
      /\ machine = "autolearn" => Maps[machine] = AutolearnPath
  BY DEF Maps
<1>5. TransitionRecording(c) => Check(c, Maps[machine])
  BY <1>4 DEF TransitionRecording, Of, Recordings
<1>6. TransitionEmail(c) \/ TransitionAnnotation(c) \/ AdvanceAutolearn(c) => Check(c, Maps[machine])
  BY <1>4 DEF TransitionEmail, TransitionAnnotation, AdvanceAutolearn, Of
<1> QED  BY <1>1, <1>2, <1>3, <1>5, <1>6

\* A caller that begins, or that goes on, changes the set of those under way by itself alone.
LEMMA BusyBegins ==
  ASSUME LifeTypes, NEW c \in LifeCalls, NEW m \in MoverRecord,
         mover[c].at = "idle", mover' = [mover EXCEPT ![c] = m]
  PROVE  IsFiniteSet(Busy') /\ Cardinality(Busy') <= Cardinality(Busy) + 1
<1>1. Busy' \subseteq Busy \cup {c}
  BY DEF Busy, LifeTypes
<1>2. IsFiniteSet(Busy) /\ c \notin Busy
  BY DEF Busy, LifeTypes
<1>3. IsFiniteSet(Busy \cup {c}) /\ Cardinality(Busy \cup {c}) = Cardinality(Busy) + 1
  BY <1>2, FS_AddElement
<1> QED  BY <1>1, <1>3, FS_Subset

LEMMA BusyGoesOn ==
  ASSUME LifeTypes, NEW c \in LifeCalls, NEW m \in MoverRecord,
         mover[c].at # "idle", mover' = [mover EXCEPT ![c] = m]
  PROVE  /\ IsFiniteSet(Busy') /\ Cardinality(Busy') <= Cardinality(Busy)
         /\ m.at = "idle" => Cardinality(Busy') = Cardinality(Busy) - 1
<1>1. /\ m.at = "idle" => Busy' = Busy \ {c}
      /\ m.at # "idle" => Busy' = Busy
      /\ c \in Busy /\ IsFiniteSet(Busy)
  BY DEF Busy, LifeTypes
<1>2. IsFiniteSet(Busy \ {c}) /\ Cardinality(Busy \ {c}) = Cardinality(Busy) - 1
  BY <1>1, FS_RemoveElement
<1>3. Cardinality(Busy) \in Nat
  BY <1>1, FS_CardinalityType
<1>4. CASE m.at = "idle"
  <2>1. Busy' = Busy \ {c}
    BY <1>1, <1>4
  <2>2. IsFiniteSet(Busy') /\ Cardinality(Busy') = Cardinality(Busy) - 1
    BY <1>2, <2>1
  <2>3. Cardinality(Busy') <= Cardinality(Busy)
    BY <1>3, <2>2
  <2> QED  BY <2>2, <2>3
<1>5. CASE m.at # "idle"
  <2>1. Busy' = Busy
    BY <1>1, <1>5
  <2> QED  BY <1>1, <1>3, <1>5, <2>1
<1> QED  BY <1>4, <1>5

-----------------------------------------------------------------------------
\* The breaks of a log: those of the item's are with its row; a row that continues a log adds
\* none; and another state to go on to adds one at most.
LEMMA BreaksAre ==
  ASSUME NEW S, NEW l \in Seq(S \X S), NEW f \in S, NEW t \in S
  PROVE  /\ IsFiniteSet(BreaksOf(l, f)) /\ Cardinality(BreaksOf(l, f)) \in Nat
         /\ BreaksOf(Append(l, <<f, t>>), t) = BreaksOf(l, f)
         /\ Cardinality(BreaksOf(l, t)) <= Cardinality(BreaksOf(l, f)) + 1
<1>1. IsFiniteSet(1..Len(l) + 1)
  BY FS_Interval
<1>2. /\ BreaksOf(l, f) \subseteq 1..Len(l) + 1 /\ BreaksOf(l, t) \subseteq 1..Len(l) + 1
      /\ BreaksOf(l, t) \subseteq BreaksOf(l, f) \cup {Len(l) + 1}
  BY DEF BreaksOf
<1>3. IsFiniteSet(BreaksOf(l, f)) /\ Cardinality(BreaksOf(l, f)) \in Nat
  BY <1>1, <1>2, FS_Subset, FS_CardinalityType
<1>4. BreaksOf(Append(l, <<f, t>>), t) = BreaksOf(l, f)
  <2> DEFINE m == Append(l, <<f, t>>)
  <2>1. Len(m) = Len(l) + 1 /\ Len(l) \in Nat /\ m[Len(l) + 1] = <<f, t>>
        /\ \A i \in 1..Len(l) : m[i] = l[i]
    OBVIOUS
  <2> HIDE DEF m
  <2>2. ASSUME NEW i \in 1..Len(l) + 1
        PROVE  i \in BreaksOf(m, t) <=> i \in BreaksOf(l, f)
    <3>1. i # Len(m) + 1 /\ i \in 1..Len(m) + 1
      BY <2>1
    <3>2. i # 1 => m[i - 1] = l[i - 1]
      BY <2>1
    <3>3. i = Len(l) + 1 => m[i][1] = f
      BY <2>1
    <3>4. i # Len(l) + 1 => m[i] = l[i]
      BY <2>1
    <3> QED  BY <3>1, <3>2, <3>3, <3>4 DEF BreaksOf
  <2>3. Len(l) + 2 \notin BreaksOf(m, t)
    <3>1. m[Len(l) + 2 - 1][2] = t /\ Len(l) + 2 # 1 /\ Len(l) + 2 = Len(m) + 1
      BY <2>1
    <3> QED  BY <3>1 DEF BreaksOf
  <2>4. BreaksOf(m, t) \subseteq 1..Len(l) + 2
    BY <2>1 DEF BreaksOf
  <2>5. BreaksOf(l, f) \subseteq 1..Len(l) + 1
    BY <1>2
  <2>6. \A i : i \in BreaksOf(m, t) <=> i \in BreaksOf(l, f)
    BY <2>1, <2>2, <2>3, <2>4, <2>5
  <2>7. BreaksOf(m, t) = BreaksOf(l, f)
    BY <2>6
  <2> QED  BY <2>7 DEF m
<1>5. Cardinality(BreaksOf(l, t)) <= Cardinality(BreaksOf(l, f)) + 1
  <2>1. /\ IsFiniteSet(BreaksOf(l, f) \cup {Len(l) + 1})
        /\ Cardinality(BreaksOf(l, f) \cup {Len(l) + 1}) <= Cardinality(BreaksOf(l, f)) + 1
    <3> DEFINE B == BreaksOf(l, f)
               last == Len(l) + 1
    <3>1. IsFiniteSet(B) /\ Cardinality(B) \in Nat
      BY <1>3
    <3> HIDE DEF B, last
    <3>2. /\ IsFiniteSet(B \cup {last})
          /\ Cardinality(B \cup {last}) = IF last \in B THEN Cardinality(B) ELSE Cardinality(B) + 1
      BY <3>1, FS_AddElement
    <3>3. Cardinality(B \cup {last}) <= Cardinality(B) + 1
      BY <3>1, <3>2
    <3> QED  BY <3>2, <3>3 DEF B, last
  <2>2. Cardinality(BreaksOf(l, t)) <= Cardinality(BreaksOf(l, f) \cup {Len(l) + 1})
    BY <2>1, <1>2, FS_Subset
  <2>3. Cardinality(BreaksOf(l, t)) \in Nat /\ Cardinality(BreaksOf(l, f) \cup {Len(l) + 1}) \in Nat
    BY <1>1, <1>2, <2>1, FS_Subset, FS_CardinalityType
  <2> QED  BY <1>3, <2>1, <2>2, <2>3
<1> QED  BY <1>3, <1>4, <1>5

-----------------------------------------------------------------------------
\* An item that is not there has neither row nor log.
LEMMA LifeStarts == LifeInit => LifeInv
<1> SUFFICES ASSUME LifeInit PROVE LifeInv  OBVIOUS
<1> USE DEF LifeInit
<1>1. Busy = {} /\ IsFiniteSet(Busy) /\ Cardinality(Busy) = 0
  BY FS_EmptySet DEF Busy, Waiting
<1>2. Waiting \in MoverRecord
  BY DEF Waiting, MoverRecord, AnyState
<1>3. LifeTypes
  <2>1. cuts + Cardinality(Busy) <= started /\ started \in 0..MaxMoves /\ cuts \in Nat
    BY <1>1, LifeAssumption
  <2>2. ledger \in Seq(AnyState \X AnyState) /\ moves \in Seq(AnyState \X AnyState) /\ chain \in Seq(Nat)
    OBVIOUS
  <2>3. mover \in [LifeCalls -> MoverRecord]
    BY <1>2
  <2> QED  BY <1>1, <2>1, <2>2, <2>3 DEF LifeTypes
<1>4. BreaksOf(ledger, row) = {}
  BY DEF BreaksOf
<1>5. Cardinality(BreaksOf(ledger, row)) = 0
  BY <1>4, FS_EmptySet
<1>6. Alone
  BY <1>5 DEF Alone, Waiting
<1>7. Told
  <2>1. Untold = {} /\ \A m : Telling(m) = {}
    BY DEF Untold, Telling, Waiting
  <2>2. \A m : Times(ledger, m) = 0 /\ Times(moves, m) = 0
    <3>1. \A m : {i \in DOMAIN ledger : ledger[i] = m} = {} /\ {i \in DOMAIN moves : moves[i] = m} = {}
      OBVIOUS
    <3> QED  BY <3>1, FS_EmptySet DEF Times
  <2>3. Cardinality({}) = 0 /\ Len(moves) = 0 /\ Len(ledger) = 0 /\ cuts = 0
    BY FS_EmptySet
  <2>4. \A m : Cardinality(Telling(m)) = 0
    BY <2>1, <2>3
  <2>5. Cardinality(Untold) = 0
    BY <2>1, <2>3
  <2> QED  BY <2>2, <2>3, <2>4, <2>5 DEF Told
<1> QED  BY <1>3, <1>6, <1>7 DEF LifeInv, CallerAt, LegalRows, Waiting

LEMMA LifeTypeStep == ASSUME LifeInv, LifeNext PROVE LifeTypes'
<1>0. LifeTypes /\ (\A c \in LifeCalls : CallerAt(c)) /\ Cardinality(Busy) \in Nat
  BY FS_CardinalityType DEF LifeInv, LifeTypes
<1> USE DEF LifeTypes
<1>m. /\ First[machine] \in StatesOf(machine) /\ StatesOf(machine) \subseteq AnyState
      /\ \A s \in StatesOf(machine) : Maps[machine][s] \subseteq StatesOf(machine)
      /\ NoState \notin StatesOf(machine) /\ NoState \in AnyState
  BY <1>0, TheMaps DEF AnyState
<1>1. PICK c \in LifeCalls :
           \/ Insert(c, "log") /\ machine # "autolearn"
           \/ Insert(c, "idle") /\ machine = "autolearn"
           \/ Check(c, Maps[machine])
           \/ WriteRow(c) \/ WriteLog(c) \/ ReadLastHash(c) \/ WriteAudit(c) \/ Cut(c)
  BY LifeCases
<1>c. CallerAt(c) /\ mover[c] \in MoverRecord
  BY <1>0
<1>2. ASSUME NEW a \in {"log", "idle"}, Insert(c, a) PROVE LifeTypes'
  <2> DEFINE m == [at |-> a, from |-> NoState, to |-> First[machine]]
  <2>1. m \in MoverRecord
    BY <1>m DEF MoverRecord
  <2>2. IsFiniteSet(Busy') /\ Cardinality(Busy') <= Cardinality(Busy) + 1
    BY <1>0, <1>2, <2>1, BusyBegins DEF Insert, StartMove
  <2>3. Cardinality(Busy') \in Nat /\ started + 1 \in 0..MaxMoves /\ started' = started + 1
    BY <1>0, <1>2, <2>2, FS_CardinalityType, LifeAssumption DEF Insert, StartMove
  <2>4. mover' \in [LifeCalls -> MoverRecord]
    BY <1>0, <1>2, <2>1 DEF Insert
  <2>5. machine' = machine /\ row' \in StatesOf(machine) /\ cuts' = cuts /\ ledger' = ledger /\ chain' = chain
        /\ overlapped' \in BOOLEAN
    BY <1>2, <1>m DEF Insert, StartMove
  <2>6. cuts' + Cardinality(Busy') <= started'
    BY <1>0, <2>2, <2>3, <2>5
  <2>7. moves' \in Seq(AnyState \X AnyState)
    BY <1>0, <1>2, <1>m DEF Insert
  <2> QED  BY <1>0, <2>2, <2>3, <2>4, <2>5, <2>6, <2>7
<1>3. ASSUME Check(c, Maps[machine]) PROVE LifeTypes'
  <2>0. PICK to \in Maps[machine][row] :
          mover' = [mover EXCEPT ![c] = [at |-> "write", from |-> row, to |-> to]]
    BY <1>3 DEF Check
  <2> DEFINE m == [at |-> "write", from |-> row, to |-> to]
  <2>1. m \in MoverRecord
    BY <1>0, <1>3, <1>m DEF MoverRecord, Check
  <2>2. IsFiniteSet(Busy') /\ Cardinality(Busy') <= Cardinality(Busy) + 1
    BY <1>0, <1>3, <2>0, <2>1, BusyBegins DEF Check, StartMove
  <2>3. Cardinality(Busy') \in Nat /\ started + 1 \in 0..MaxMoves /\ started' = started + 1
    BY <1>0, <1>3, <2>2, FS_CardinalityType, LifeAssumption DEF Check, StartMove
  <2>4. mover' \in [LifeCalls -> MoverRecord]
    BY <1>0, <2>0, <2>1
  <2>5. machine' = machine /\ row' = row /\ cuts' = cuts /\ ledger' = ledger /\ chain' = chain
        /\ overlapped' \in BOOLEAN /\ moves' = moves
    BY <1>3 DEF Check, StartMove
  <2>6. cuts' + Cardinality(Busy') <= started'
    BY <1>0, <2>2, <2>3, <2>5
  <2> QED  BY <1>0, <2>2, <2>3, <2>4, <2>5, <2>6
<1>4. ASSUME WriteRow(c) \/ WriteLog(c) \/ ReadLastHash(c) \/ WriteAudit(c)
      PROVE  LifeTypes'
  <2>1. PICK m \in MoverRecord : mover[c].at # "idle" /\ mover' = [mover EXCEPT ![c] = m]
    <3>1. WriteRow(c) => \E m \in MoverRecord : mover[c].at # "idle" /\ mover' = [mover EXCEPT ![c] = m]
      <4>1. [mover[c] EXCEPT !.at = IF Of({"autolearn"}) THEN "idle" ELSE "log"] \in MoverRecord
        BY <1>c DEF MoverRecord
      <4> QED  BY <1>0, <4>1 DEF WriteRow
    <3>2. WriteLog(c) => \E m \in MoverRecord : mover[c].at # "idle" /\ mover' = [mover EXCEPT ![c] = m]
      <4>1. [mover[c] EXCEPT !.at = IF Of({"annotation"}) THEN "hash" ELSE "idle"] \in MoverRecord
        BY <1>c DEF MoverRecord
      <4> QED  BY <1>0, <4>1 DEF WriteLog
    <3>3. ReadLastHash(c) => \E m \in MoverRecord : mover[c].at # "idle" /\ mover' = [mover EXCEPT ![c] = m]
      <4> DEFINE m == [at |-> "audit", from |-> Len(chain), to |-> mover[c].to]
      <4>1. Len(chain) \in Nat
        BY <1>0
      <4>2. m \in MoverRecord
        BY <1>c, <4>1 DEF MoverRecord
      <4>3. ReadLastHash(c) => mover' = [mover EXCEPT ![c] = m]
        BY <1>0, <1>c DEF ReadLastHash, MoverRecord
      <4> QED  BY <4>2, <4>3 DEF ReadLastHash
    <3>4. WriteAudit(c) => \E m \in MoverRecord : mover[c].at # "idle" /\ mover' = [mover EXCEPT ![c] = m]
      <4>1. Waiting \in MoverRecord
        BY DEF MoverRecord, Waiting, AnyState
      <4> QED  BY <1>0, <4>1 DEF WriteAudit
    <3> QED  BY <1>4, <3>1, <3>2, <3>3, <3>4
  <2>2. IsFiniteSet(Busy') /\ Cardinality(Busy') <= Cardinality(Busy) /\ mover' \in [LifeCalls -> MoverRecord]
    BY <1>0, <2>1, BusyGoesOn
  <2>3. Cardinality(Busy') \in Nat
    BY <2>2, FS_CardinalityType
  <2>4. machine' = machine /\ cuts' = cuts /\ started' = started /\ overlapped' = overlapped
    BY <1>4 DEF WriteRow, WriteLog, ReadLastHash, WriteAudit
  <2>5. row' \in {NoState} \cup StatesOf(machine)
    BY <1>0, <1>4, <1>c, <1>m DEF WriteRow, WriteLog, ReadLastHash, WriteAudit, CallerAt, LegalMove
  <2>6. ledger' \in Seq(AnyState \X AnyState)
    <3>1. CASE ledger' = ledger  BY <1>0, <3>1
    <3>2. CASE WriteLog(c)
      <4>1. mover[c].from \in AnyState /\ mover[c].to \in AnyState
        BY <1>c, <1>m, <3>2 DEF WriteLog, CallerAt, LegalMove, MoverRecord
      <4> QED  BY <1>0, <3>2, <4>1 DEF WriteLog, Logged, MoveOf
    <3> QED  BY <1>4, <3>1, <3>2 DEF WriteRow, ReadLastHash, WriteAudit
  <2>7. chain' \in Seq(Nat)
    <3>1. CASE chain' = chain
      BY <1>0, <3>1
    <3>2. CASE WriteAudit(c)
      <4>1. chain' = Append(chain, mover[c].from) /\ mover[c].from \in Nat
        BY <1>c, <3>2 DEF WriteAudit, CallerAt
      <4> QED  BY <1>0, <4>1
    <3> QED  BY <1>4, <3>1, <3>2 DEF WriteRow, WriteLog, ReadLastHash
  <2>8. cuts' + Cardinality(Busy') <= started'
    BY <1>0, <2>2, <2>3, <2>4
  <2>9. moves' \in Seq(AnyState \X AnyState)
    <3>1. CASE moves' = moves  BY <1>0, <3>1
    <3>2. CASE WriteRow(c)
      <4>1. mover[c].from \in AnyState /\ mover[c].to \in AnyState
        BY <1>c, <1>m, <3>2 DEF WriteRow, CallerAt, LegalMove, MoverRecord
      <4> QED  BY <1>0, <3>2, <4>1 DEF WriteRow, MoveOf
    <3> QED  BY <1>4, <3>1, <3>2 DEF WriteLog, ReadLastHash, WriteAudit
  <2> QED  BY <1>0, <2>2, <2>4, <2>5, <2>6, <2>7, <2>8, <2>9
<1>5. ASSUME Cut(c) PROVE LifeTypes'
  <2>1. Waiting \in MoverRecord /\ Waiting.at = "idle"
    BY DEF MoverRecord, Waiting, AnyState
  <2>2. /\ IsFiniteSet(Busy') /\ Cardinality(Busy') = Cardinality(Busy) - 1
        /\ mover' \in [LifeCalls -> MoverRecord]
    BY <1>0, <1>5, <2>1, BusyGoesOn DEF Cut
  <2>3. /\ machine' = machine /\ started' = started /\ overlapped' = overlapped
        /\ row' = row /\ ledger' = ledger /\ chain' = chain /\ moves' = moves
        /\ cuts' \in {cuts, cuts + 1}
    BY <1>0, <1>5 DEF Cut
  <2>4. cuts' \in Nat /\ cuts' + Cardinality(Busy') <= started'
    BY <1>0, <2>2, <2>3
  <2> QED  BY <1>0, <2>2, <2>3, <2>4
<1> QED  BY <1>1, <1>2, <1>3, <1>4, <1>5

\* What a caller is going to write stays a legal move, since the machine of an item does; and
\* what it logs is one.
LEMMA LegalStep == ASSUME LifeInv, LifeNext PROVE (\A c \in LifeCalls : CallerAt(c))' /\ LegalRows'
<1>0. LifeTypes /\ (\A c \in LifeCalls : CallerAt(c)) /\ LegalRows
  BY DEF LifeInv
<1>m. NoState \notin StatesOf(machine) /\ DOMAIN Maps[machine] = StatesOf(machine)
  BY <1>0, TheMaps DEF LifeTypes
<1>1. PICK c \in LifeCalls :
           \/ Insert(c, "log") /\ machine # "autolearn"
           \/ Insert(c, "idle") /\ machine = "autolearn"
           \/ Check(c, Maps[machine])
           \/ WriteRow(c) \/ WriteLog(c) \/ ReadLastHash(c) \/ WriteAudit(c) \/ Cut(c)
  BY LifeCases
<1>2. machine' = machine
  BY <1>1 DEF Insert, Check, WriteRow, WriteLog, ReadLastHash, WriteAudit, Cut
<1>3. \A d \in LifeCalls : d # c => mover'[d] = mover[d]
  BY <1>0, <1>1 DEF LifeTypes, Insert, Check, WriteRow, WriteLog, ReadLastHash, WriteAudit, Cut
<1>4. CallerAt(c)'
  <2>0. mover[c] \in MoverRecord /\ CallerAt(c)
    BY <1>0 DEF LifeTypes
  <2>1. CASE Insert(c, "log") /\ machine # "autolearn"
    <3>1. mover'[c] = [at |-> "log", from |-> NoState, to |-> First[machine]]
      BY <1>0, <2>1 DEF Insert, LifeTypes
    <3> QED  BY <1>2, <2>1, <3>1 DEF CallerAt, LegalMove
  <2>2. CASE Insert(c, "idle")
    <3>1. mover'[c] = [at |-> "idle", from |-> NoState, to |-> First[machine]]
      BY <1>0, <2>2 DEF Insert, LifeTypes
    <3> QED  BY <3>1 DEF CallerAt
  <2>3. CASE Check(c, Maps[machine])
    <3>1. PICK to \in Maps[machine][row] : mover'[c] = [at |-> "write", from |-> row, to |-> to]
      BY <1>0, <2>3 DEF Check, LifeTypes
    <3>2. row # NoState /\ row \in StatesOf(machine)
      BY <1>0, <2>3 DEF Check, LifeTypes
    <3> QED  BY <1>2, <3>1, <3>2 DEF CallerAt, LegalMove
  <2>4. CASE WriteRow(c)
    <3>1. mover'[c] = [mover[c] EXCEPT !.at = IF Of({"autolearn"}) THEN "idle" ELSE "log"]
      BY <1>0, <2>4 DEF WriteRow, LifeTypes
    <3>2. mover'[c].from = mover[c].from /\ mover'[c].to = mover[c].to
          /\ mover'[c].at = IF machine = "autolearn" THEN "idle" ELSE "log"
      BY <2>0, <3>1 DEF Of, MoverRecord
    <3> QED  BY <1>2, <2>0, <2>4, <3>2 DEF CallerAt, LegalMove, WriteRow
  <2>5. CASE WriteLog(c)
    <3>1. mover'[c].at \in {"hash", "idle"}
      BY <1>0, <2>0, <2>5 DEF WriteLog, LifeTypes, MoverRecord
    <3> QED  BY <3>1 DEF CallerAt
  <2>6. CASE ReadLastHash(c)
    <3>1. mover'[c].at = "audit" /\ mover'[c].from = Len(chain)
      BY <1>0, <2>0, <2>6 DEF ReadLastHash, LifeTypes, MoverRecord
    <3> QED  BY <1>0, <3>1 DEF CallerAt, LifeTypes
  <2>7. CASE WriteAudit(c) \/ Cut(c)
    <3>1. mover'[c] = Waiting
      BY <1>0, <2>7 DEF WriteAudit, Cut, LifeTypes
    <3> QED  BY <3>1 DEF CallerAt, Waiting
  <2> QED  BY <1>1, <2>1, <2>2, <2>3, <2>4, <2>5, <2>6, <2>7
<1>5. (\A d \in LifeCalls : CallerAt(d))'
  BY <1>0, <1>2, <1>3, <1>4 DEF CallerAt, LegalMove
<1>6. LegalRows'
  <2>1. CASE ledger' = ledger
    BY <1>0, <1>2, <2>1 DEF LegalRows, LegalMove
  <2>2. CASE WriteLog(c)
    <3>1. ledger' = Append(ledger, <<mover[c].from, mover[c].to>>) /\ LegalMove(mover[c].from, mover[c].to)
      BY <1>0, <2>2 DEF WriteLog, Logged, MoveOf, CallerAt
    <3>2. ASSUME NEW i \in DOMAIN ledger'
          PROVE  LegalMove(ledger'[i][1], ledger'[i][2])
      <4>1. CASE i \in DOMAIN ledger
        <5>1. ledger'[i] = ledger[i]
          BY <1>0, <3>1, <4>1 DEF LifeTypes
        <5> QED  BY <1>0, <4>1, <5>1 DEF LegalRows
      <4>2. CASE i = Len(ledger) + 1
        <5>1. ledger'[i] = <<mover[c].from, mover[c].to>>
          BY <1>0, <3>1, <4>2 DEF LifeTypes
        <5> QED  BY <3>1, <5>1
      <4> QED  BY <1>0, <3>1, <3>2, <4>1, <4>2 DEF LifeTypes
    <3> QED  BY <1>2, <3>2 DEF LegalRows, LegalMove
  <2> QED  BY <1>1, <2>1, <2>2 DEF Insert, Check, WriteRow, ReadLastHash, WriteAudit, Cut
<1> QED  BY <1>5, <1>6

-----------------------------------------------------------------------------
\* A row that is appended counts for its own move.
LEMMA TimesOf ==
  ASSUME NEW S, NEW s \in Seq(S), NEW x \in S, NEW m
  PROVE  /\ Times(s, m) \in Nat /\ Times(Append(s, x), m) = Times(s, m) + (IF x = m THEN 1 ELSE 0)
         /\ Len(s) \in Nat /\ Len(Append(s, x)) = Len(s) + 1
<1> DEFINE A == {i \in DOMAIN s : s[i] = m}
           B == {i \in DOMAIN Append(s, x) : Append(s, x)[i] = m}
           n == Len(s) + 1
<1>1. /\ Len(s) \in Nat /\ DOMAIN s = 1..Len(s) /\ DOMAIN Append(s, x) = 1..n /\ Append(s, x)[n] = x
      /\ \A i \in 1..Len(s) : Append(s, x)[i] = s[i]
  OBVIOUS
<1>2. IsFiniteSet(1..Len(s)) /\ A \subseteq 1..Len(s) /\ n \notin A
  BY <1>1, FS_Interval
<1>3. IsFiniteSet(A) /\ Cardinality(A) \in Nat
  BY <1>2, FS_Subset, FS_CardinalityType
<1>4. B = IF x = m THEN A \cup {n} ELSE A
  BY <1>1
<1>5. Cardinality(B) = Cardinality(A) + (IF x = m THEN 1 ELSE 0)
  <2> HIDE DEF A, B, n
  <2>1. Cardinality(A \cup {n}) = Cardinality(A) + 1
    BY <1>2, <1>3, FS_AddElement
  <2> QED  BY <1>3, <1>4, <2>1
<1>6. Len(Append(s, x)) = Len(s) + 1
  OBVIOUS
<1> QED  BY <1>1, <1>3, <1>5, <1>6 DEF Times

\* The calls that have yet to log, before a step of one of them and after it.
LEMMA UntoldSteps ==
  ASSUME LifeTypes, NEW c \in LifeCalls, \A d \in LifeCalls : d # c => mover'[d] = mover[d]
  PROVE  /\ Cardinality(Untold) \in Nat /\ \A m : Cardinality(Telling(m)) \in Nat
         /\ mover[c].at # "log" /\ mover'[c].at # "log" =>
              Untold' = Untold /\ \A m : Telling(m)' = Telling(m)
         /\ mover[c].at # "log" /\ mover'[c].at = "log" =>
              /\ Cardinality(Untold') = Cardinality(Untold) + 1
              /\ \A m : Cardinality(Telling(m)') = Cardinality(Telling(m)) + (IF MoveOf(c)' = m THEN 1 ELSE 0)
         /\ mover[c].at = "log" /\ mover'[c].at # "log" =>
              /\ Cardinality(Untold') = Cardinality(Untold) - 1
              /\ \A m : Cardinality(Telling(m)') = Cardinality(Telling(m)) - (IF MoveOf(c) = m THEN 1 ELSE 0)
<1>1. Untold \subseteq Busy /\ \A m : Telling(m) \subseteq Busy
  BY DEF Untold, Telling, Busy
<1>2. IsFiniteSet(Untold) /\ Cardinality(Untold) \in Nat
      /\ \A m : IsFiniteSet(Telling(m)) /\ Cardinality(Telling(m)) \in Nat
  BY <1>1, FS_Subset, FS_CardinalityType DEF LifeTypes
<1>3. ASSUME mover[c].at # "log", mover'[c].at # "log"
      PROVE  Untold' = Untold /\ \A m : Telling(m)' = Telling(m)
  <2>1. \A d \in LifeCalls : d \in Untold' <=> d \in Untold
    BY <1>3 DEF Untold
  <2>2. Untold' = Untold /\ c \notin Untold
    BY <1>3, <2>1 DEF Untold
  <2>3. \A d \in Untold : MoveOf(d)' = MoveOf(d)
    BY <2>2 DEF MoveOf, Untold
  <2> QED  BY <2>2, <2>3 DEF Telling
<1>4. ASSUME mover[c].at # "log", mover'[c].at = "log"
      PROVE  /\ Cardinality(Untold') = Cardinality(Untold) + 1
             /\ \A m : Cardinality(Telling(m)') = Cardinality(Telling(m)) + (IF MoveOf(c)' = m THEN 1 ELSE 0)
  <2>1. Untold' = Untold \cup {c} /\ c \notin Untold
    BY <1>4 DEF Untold
  <2>2. \A d \in Untold : MoveOf(d)' = MoveOf(d)
    BY <2>1 DEF MoveOf, Untold
  <2>3. ASSUME NEW m PROVE Cardinality(Telling(m)') = Cardinality(Telling(m)) + (IF MoveOf(c)' = m THEN 1 ELSE 0)
    <3>1. Telling(m)' = (IF MoveOf(c)' = m THEN Telling(m) \cup {c} ELSE Telling(m)) /\ c \notin Telling(m)
      BY <2>1, <2>2 DEF Telling
    <3>2. Cardinality(Telling(m) \cup {c}) = Cardinality(Telling(m)) + 1
      BY <1>2, <3>1, FS_AddElement
    <3> QED  BY <1>2, <3>1, <3>2
  <2>4. Cardinality(Untold \cup {c}) = Cardinality(Untold) + 1
    BY <1>2, <2>1, FS_AddElement
  <2> QED  BY <2>1, <2>3, <2>4
<1>5. ASSUME mover[c].at = "log", mover'[c].at # "log"
      PROVE  /\ Cardinality(Untold') = Cardinality(Untold) - 1
             /\ \A m : Cardinality(Telling(m)') = Cardinality(Telling(m)) - (IF MoveOf(c) = m THEN 1 ELSE 0)
  <2>1. Untold' = Untold \ {c} /\ c \in Untold
    BY <1>5 DEF Untold
  <2>2. \A d \in Untold \ {c} : MoveOf(d)' = MoveOf(d)
    BY <2>1 DEF MoveOf, Untold
  <2>3. ASSUME NEW m PROVE Cardinality(Telling(m)') = Cardinality(Telling(m)) - (IF MoveOf(c) = m THEN 1 ELSE 0)
    <3>1. Telling(m)' = Telling(m) \ {c} /\ (c \in Telling(m) <=> MoveOf(c) = m)
      BY <2>1, <2>2 DEF Telling
    <3>2. CASE MoveOf(c) = m
      <4>1. Cardinality(Telling(m) \ {c}) = Cardinality(Telling(m)) - 1
        BY <1>2, <3>1, <3>2, FS_RemoveElement
      <4> QED  BY <3>1, <3>2, <4>1
    <3>3. CASE MoveOf(c) # m
      <4>1. Telling(m)' = Telling(m)
        BY <3>1, <3>3
      <4> QED  BY <1>2, <3>3, <4>1
    <3> QED  BY <3>2, <3>3
  <2>4. Cardinality(Untold \ {c}) = Cardinality(Untold) - 1
    BY <1>2, <2>1, FS_RemoveElement
  <2> QED  BY <2>1, <2>3, <2>4
<1> QED  BY <1>2, <1>3, <1>4, <1>5

\* A move that is written is owed to the log until it is told there or its call is cut.
LEMMA ToldStep == ASSUME LifeInv, LifeNext PROVE Told'
<1>0. LifeTypes /\ Told /\ \A c \in LifeCalls : CallerAt(c)
  BY DEF LifeInv
<1>m. NoState \notin StatesOf(machine) /\ StatesOf(machine) \subseteq AnyState /\ First[machine] \in StatesOf(machine)
      /\ \A s \in StatesOf(machine) : Maps[machine][s] \subseteq StatesOf(machine)
      /\ NoState \in AnyState
  BY <1>0, TheMaps DEF LifeTypes, AnyState
<1>1. PICK c \in LifeCalls :
           \/ Insert(c, "log") /\ machine # "autolearn"
           \/ Insert(c, "idle") /\ machine = "autolearn"
           \/ Check(c, Maps[machine])
           \/ WriteRow(c) \/ WriteLog(c) \/ ReadLastHash(c) \/ WriteAudit(c) \/ Cut(c)
  BY LifeCases
<1>2. machine' = machine
  BY <1>1 DEF Insert, Check, WriteRow, WriteLog, ReadLastHash, WriteAudit, Cut
<1>3. \A d \in LifeCalls : d # c => mover'[d] = mover[d]
  BY <1>0, <1>1 DEF LifeTypes, Insert, Check, WriteRow, WriteLog, ReadLastHash, WriteAudit, Cut
<1>t. /\ mover[c] \in MoverRecord /\ CallerAt(c) /\ cuts \in Nat
      /\ ledger \in Seq(AnyState \X AnyState) /\ moves \in Seq(AnyState \X AnyState)
  BY <1>0 DEF LifeTypes
\* A move that is written and owed.
<1>4. ASSUME NEW x \in AnyState \X AnyState, moves' = Append(moves, x), ledger' = ledger, cuts' = cuts,
             mover[c].at # "log", mover'[c].at = "log", MoveOf(c)' = x
      PROVE  Told'
  <2>1. /\ Cardinality(Untold') = Cardinality(Untold) + 1 /\ Cardinality(Untold) \in Nat
        /\ \A m : /\ Cardinality(Telling(m)) \in Nat
                  /\ Cardinality(Telling(m)') = Cardinality(Telling(m)) + (IF x = m THEN 1 ELSE 0)
    BY <1>0, <1>3, <1>4, UntoldSteps
  <2>2. Len(moves') = Len(moves) + 1 /\ Len(moves) \in Nat /\ Len(ledger) \in Nat
    BY <1>t, <1>4
  <2>3. ASSUME NEW m \in AnyState \X AnyState
        PROVE  Times(ledger', m) + Cardinality(Telling(m)') <= Times(moves', m)
    <3>1. Times(moves', m) = Times(moves, m) + (IF x = m THEN 1 ELSE 0) /\ Times(moves, m) \in Nat
      <4>1. moves' = Append(moves, x) /\ moves \in Seq(AnyState \X AnyState) /\ x \in AnyState \X AnyState
        BY <1>t, <1>4
      <4>2. Times(Append(moves, x), m) = Times(moves, m) + (IF x = m THEN 1 ELSE 0) /\ Times(moves, m) \in Nat
        BY <4>1, TimesOf
      <4> QED  BY <4>1, <4>2
    <3>2. Times(ledger', m) = Times(ledger, m) /\ Times(ledger, m) \in Nat
      <4>1. ledger' = ledger /\ ledger \in Seq(AnyState \X AnyState)
        BY <1>t, <1>4
      <4>2. Times(ledger, m) \in Nat
        BY <4>1, TimesOf
      <4> QED  BY <4>1, <4>2 DEF Times
    <3>3. Times(ledger, m) + Cardinality(Telling(m)) <= Times(moves, m)
      BY <1>0 DEF Told
    <3> QED  BY <2>1, <3>1, <3>2, <3>3
  <2>4. machine # "autolearn" => Len(moves') = Len(ledger') + Cardinality(Untold') + cuts'
    BY <1>0, <1>t, <1>4, <2>1, <2>2 DEF Told
  <2> QED  BY <1>2, <2>3, <2>4 DEF Told
\* A move of a job that keeps no log.
<1>5. ASSUME NEW x \in AnyState \X AnyState, moves' = Append(moves, x), ledger' = ledger,
             mover[c].at # "log", mover'[c].at # "log", machine = "autolearn"
      PROVE  Told'
  <2>1. \A m : Telling(m)' = Telling(m) /\ Cardinality(Telling(m)) \in Nat
    BY <1>0, <1>3, <1>5, UntoldSteps
  <2>2. ASSUME NEW m \in AnyState \X AnyState
        PROVE  Times(ledger', m) + Cardinality(Telling(m)') <= Times(moves', m)
    <3>1. Times(moves', m) = Times(moves, m) + (IF x = m THEN 1 ELSE 0) /\ Times(moves, m) \in Nat
      <4>1. moves' = Append(moves, x) /\ moves \in Seq(AnyState \X AnyState) /\ x \in AnyState \X AnyState
        BY <1>t, <1>5
      <4>2. Times(Append(moves, x), m) = Times(moves, m) + (IF x = m THEN 1 ELSE 0) /\ Times(moves, m) \in Nat
        BY <4>1, TimesOf
      <4> QED  BY <4>1, <4>2
    <3>2. Times(ledger', m) = Times(ledger, m) /\ Times(ledger, m) \in Nat
      <4>1. ledger' = ledger /\ ledger \in Seq(AnyState \X AnyState)
        BY <1>t, <1>5
      <4>2. Times(ledger, m) \in Nat
        BY <4>1, TimesOf
      <4> QED  BY <4>1, <4>2 DEF Times
    <3>3. Times(ledger, m) + Cardinality(Telling(m)) <= Times(moves, m)
      BY <1>0 DEF Told
    <3> QED  BY <2>1, <3>1, <3>2, <3>3
  <2> QED  BY <1>2, <1>5, <2>2 DEF Told
\* A move that is told.
<1>6. ASSUME WriteLog(c) PROVE Told'
  <2>i. MoveOf(c) \in AnyState \X AnyState
    BY <1>m, <1>t, <1>6 DEF WriteLog, CallerAt, LegalMove, MoverRecord, MoveOf
  <2>p. PICK x \in AnyState \X AnyState : x = MoveOf(c)
    BY <2>i
  <2>0. /\ mover[c].at = "log" /\ ledger' = Append(ledger, x) /\ moves' = moves /\ cuts' = cuts
        /\ mover'[c].at # "log"
    BY <1>0, <1>t, <1>6, <2>p DEF WriteLog, Logged, LifeTypes, MoverRecord
  <2>1. /\ Cardinality(Untold') = Cardinality(Untold) - 1 /\ Cardinality(Untold) \in Nat
        /\ \A m : /\ Cardinality(Telling(m)) \in Nat
                  /\ Cardinality(Telling(m)') = Cardinality(Telling(m)) - (IF x = m THEN 1 ELSE 0)
    BY <1>0, <1>3, <2>0, <2>p, UntoldSteps
  <2>2. Len(ledger') = Len(ledger) + 1 /\ Len(moves) \in Nat /\ Len(ledger) \in Nat
    BY <1>t, <2>0
  <2>3. ASSUME NEW m \in AnyState \X AnyState
        PROVE  Times(ledger', m) + Cardinality(Telling(m)') <= Times(moves', m)
    <3>1. Times(ledger', m) = Times(ledger, m) + (IF x = m THEN 1 ELSE 0) /\ Times(ledger, m) \in Nat
      <4>1. ledger' = Append(ledger, x) /\ ledger \in Seq(AnyState \X AnyState) /\ x \in AnyState \X AnyState
        BY <1>t, <2>0
      <4>2. Times(Append(ledger, x), m) = Times(ledger, m) + (IF x = m THEN 1 ELSE 0) /\ Times(ledger, m) \in Nat
        BY <4>1, TimesOf
      <4> QED  BY <4>1, <4>2
    <3>2. Times(moves', m) = Times(moves, m) /\ Times(moves, m) \in Nat
      <4>1. moves' = moves /\ moves \in Seq(AnyState \X AnyState)
        BY <1>t, <2>0
      <4>2. Times(moves, m) \in Nat
        BY <4>1, TimesOf
      <4> QED  BY <4>1, <4>2 DEF Times
    <3>3. Times(ledger, m) + Cardinality(Telling(m)) <= Times(moves, m)
      BY <1>0 DEF Told
    <3> QED  BY <2>1, <3>1, <3>2, <3>3
  <2>4. machine # "autolearn" => Len(moves') = Len(ledger') + Cardinality(Untold') + cuts'
    BY <1>0, <1>t, <2>0, <2>1, <2>2 DEF Told
  <2> QED  BY <1>2, <2>3, <2>4 DEF Told
\* A move whose call is cut before it is told.
<1>7. ASSUME Cut(c), mover[c].at = "log" PROVE Told'
  <2>0. mover'[c].at # "log" /\ ledger' = ledger /\ moves' = moves /\ cuts' = cuts + 1
    BY <1>0, <1>7 DEF Cut, LifeTypes, Waiting
  <2>1. /\ Cardinality(Untold') = Cardinality(Untold) - 1 /\ Cardinality(Untold) \in Nat
        /\ \A m : /\ Cardinality(Telling(m)) \in Nat
                  /\ Cardinality(Telling(m)') = Cardinality(Telling(m)) - (IF MoveOf(c) = m THEN 1 ELSE 0)
    BY <1>0, <1>3, <1>7, <2>0, UntoldSteps
  <2>2. Len(moves) \in Nat /\ Len(ledger) \in Nat
    BY <1>t
  <2>3. ASSUME NEW m \in AnyState \X AnyState
        PROVE  Times(ledger', m) + Cardinality(Telling(m)') <= Times(moves', m)
    <3>1. Times(ledger, m) \in Nat /\ Times(moves, m) \in Nat
      BY <1>t, TimesOf
    <3>2. Times(ledger, m) + Cardinality(Telling(m)) <= Times(moves, m)
      BY <1>0 DEF Told
    <3> QED  BY <2>0, <2>1, <3>1, <3>2
  <2>4. machine # "autolearn" => Len(moves') = Len(ledger') + Cardinality(Untold') + cuts'
    BY <1>0, <1>t, <2>0, <2>1, <2>2 DEF Told
  <2> QED  BY <1>2, <2>3, <2>4 DEF Told
\* The other steps write neither the row nor the log.
<1>8. ASSUME UNCHANGED <<ledger, moves, cuts>>, mover[c].at # "log", mover'[c].at # "log" PROVE Told'
  <2>1. Untold' = Untold /\ \A m : Telling(m)' = Telling(m)
    BY <1>0, <1>3, <1>8, UntoldSteps
  <2> QED  BY <1>0, <1>2, <1>8, <2>1 DEF Told
<1>9. CASE Insert(c, "log")
  <2>1. /\ mover'[c] = [at |-> "log", from |-> NoState, to |-> First[machine]] /\ mover[c].at = "idle"
        /\ moves' = Append(moves, <<NoState, First[machine]>>) /\ ledger' = ledger /\ cuts' = cuts
    BY <1>0, <1>9 DEF Insert, StartMove, LifeTypes
  <2>2. MoveOf(c)' = <<NoState, First[machine]>> /\ <<NoState, First[machine]>> \in AnyState \X AnyState
    BY <1>m, <2>1 DEF MoveOf
  <2> QED  BY <1>4, <2>1, <2>2
<1>10. CASE Insert(c, "idle") /\ machine = "autolearn"
  <2>1. /\ mover'[c].at = "idle" /\ mover[c].at = "idle"
        /\ moves' = Append(moves, <<NoState, First[machine]>>) /\ ledger' = ledger
    BY <1>0, <1>10 DEF Insert, StartMove, LifeTypes
  <2>2. <<NoState, First[machine]>> \in AnyState \X AnyState
    BY <1>m
  <2> QED  BY <1>5, <1>10, <2>1, <2>2
<1>11. CASE Check(c, Maps[machine])
  <2>1. mover'[c].at = "write" /\ mover[c].at = "idle" /\ UNCHANGED <<ledger, moves, cuts>>
    BY <1>0, <1>11 DEF Check, StartMove, LifeTypes
  <2> QED  BY <1>8, <2>1
<1>12. CASE WriteRow(c)
  <2>1. /\ mover[c].at = "write" /\ mover'[c].from = mover[c].from /\ mover'[c].to = mover[c].to
        /\ mover'[c].at = IF machine = "autolearn" THEN "idle" ELSE "log"
        /\ moves' = Append(moves, MoveOf(c)) /\ ledger' = ledger /\ cuts' = cuts
    BY <1>0, <1>t, <1>12 DEF WriteRow, LifeTypes, MoverRecord, Of
  <2>2. MoveOf(c)' = MoveOf(c) /\ MoveOf(c) \in AnyState \X AnyState
    BY <1>m, <1>t, <2>1 DEF MoveOf, CallerAt, LegalMove, MoverRecord
  <2> QED  BY <1>4, <1>5, <2>1, <2>2
<1>13. CASE ReadLastHash(c) \/ WriteAudit(c)
  <2>1. /\ mover[c].at \in {"hash", "audit"} /\ mover'[c].at \in {"audit", "idle"}
        /\ UNCHANGED <<ledger, moves, cuts>>
    BY <1>0, <1>t, <1>13 DEF ReadLastHash, WriteAudit, LifeTypes, MoverRecord, Waiting
  <2> QED  BY <1>8, <2>1
<1>14. CASE Cut(c) /\ mover[c].at # "log"
  <2>1. mover'[c].at = "idle" /\ UNCHANGED <<ledger, moves>> /\ cuts' = cuts
    BY <1>0, <1>t, <1>14 DEF Cut, LifeTypes, Waiting
  <2> QED  BY <1>8, <1>14, <2>1
<1> QED  BY <1>1, <1>6, <1>7, <1>9, <1>10, <1>11, <1>12, <1>13, <1>14

-----------------------------------------------------------------------------
\* While calls do not overlap the one under way is alone with the row, the log and the chain.
LEMMA AloneStep == ASSUME LifeInv, LifeNext PROVE Alone'
<1> SUFFICES ASSUME ~overlapped' PROVE Alone'
  BY DEF Alone
<1>0. LifeTypes /\ Alone /\ \A c \in LifeCalls : CallerAt(c)
  BY DEF LifeInv
<1>m. NoState \notin StatesOf(machine) /\ StatesOf(machine) \subseteq AnyState /\ First[machine] \in StatesOf(machine)
      /\ \A s \in StatesOf(machine) : Maps[machine][s] \subseteq StatesOf(machine)
  BY <1>0, TheMaps DEF LifeTypes
<1>1. PICK c \in LifeCalls :
           \/ Insert(c, "log") /\ machine # "autolearn"
           \/ Insert(c, "idle") /\ machine = "autolearn"
           \/ Check(c, Maps[machine])
           \/ WriteRow(c) \/ WriteLog(c) \/ ReadLastHash(c) \/ WriteAudit(c) \/ Cut(c)
  BY LifeCases
<1>2. machine' = machine /\ ~overlapped
  BY <1>0, <1>1 DEF LifeTypes, Insert, Check, StartMove, WriteRow, WriteLog, ReadLastHash, WriteAudit, Cut
<1>3. \A d \in LifeCalls : d # c => mover[d].at = "idle"
  <2>1. CASE StartMove(c)
    BY <1>0, <2>1 DEF StartMove, LifeTypes
  <2>2. CASE mover[c].at # "idle"
    BY <1>0, <1>2, <2>2 DEF Alone
  <2> QED  BY <1>1, <2>1, <2>2 DEF Insert, Check, WriteRow, WriteLog, ReadLastHash, WriteAudit, Cut
<1>4. \A d \in LifeCalls : d # c => mover'[d].at = "idle"
  BY <1>0, <1>1, <1>3 DEF LifeTypes, Insert, Check, WriteRow, WriteLog, ReadLastHash, WriteAudit, Cut
<1>5. \A a, d \in LifeCalls : mover'[a].at # "idle" /\ mover'[d].at # "idle" => a = d
  BY <1>4
<1>t. mover[c] \in MoverRecord /\ CallerAt(c) /\ chain \in Seq(Nat) /\ ledger \in Seq(AnyState \X AnyState)
      /\ cuts \in Nat /\ row \in AnyState
  BY <1>0, <1>m DEF LifeTypes, AnyState
\* The chain.
<1>6. (\A i \in DOMAIN chain' : chain'[i] = i - 1) /\ (mover'[c].at = "audit" => mover'[c].from = Len(chain'))
  <2>1. CASE ReadLastHash(c)
    <3>1. chain' = chain /\ mover'[c].from = Len(chain)
      BY <1>0, <1>t, <2>1 DEF ReadLastHash, LifeTypes, MoverRecord
    <3> QED  BY <1>0, <1>2, <3>1 DEF Alone
  <2>2. CASE WriteAudit(c)
    <3>1. chain' = Append(chain, Len(chain)) /\ mover'[c].at = "idle"
      BY <1>0, <1>2, <2>2 DEF WriteAudit, Alone, LifeTypes, Waiting
    <3>2. ASSUME NEW i \in DOMAIN chain' PROVE chain'[i] = i - 1
      <4>1. CASE i \in DOMAIN chain
        BY <1>0, <1>2, <1>t, <3>1, <4>1 DEF Alone
      <4>2. CASE i = Len(chain) + 1
        BY <1>t, <3>1, <4>2
      <4> QED  BY <1>t, <3>1, <3>2, <4>1, <4>2
    <3> QED  BY <3>1, <3>2
  <2>3. CASE ~ReadLastHash(c) /\ ~WriteAudit(c)
    <3>1. chain' = chain /\ mover'[c].at # "audit"
      <4>1. Insert(c, "log") \/ Insert(c, "idle") => chain' = chain /\ mover'[c].at # "audit"
        BY <1>0 DEF Insert, LifeTypes
      <4>2. Check(c, Maps[machine]) => chain' = chain /\ mover'[c].at = "write"
        BY <1>0 DEF Check, LifeTypes
      <4>3. WriteRow(c) => chain' = chain /\ mover'[c].at # "audit"
        BY <1>0, <1>t DEF WriteRow, LifeTypes, MoverRecord
      <4>4. WriteLog(c) => chain' = chain /\ mover'[c].at # "audit"
        BY <1>0, <1>t DEF WriteLog, LifeTypes, MoverRecord
      <4>5. Cut(c) => chain' = chain /\ mover'[c].at = "idle"
        BY <1>0 DEF Cut, LifeTypes, Waiting
      <4> QED  BY <1>1, <2>3, <4>1, <4>2, <4>3, <4>4, <4>5
    <3> QED  BY <1>0, <1>2, <3>1 DEF Alone
  <2> QED  BY <2>1, <2>2, <2>3
\* The row and the log.
<1>7. ASSUME machine # "autolearn"
      PROVE  /\ mover'[c].at = "write" => mover'[c].from = row'
             /\ mover'[c].at = "log" =>
                  mover'[c].to = row' /\ Cardinality(BreaksOf(ledger', mover'[c].from)) <= cuts'
             /\ mover'[c].at # "log" => Cardinality(BreaksOf(ledger', row')) <= cuts'
  <2>0. /\ mover[c].at = "write" => mover[c].from = row
        /\ mover[c].at = "log" =>
             mover[c].to = row /\ Cardinality(BreaksOf(ledger, mover[c].from)) <= cuts
        /\ mover[c].at # "log" => Cardinality(BreaksOf(ledger, row)) <= cuts
    BY <1>0, <1>2, <1>3, <1>7 DEF Alone
  <2>1. CASE Insert(c, "log")
    <3>1. /\ mover'[c] = [at |-> "log", from |-> NoState, to |-> First[machine]]
          /\ row = NoState /\ row' = First[machine] /\ ledger' = ledger /\ cuts' = cuts /\ mover[c].at = "idle"
      BY <1>0, <2>1 DEF Insert, StartMove, LifeTypes
    <3> QED  BY <2>0, <3>1
  <2>2. CASE Check(c, Maps[machine])
    <3>1. /\ mover'[c].at = "write" /\ mover'[c].from = row
          /\ row' = row /\ ledger' = ledger /\ cuts' = cuts /\ mover[c].at = "idle"
      BY <1>0, <2>2 DEF Check, StartMove, LifeTypes
    <3> QED  BY <2>0, <3>1
  <2>3. CASE WriteRow(c)
    <3>1. /\ mover'[c].at = "log" /\ mover'[c].from = mover[c].from /\ mover'[c].to = mover[c].to
          /\ row' = mover[c].to /\ ledger' = ledger /\ cuts' = cuts /\ mover[c].at = "write"
      BY <1>0, <1>7, <1>t, <2>3 DEF WriteRow, LifeTypes, MoverRecord, Of
    <3> QED  BY <2>0, <3>1
  <2>4. CASE WriteLog(c)
    <3>1. /\ mover'[c].at \in {"hash", "idle"} /\ mover[c].at = "log"
          /\ row' = row /\ ledger' = Append(ledger, <<mover[c].from, mover[c].to>>) /\ cuts' = cuts
      BY <1>0, <1>t, <2>4 DEF WriteLog, Logged, MoveOf, LifeTypes, MoverRecord
    <3>2. mover[c].from \in AnyState /\ mover[c].to \in AnyState
      BY <1>m, <1>t, <3>1 DEF CallerAt, LegalMove, MoverRecord, AnyState
    <3>3. row = mover[c].to
      BY <2>0, <3>1
    <3>4. BreaksOf(Append(ledger, <<mover[c].from, mover[c].to>>), mover[c].to) = BreaksOf(ledger, mover[c].from)
      BY <1>t, <3>2, BreaksAre
    <3>5. BreaksOf(ledger', row') = BreaksOf(ledger, mover[c].from)
      BY <3>1, <3>3, <3>4
    <3> QED  BY <2>0, <3>1, <3>5
  <2>5. CASE ReadLastHash(c) \/ WriteAudit(c)
    <3>1. /\ mover'[c].at \in {"audit", "idle"} /\ mover[c].at \in {"hash", "audit"}
          /\ row' = row /\ ledger' = ledger /\ cuts' = cuts
      BY <1>0, <1>t, <2>5 DEF ReadLastHash, WriteAudit, LifeTypes, MoverRecord, Waiting
    <3> QED  BY <2>0, <3>1
  <2>6. CASE Cut(c)
    <3>1. /\ mover'[c].at = "idle" /\ row' = row /\ ledger' = ledger
          /\ cuts' = cuts + (IF mover[c].at = "log" THEN 1 ELSE 0)
      BY <1>0, <2>6 DEF Cut, LifeTypes, Waiting
    <3>2. CASE mover[c].at = "log"
      <4>1. mover[c].from \in AnyState /\ row \in AnyState
        BY <1>m, <1>t, <3>2 DEF CallerAt, LegalMove, AnyState
      <4>2. /\ Cardinality(BreaksOf(ledger, row)) <= Cardinality(BreaksOf(ledger, mover[c].from)) + 1
            /\ Cardinality(BreaksOf(ledger, mover[c].from)) \in Nat /\ Cardinality(BreaksOf(ledger, row)) \in Nat
        BY <1>t, <4>1, BreaksAre
      <4> QED  BY <1>t, <2>0, <3>1, <3>2, <4>2
    <3>3. CASE mover[c].at # "log"
      BY <1>t, <2>0, <3>1, <3>3
    <3> QED  BY <3>2, <3>3
  <2> QED  BY <1>1, <1>7, <2>1, <2>2, <2>3, <2>4, <2>5, <2>6
<1>8. (machine # "autolearn" =>
         /\ \A a \in LifeCalls : mover[a].at = "write" => mover[a].from = row
         /\ \A a \in LifeCalls : mover[a].at = "log" =>
              mover[a].to = row /\ Cardinality(BreaksOf(ledger, mover[a].from)) <= cuts
         /\ (\A a \in LifeCalls : mover[a].at # "log") => Cardinality(BreaksOf(ledger, row)) <= cuts)'
  <2> SUFFICES ASSUME machine # "autolearn"
               PROVE  (/\ \A a \in LifeCalls : mover[a].at = "write" => mover[a].from = row
                       /\ \A a \in LifeCalls : mover[a].at = "log" =>
                            mover[a].to = row /\ Cardinality(BreaksOf(ledger, mover[a].from)) <= cuts
                       /\ (\A a \in LifeCalls : mover[a].at # "log") => Cardinality(BreaksOf(ledger, row)) <= cuts)'
    BY <1>2
  <2>1. \A a \in LifeCalls : mover'[a].at # "idle" => a = c
    BY <1>4
  <2> QED  BY <1>7, <2>1
<1>9. (\A a \in LifeCalls : mover[a].at = "audit" => mover[a].from = Len(chain))'
  BY <1>4, <1>6
<1> QED  BY <1>5, <1>6, <1>8, <1>9 DEF Alone

\* The invariant is inductive.
THEOREM LifeInductive == LifeSpec => []LifeInv
<1>1. LifeInv /\ [LifeNext]_lifeVars => LifeInv'
  <2> SUFFICES ASSUME LifeInv, [LifeNext]_lifeVars PROVE LifeInv'
    OBVIOUS
  <2>1. CASE LifeNext
    BY <2>1, LifeTypeStep, LegalStep, ToldStep, AloneStep DEF LifeInv
  <2>2. CASE UNCHANGED lifeVars
    BY <2>2 DEF lifeVars, LifeInv, LifeTypes, Busy, CallerAt, LegalMove, LegalRows, Alone, Told, Telling, Untold, MoveOf
  <2> QED  BY <2>1, <2>2
<1> QED  BY <1>1, LifeStarts, PTL DEF LifeSpec

\* The log of an item holds legal moves only, each as often as it was written to the row at most,
\* and lacks those alone whose call stopped in between, however calls overlapped; where they did
\* not, it and the audit chain also continue but for those calls.
THEOREM LifeCorrect == LifeSpec => [](LifeTypeOK /\ LogSound)
<1>1. LifeInv => LifeTypeOK /\ LogSound
  <2> SUFFICES ASSUME LifeInv PROVE LifeTypeOK /\ LogSound
    OBVIOUS
  <2>0. LifeTypes /\ (\A c \in LifeCalls : CallerAt(c)) /\ LegalRows /\ Told /\ Alone /\ Cardinality(Busy) \in Nat
    BY FS_CardinalityType DEF LifeInv, LifeTypes
  <2>m. /\ \A s \in Ended[machine] : s \in StatesOf(machine) /\ Maps[machine][s] = {}
        /\ NoState \notin StatesOf(machine) /\ StatesOf(machine) \subseteq AnyState
    BY <2>0, TheMaps DEF LifeTypes
  <2>1. LifeTypeOK
    <3>1. cuts \in 0..started
      BY <2>0, LifeAssumption DEF LifeTypes
    <3>2. machine \in {"edge", "worker", "email", "annotation", "autolearn"}
      BY <2>0 DEF LifeTypes, Maps
    <3>3. row \in {NoState} \cup (CASE machine \in Recordings -> RecordingStates
                             [] machine = "email"      -> EmailStates
                             [] machine = "annotation" -> AnnotationStates
                             [] machine = "autolearn"  -> AutolearnStates)
      BY <2>0, <3>2 DEF LifeTypes, StatesOf, Recordings
    <3> QED  BY <2>0, <3>1, <3>3 DEF LifeTypeOK, LifeTypes
  <2>2. LogLegal
    <3> SUFFICES ASSUME NEW i \in DOMAIN ledger
                 PROVE  /\ ledger[i][1] = NoState \/ ledger[i][2] \in Maps[machine][ledger[i][1]]
                        /\ ledger[i][1] \notin Ended[machine]
      BY DEF LogLegal
    <3>1. LegalMove(ledger[i][1], ledger[i][2])
      BY <2>0 DEF LegalRows
    <3> QED  BY <2>m, <3>1 DEF LegalMove
  <2>3. LogContinues
    <3> SUFFICES ASSUME machine # "autolearn", ~overlapped
                 PROVE  /\ Cardinality(Breaks) <=
                             cuts + (IF Untold = {} THEN 0 ELSE 1)
                        /\ \A i \in DOMAIN chain : chain[i] = i - 1
      BY DEF LogContinues
    <3>1. Breaks = BreaksOf(ledger, row)
      BY DEF Breaks, BreaksOf
    <3>2. CASE Untold = {}
      <4>1. \A c \in LifeCalls : mover[c].at # "log"
        BY <3>2 DEF Untold
      <4>2. Cardinality(BreaksOf(ledger, row)) <= cuts
        BY <2>0, <4>1 DEF Alone
      <4> QED  BY <2>0, <3>1, <3>2, <4>2 DEF Alone, LifeTypes
    <3>3. CASE Untold # {}
      <4>1. PICK c \in LifeCalls : mover[c].at = "log"
        BY <3>3 DEF Untold
      <4>2. Cardinality(BreaksOf(ledger, mover[c].from)) <= cuts
        BY <2>0, <4>1 DEF Alone
      <4>3. mover[c].from \in AnyState /\ row \in AnyState
        BY <2>0, <2>m, <4>1 DEF CallerAt, LegalMove, AnyState, LifeTypes
      <4>4. /\ Cardinality(BreaksOf(ledger, row)) <= Cardinality(BreaksOf(ledger, mover[c].from)) + 1
            /\ Cardinality(BreaksOf(ledger, mover[c].from)) \in Nat /\ Cardinality(BreaksOf(ledger, row)) \in Nat
        BY <2>0, <4>3, BreaksAre DEF LifeTypes
      <4>5. Cardinality(Breaks) <= cuts + 1
        BY <2>0, <3>1, <4>2, <4>4 DEF LifeTypes
      <4> QED  BY <2>0, <3>3, <4>5 DEF Alone
    <3> QED  BY <3>2, <3>3
  <2>4. LogAccounts
    <3>1. \A i \in DOMAIN ledger : ledger[i] \in AnyState \X AnyState
      BY <2>0 DEF LifeTypes
    <3>2. \A m \in AnyState \X AnyState :
            Times(ledger, m) + Cardinality({c \in Untold : MoveOf(c) = m}) <= Times(moves, m)
      BY <2>0 DEF Told, Telling
    <3> QED  BY <2>0, <3>1, <3>2 DEF Told, LogAccounts
  <2> QED  BY <2>1, <2>2, <2>3, <2>4 DEF LogSound
<1> QED  BY <1>1, LifeInductive, PTL

-----------------------------------------------------------------------------
(* The audit chain.                                                        *)

AuditRow == [ts : Nat, id : Nat, prev : Nat, of : Audited]

OpRecord ==
  [at : {"idle", "effect", "select", "lock", "insert", "done", "refused", "unrecorded", "doubted",
         "lost"},
   kind : {"none", "closed", "open"}, ts : Nat, seen : Nat, prev : Nat, done : BOOLEAN]

\* The row i of l is the latest of the first n, of none there is no latest.
IsLatest(l, i, n) ==
  IF n = 0 THEN i = Genesis ELSE i \in 1..n /\ \A j \in 1..n : j # i => Newer(l[i], l[j])

AuditTypes ==
  /\ now \in 0..MaxNow /\ log \in Seq(AuditRow) /\ op \in [Audited -> OpRecord]
  /\ late \subseteq DOMAIN log

\* The rows: no two have one id, each is on an earlier one, the late ones are those that some
\* earlier row is newer than, and while there are none each row is on the one before.
AuditRows ==
  /\ \A i, j \in DOMAIN log : i # j => log[i].id # log[j].id
  /\ \A i \in DOMAIN log : log[i].prev \in 0..i - 1
  /\ \A i \in DOMAIN log : i \in late <=> \E j \in 1..i - 1 : ~Newer(log[i], log[j])
  /\ \A n \in 1..Len(log) : \E i \in 1..n : IsLatest(log, i, n)
  /\ late = {} => \A i \in DOMAIN log : log[i].prev = i - 1

\* An operation between its read and its row: what it read was the latest of its snapshot.
Snapshot(o) ==
  op[o].at \in {"lock", "insert"} => op[o].seen \in 0..Len(log) /\ IsLatest(log, op[o].prev, op[o].seen)

\* An operation that records first: it has a row before it takes effect, and none before that.
RecordsFirst(o) ==
  op[o].kind = "closed" =>
    /\ op[o].at \in {"select", "lock", "insert", "effect", "done", "refused", "doubted", "lost"}
    /\ op[o].at \in {"select", "lock", "insert", "refused"} => ~Recorded(o)
    /\ op[o].at \in {"effect", "done", "doubted"} => Recorded(o)
    /\ op[o].done <=> op[o].at = "done"

\* One that has not begun has no row.
Unbegun(o) == op[o].at = "idle" => ~Recorded(o) /\ op[o].kind = "none"

\* A row is committed, and the caller told so or not.
Commits(o) == Append1(o) \/ AnswerLost(o)

AuditInv ==
  AuditTypes /\ AuditRows /\ \A o \in Audited : Snapshot(o) /\ RecordsFirst(o) /\ Unbegun(o)

-----------------------------------------------------------------------------
\* Rows with different ids are in one order.
LEMMA NewerOrders ==
  ASSUME NEW x \in AuditRow, NEW y \in AuditRow, NEW z \in AuditRow
  PROVE  /\ x.id # y.id => Newer(x, y) \/ Newer(y, x)
         /\ ~(Newer(x, y) /\ Newer(y, x))
         /\ Newer(x, y) /\ Newer(y, z) => Newer(x, z)
  BY DEF Newer, AuditRow

\* An empty log.
LEMMA AuditStarts == AuditInit => AuditInv
<1> SUFFICES ASSUME AuditInit PROVE AuditInv  OBVIOUS
<1> USE DEF AuditInit
<1>1. Nothing \in OpRecord /\ Nothing.at = "idle" /\ Nothing.kind = "none"
  BY DEF Nothing, OpRecord, Genesis
<1>2. AuditTypes
  BY <1>1, AuditAssumption DEF AuditTypes
<1>3. AuditRows
  BY DEF AuditRows
<1>4. \A o \in Audited : Snapshot(o) /\ RecordsFirst(o) /\ Unbegun(o)
  BY <1>1 DEF Snapshot, RecordsFirst, Unbegun, Recorded
<1> QED  BY <1>2, <1>3, <1>4 DEF AuditInv

\* A snapshot shows the latest row, if there is one.
LEMMA LatestIs == ASSUME AuditTypes, AuditRows PROVE IsLatest(log, Latest(Len(log)), Len(log))
<1>0. Len(log) \in Nat /\ (\A n \in 1..Len(log) : \E i \in 1..n : IsLatest(log, i, n))
  BY DEF AuditTypes, AuditRows
<1>1. CASE Len(log) = 0
  BY <1>1 DEF IsLatest, Latest
<1>2. CASE Len(log) # 0
  <2> DEFINE P(i) == \A j \in 1..Len(log) : j # i => Newer(log[i], log[j])
  <2>1. PICK i \in 1..Len(log) : IsLatest(log, i, Len(log))
    BY <1>0, <1>2
  <2>2. P(i)
    BY <1>2, <2>1 DEF IsLatest
  <2>3. Latest(Len(log)) = CHOOSE k \in 1..Len(log) : P(k)
    BY <1>2 DEF Latest
  <2> HIDE DEF P
  <2>4. Latest(Len(log)) \in 1..Len(log) /\ P(Latest(Len(log)))
    BY <2>2, <2>3, Zenon
  <2> QED  BY <1>2, <2>4 DEF IsLatest, P
<1> QED  BY <1>1, <1>2

\* What a step makes of an operation.
LEMMA OpSteps ==
  ASSUME AuditInv, NEW o \in Audited,
         \/ StartClosed(o) \/ StartOpen(o) \/ Effect(o) \/ SelectLatest(o) \/ LockLatest(o)
         \/ Append1(o) \/ AnswerLost(o) \/ AppendFails(o) \/ Lost(o)
  PROVE  /\ op' \in [Audited -> OpRecord]
         /\ \A p \in Audited : p # o => op'[p] = op[p]
<1>0. op \in [Audited -> OpRecord] /\ log \in Seq(AuditRow) /\ now \in Nat
      /\ (\A n \in 1..Len(log) : \E i \in 1..n : IsLatest(log, i, n))
  BY AuditAssumption DEF AuditInv, AuditTypes, AuditRows
<1>s. op[o] \in OpRecord
  BY <1>0
<1>1. \E m \in OpRecord : op' = [op EXCEPT ![o] = m]
  <2>1. StartClosed(o) \/ StartOpen(o) => \E m \in OpRecord : op' = [op EXCEPT ![o] = m]
    <3>1. \A k \in {"closed", "open"} :
            [Nothing EXCEPT !.at = IF k = "closed" THEN "select" ELSE "effect", !.kind = k, !.ts = now] \in OpRecord
      BY <1>0 DEF Nothing, OpRecord, Genesis
    <3> QED  BY <3>1 DEF StartClosed, StartOpen, Start, Moves
  <2>2. Effect(o) => \E m \in OpRecord : op' = [op EXCEPT ![o] = m]
    <3>1. (IF op[o].kind = "closed" THEN [op[o] EXCEPT !.at = "done", !.done = TRUE]
           ELSE [op[o] EXCEPT !.at = "select", !.done = TRUE, !.ts = now]) \in OpRecord
      BY <1>0, <1>s DEF OpRecord
    <3> QED  BY <3>1 DEF Effect, Moves
  <2>3. SelectLatest(o) => \E m \in OpRecord : op' = [op EXCEPT ![o] = m]
    <3>1. Latest(Len(log)) \in Nat /\ Len(log) \in Nat
      BY <1>0, LatestIs DEF AuditInv, IsLatest, Genesis
    <3> DEFINE m == [at |-> "lock", kind |-> op[o].kind, ts |-> op[o].ts, seen |-> Len(log),
                     prev |-> Latest(Len(log)), done |-> op[o].done]
    <3>2. m \in OpRecord
      BY <1>s, <3>1 DEF OpRecord
    <3>3. SelectLatest(o) => op' = [op EXCEPT ![o] = m]
      BY <1>s DEF SelectLatest, Moves, OpRecord
    <3> QED  BY <3>2, <3>3
  <2>4. LockLatest(o) => \E m \in OpRecord : op' = [op EXCEPT ![o] = m]
    <3>1. [op[o] EXCEPT !.at = "insert"] \in OpRecord
      BY <1>s DEF OpRecord
    <3> QED  BY <3>1 DEF LockLatest, Moves
  <2>5. Append1(o) => \E m \in OpRecord : op' = [op EXCEPT ![o] = m]
    <3>1. [op[o] EXCEPT !.at = IF op[o].kind = "closed" THEN "effect" ELSE "done"] \in OpRecord
      BY <1>s DEF OpRecord
    <3> QED  BY <3>1 DEF Append1, Commit, Moves
  <2>8. AnswerLost(o) => \E m \in OpRecord : op' = [op EXCEPT ![o] = m]
    <3>1. [op[o] EXCEPT !.at = "doubted"] \in OpRecord
      BY <1>s DEF OpRecord
    <3> QED  BY <3>1 DEF AnswerLost, Commit, Moves
  <2>6. AppendFails(o) => \E m \in OpRecord : op' = [op EXCEPT ![o] = m]
    <3>1. [op[o] EXCEPT !.at = IF op[o].kind = "closed" THEN "refused" ELSE "unrecorded"] \in OpRecord
      BY <1>s DEF OpRecord
    <3> QED  BY <3>1 DEF AppendFails, Moves
  <2>7. Lost(o) => \E m \in OpRecord : op' = [op EXCEPT ![o] = m]
    <3>1. [op[o] EXCEPT !.at = "lost"] \in OpRecord
      BY <1>s DEF OpRecord
    <3> QED  BY <3>1 DEF Lost, Moves
  <2> QED  BY <2>1, <2>2, <2>3, <2>4, <2>5, <2>6, <2>7, <2>8
<1> QED  BY <1>0, <1>1

\* A row that is added: nothing changes for those before it.
LEMMA RowAdded ==
  ASSUME AuditTypes, NEW added \in AuditRow, log' = Append(log, added)
  PROVE  /\ Len(log) \in Nat /\ Len(log') = Len(log) + 1 /\ DOMAIN log' = 1..Len(log) + 1
         /\ DOMAIN log = 1..Len(log)
         /\ log'[Len(log) + 1] = added /\ \A i \in 1..Len(log) : log'[i] = log[i] /\ log[i] \in AuditRow
         /\ \A n \in 0..Len(log), i \in Nat : IsLatest(log, i, n) => IsLatest(log', i, n)
<1>1. /\ Len(log) \in Nat /\ Len(log') = Len(log) + 1 /\ DOMAIN log' = 1..Len(log) + 1
      /\ DOMAIN log = 1..Len(log)
      /\ log'[Len(log) + 1] = added /\ \A i \in 1..Len(log) : log'[i] = log[i] /\ log[i] \in AuditRow
  BY DEF AuditTypes
<1>2. ASSUME NEW n \in 0..Len(log), NEW i \in Nat, IsLatest(log, i, n) PROVE IsLatest(log', i, n)
  BY <1>1, <1>2 DEF IsLatest
<1> QED  BY <1>1, <1>2

\* A row that is committed: it is late if an earlier one is newer; if none ever was, it is on
\* the last, for a row the operation had not seen would have made it fail.
LEMMA RowsStep ==
  ASSUME AuditInv, NEW o \in Audited, NEW next, Commit(o, next)
  PROVE  AuditRows' /\ late' \subseteq DOMAIN log' /\ log' \in Seq(AuditRow)
<1>0. AuditTypes /\ AuditRows /\ Snapshot(o) /\ op[o] \in OpRecord
  BY DEF AuditInv, AuditTypes
<1>1. PICK id \in 1..Cardinality(Audited) :
        LET added == [ts |-> op[o].ts, id |-> id, prev |-> op[o].prev, of |-> o] IN
        /\ \A i \in DOMAIN log : log[i].id # id
        /\ ~Conflicts(o, added)
        /\ log' = Append(log, added)
        /\ late' = IF \A i \in DOMAIN log : Newer(added, log[i]) THEN late ELSE late \cup {Len(log) + 1}
  BY DEF Commit
<1> DEFINE added == [ts |-> op[o].ts, id |-> id, prev |-> op[o].prev, of |-> o]
           n   == Len(log)
<1>2. id \in Nat
  BY FS_CardinalityType, AuditAssumption
<1>3. added \in AuditRow /\ added.id = id /\ added.prev = op[o].prev
  BY <1>0, <1>2 DEF AuditRow, OpRecord
<1>4. log' = Append(log, added) /\ ~Conflicts(o, added) /\ (\A i \in DOMAIN log : log[i].id # added.id)
      /\ late' = IF \A i \in DOMAIN log : Newer(added, log[i]) THEN late ELSE late \cup {n + 1}
  BY <1>1
<1>5. op[o].seen \in 0..n /\ IsLatest(log, op[o].prev, op[o].seen)
  BY <1>0 DEF Snapshot, Commit
<1> HIDE DEF added
<1>6. /\ n \in Nat /\ Len(log') = n + 1 /\ DOMAIN log' = 1..n + 1 /\ DOMAIN log = 1..n
      /\ log'[n + 1] = added /\ \A i \in 1..n : log'[i] = log[i] /\ log[i] \in AuditRow
      /\ \A k \in 0..n, i \in Nat : IsLatest(log, i, k) => IsLatest(log', i, k)
  BY <1>0, <1>3, <1>4, RowAdded
<1> HIDE DEF n
<1>7. (\A i, j \in DOMAIN log : i # j => log[i].id # log[j].id)'
  BY <1>0, <1>4, <1>6 DEF AuditRows
<1>8. (\A i \in DOMAIN log : log[i].prev \in 0..i - 1)'
  <2>1. added.prev \in 0..n
    BY <1>3, <1>5, <1>6 DEF IsLatest, Genesis
  <2> QED  BY <1>0, <1>6, <2>1 DEF AuditRows
<1>9. (\A i \in DOMAIN log : i \in late <=> \E j \in 1..i - 1 : ~Newer(log[i], log[j]))'
  <2>1. ASSUME NEW i \in 1..n
        PROVE  i \in late' <=> \E j \in 1..i - 1 : ~Newer(log'[i], log'[j])
    <3>1. i \in late' <=> i \in late
      BY <1>4, <1>6
    <3>2. i \in late <=> \E j \in 1..i - 1 : ~Newer(log[i], log[j])
      BY <1>0, <1>6 DEF AuditRows
    <3>3. \A j \in 1..i - 1 : log'[j] = log[j] /\ log'[i] = log[i]
      BY <1>6
    <3> QED  BY <3>1, <3>2, <3>3
  <2>2. n + 1 \in late' <=> \E j \in 1..n : ~Newer(log'[n + 1], log'[j])
    <3>1. n + 1 \notin late
      BY <1>0, <1>6 DEF AuditTypes
    <3>2. n + 1 \in late' <=> ~\A i \in 1..n : Newer(added, log[i])
      BY <1>4, <1>6, <3>1
    <3> QED  BY <1>6, <3>2
  <2>3. \A i \in 1..n + 1 : i \in 1..n \/ i = n + 1
    BY <1>6
  <2>4. 1..(n + 1) - 1 = 1..n
    BY <1>6
  <2> QED  BY <1>6, <2>1, <2>2, <2>3, <2>4
<1>10. \A k \in 1..Len(log') : \E i \in 1..k : IsLatest(log', i, k)
  <2>1. \A k \in 1..n : \E i \in 1..k : IsLatest(log', i, k)
    <3> TAKE k \in 1..n
    <3>1. PICK i \in 1..k : IsLatest(log, i, k)
      BY <1>0, <1>6 DEF AuditRows, n
    <3>2. i \in Nat /\ k \in 0..n
      BY <1>6
    <3> QED  BY <1>6, <3>1, <3>2
  <2>2. \E i \in 1..n + 1 : IsLatest(log', i, n + 1)
    <3>1. CASE n = 0
      <4>1. IsLatest(log', 1, n + 1)
        BY <3>1 DEF IsLatest
      <4> QED  BY <3>1, <4>1
    <3>2. CASE n # 0
      <4>1. PICK i \in 1..n : IsLatest(log, i, n)
        BY <1>0, <1>6, <3>2 DEF AuditRows, n
      <4>2. \A j \in 1..n : j # i => Newer(log'[i], log'[j])
        BY <1>6, <3>2, <4>1 DEF IsLatest
      <4>3. log'[i] \in AuditRow /\ log'[n + 1] = added /\ log'[i].id # added.id
            /\ \A j \in 1..n : log'[j] \in AuditRow
        BY <1>4, <1>6, <4>1
      <4>4. CASE Newer(log'[i], added)
        <5>1. \A j \in 1..n + 1 : j # i => Newer(log'[i], log'[j])
          BY <1>6, <4>2, <4>3, <4>4
        <5>2. i \in 1..n + 1 /\ n + 1 # 0
          BY <1>6, <4>1
        <5> QED  BY <5>1, <5>2 DEF IsLatest
      <4>5. CASE Newer(added, log'[i])
        <5>1. \A j \in 1..n : Newer(added, log'[j])
          BY <1>3, <4>2, <4>3, <4>5, NewerOrders
        <5>2. \A j \in 1..n + 1 : j # n + 1 => Newer(log'[n + 1], log'[j])
          BY <1>6, <4>3, <5>1
        <5>3. n + 1 \in 1..n + 1 /\ n + 1 # 0
          BY <1>6
        <5> QED  BY <5>2, <5>3 DEF IsLatest
      <4> QED  BY <1>3, <4>3, <4>4, <4>5, NewerOrders
    <3> QED  BY <3>1, <3>2
  <2>3. \A k \in 1..n + 1 : k \in 1..n \/ k = n + 1
    BY <1>6
  <2> QED  BY <1>6, <2>1, <2>2, <2>3
<1>11. (late = {} => \A i \in DOMAIN log : log[i].prev = i - 1)'
  <2> SUFFICES ASSUME late' = {} PROVE \A i \in DOMAIN log' : log'[i].prev = i - 1
    OBVIOUS
  <2>1. late = {} /\ \A i \in 1..n : Newer(added, log[i])
    BY <1>4, <1>6
  <2>2. /\ \A i \in 1..n : log[i].prev = i - 1
        /\ \A i \in 1..n : \A j \in 1..i - 1 : Newer(log[i], log[j])
    BY <1>0, <1>6, <2>1 DEF AuditRows
  <2>3. op[o].seen = n
    <3> SUFFICES ASSUME op[o].seen # n PROVE FALSE
      OBVIOUS
    <3>1. n \in op[o].seen + 1..Len(log) /\ n \in 1..n
      BY <1>5, <1>6 DEF n
    <3>2. op[o].prev = Genesis \/ op[o].prev \in 1..n - 1
      BY <1>5, <1>6 DEF IsLatest
    <3>3. op[o].prev = Genesis \/ Newer(log[n], log[op[o].prev])
      BY <2>2, <3>1, <3>2
    <3>4. log[n].prev = Genesis \/ Newer(added, log[log[n].prev])
      <4>1. log[n].prev = n - 1
        BY <2>2, <3>1
      <4>2. CASE n = 1
        BY <4>1, <4>2 DEF Genesis
      <4>3. CASE n # 1
        <5>1. n - 1 \in 1..n
          BY <1>6, <3>1, <4>3
        <5> QED  BY <2>1, <4>1, <5>1
      <4> QED  BY <4>2, <4>3
    <3> QED  BY <1>4, <3>1, <3>3, <3>4 DEF Conflicts
  <2>4. op[o].prev = n
    <3>1. CASE n = 0
      BY <1>5, <2>3, <3>1 DEF IsLatest, Genesis
    <3>2. CASE n # 0
      <4>1. op[o].prev \in 1..n /\ \A j \in 1..n : j # op[o].prev => Newer(log[op[o].prev], log[j])
        BY <1>5, <2>3, <3>2 DEF IsLatest
      <4>2. n \in 1..n
        BY <1>6, <3>2
      <4>3. ASSUME op[o].prev # n PROVE FALSE
        <5>1. Newer(log[op[o].prev], log[n])
          BY <4>1, <4>2, <4>3
        <5>2. Newer(log[n], log[op[o].prev])
          <6>1. op[o].prev \in 1..n - 1
            BY <1>6, <4>1, <4>3
          <6> QED  BY <2>2, <4>2, <6>1
        <5> QED  BY <1>6, <4>1, <4>2, <5>1, <5>2, NewerOrders
      <4> QED  BY <4>3
    <3> QED  BY <3>1, <3>2
  <2>5. \A i \in 1..n : log'[i].prev = i - 1
    BY <1>6, <2>2
  <2>6. log'[n + 1].prev = (n + 1) - 1
    BY <1>3, <1>6, <2>4
  <2>7. \A i \in 1..n + 1 : i \in 1..n \/ i = n + 1
    BY <1>6
  <2> QED  BY <1>6, <2>5, <2>6, <2>7
<1>12. late' \subseteq DOMAIN log' /\ log' \in Seq(AuditRow)
  BY <1>0, <1>3, <1>4, <1>6 DEF AuditTypes
<1> QED  BY <1>7, <1>8, <1>9, <1>10, <1>11, <1>12 DEF AuditRows
-----------------------------------------------------------------------------
\* What a step of an operation does to the rows: it adds its own or none.
LEMMA LogSteps ==
  ASSUME AuditInv, NEW o \in Audited,
         \/ StartClosed(o) \/ StartOpen(o) \/ Effect(o) \/ SelectLatest(o) \/ LockLatest(o)
         \/ Append1(o) \/ AnswerLost(o) \/ AppendFails(o) \/ Lost(o)
  PROVE  /\ AuditRows' /\ late' \subseteq DOMAIN log' /\ log' \in Seq(AuditRow) /\ now' = now
         /\ Len(log) \in Nat /\ Len(log') \in Nat /\ Len(log) <= Len(log')
         /\ \A n \in 0..Len(log), i \in Nat : IsLatest(log, i, n) => IsLatest(log', i, n)
         /\ \A p \in Audited : p # o => (Recorded(p)' <=> Recorded(p))
         /\ Commits(o) => Recorded(o)'
         /\ ~Commits(o) => (Recorded(o)' <=> Recorded(o))
<1>0. AuditTypes /\ AuditRows
  BY DEF AuditInv
<1>1. CASE Commits(o)
  <2>0. PICK next \in {"effect", "done", "doubted"} : Commit(o, next)
    BY <1>1 DEF Commits, Append1, AnswerLost
  <2>1. AuditRows' /\ late' \subseteq DOMAIN log' /\ log' \in Seq(AuditRow)
    BY <2>0, RowsStep
  <2>2. PICK id \in 1..Cardinality(Audited) :
          log' = Append(log, [ts |-> op[o].ts, id |-> id, prev |-> op[o].prev, of |-> o])
    BY <2>0 DEF Commit
  <2> DEFINE added == [ts |-> op[o].ts, id |-> id, prev |-> op[o].prev, of |-> o]
  <2>3. id \in Nat /\ op[o] \in OpRecord
    BY <1>0, FS_CardinalityType, AuditAssumption DEF AuditTypes
  <2>4. added \in AuditRow /\ added.of = o
    BY <2>3 DEF AuditRow, OpRecord
  <2>5. log' = Append(log, added)
    BY <2>2
  <2> HIDE DEF added
  <2>6. /\ Len(log) \in Nat /\ Len(log') = Len(log) + 1 /\ DOMAIN log' = 1..Len(log) + 1
        /\ DOMAIN log = 1..Len(log)
        /\ log'[Len(log) + 1] = added /\ \A i \in 1..Len(log) : log'[i] = log[i] /\ log[i] \in AuditRow
        /\ \A n \in 0..Len(log), i \in Nat : IsLatest(log, i, n) => IsLatest(log', i, n)
    BY <1>0, <2>4, <2>5, RowAdded
  <2>7. Len(log) + 1 \in DOMAIN log' /\ Len(log') \in Nat /\ Len(log) <= Len(log')
    BY <2>6
  <2>8. Recorded(o)'
    BY <2>4, <2>6, <2>7 DEF Recorded
  <2>9. ASSUME NEW p \in Audited, p # o PROVE Recorded(p)' <=> Recorded(p)
    <3>1. \A i \in DOMAIN log' : log'[i].of = p => i \in DOMAIN log
      BY <2>4, <2>6, <2>9
    <3>2. \A i \in DOMAIN log : i \in DOMAIN log' /\ log'[i] = log[i]
      BY <2>6
    <3> QED  BY <3>1, <3>2 DEF Recorded
  <2>10. now' = now
    BY <2>0 DEF Commit
  <2> QED  BY <1>1, <2>1, <2>6, <2>7, <2>8, <2>9, <2>10
<1>2. CASE ~Commits(o)
  <2>1. log' = log /\ late' = late /\ now' = now
    BY <1>2 DEF Commits, StartClosed, StartOpen, Start, Effect, SelectLatest, LockLatest, AppendFails, Lost
  <2>2. Len(log) \in Nat
    BY <1>0 DEF AuditTypes
  <2> QED  BY <1>0, <1>2, <2>1, <2>2 DEF AuditTypes, AuditRows, Recorded
<1> QED  BY <1>1, <1>2

\* What the next step makes of the operation that takes it.
LEMMA OwnStep ==
  ASSUME AuditInv, NEW o \in Audited,
         \/ StartClosed(o) \/ StartOpen(o) \/ Effect(o) \/ SelectLatest(o) \/ LockLatest(o)
         \/ Append1(o) \/ AnswerLost(o) \/ AppendFails(o) \/ Lost(o)
  PROVE  (Snapshot(o) /\ RecordsFirst(o) /\ Unbegun(o))'
<1>0. /\ AuditTypes /\ AuditRows /\ Snapshot(o) /\ RecordsFirst(o) /\ Unbegun(o)
      /\ op \in [Audited -> OpRecord] /\ op[o] \in OpRecord
  BY DEF AuditInv, AuditTypes
<1>1. /\ Len(log) \in Nat /\ Len(log') \in Nat /\ Len(log) <= Len(log')
      /\ \A n \in 0..Len(log), i \in Nat : IsLatest(log, i, n) => IsLatest(log', i, n)
      /\ Commits(o) => Recorded(o)'
      /\ ~Commits(o) => (Recorded(o)' <=> Recorded(o))
  BY LogSteps
<1>2. CASE StartClosed(o) \/ StartOpen(o)
  <2>1. PICK k \in {"closed", "open"} : Start(o, k)
    BY <1>2 DEF StartClosed, StartOpen
  <2>2. /\ op[o].at = "idle" /\ op'[o].kind = k /\ op'[o].done = FALSE
        /\ op'[o].at = IF k = "closed" THEN "select" ELSE "effect"
    BY <1>0, <2>1 DEF Start, Moves, Nothing
  <2>3. ~Recorded(o)
    BY <1>0, <2>2 DEF Unbegun
  <2>4. ~Commits(o)
    BY <2>2 DEF Commits, Append1, AnswerLost, Commit
  <2> QED  BY <1>1, <2>2, <2>3, <2>4 DEF Snapshot, RecordsFirst, Unbegun
<1>3. CASE Effect(o)
  <2>1. /\ op[o].at = "effect" /\ op'[o].kind = op[o].kind /\ op'[o].done = TRUE
        /\ op'[o].at = IF op[o].kind = "closed" THEN "done" ELSE "select"
    BY <1>0, <1>3 DEF Effect, Moves, OpRecord
  <2>2. ~Commits(o)
    BY <2>1 DEF Commits, Append1, AnswerLost, Commit
  <2> QED  BY <1>0, <1>1, <2>1, <2>2 DEF Snapshot, RecordsFirst, Unbegun
<1>4. CASE SelectLatest(o)
  <2>1. /\ op[o].at = "select" /\ op'[o].kind = op[o].kind /\ op'[o].done = op[o].done
        /\ op'[o].at = "lock" /\ op'[o].seen = Len(log) /\ op'[o].prev = Latest(Len(log)) /\ log' = log
    BY <1>0, <1>4 DEF SelectLatest, Moves, OpRecord
  <2>2. ~Commits(o)
    BY <2>1 DEF Commits, Append1, AnswerLost, Commit
  <2>3. IsLatest(log, Latest(Len(log)), Len(log))
    BY <1>0, LatestIs
  <2>4. Snapshot(o)'
    BY <1>1, <2>1, <2>3 DEF Snapshot
  <2> QED  BY <1>0, <1>1, <2>1, <2>2, <2>4 DEF RecordsFirst, Unbegun
<1>5. CASE LockLatest(o)
  <2>1. /\ op[o].at = "lock" /\ op'[o].kind = op[o].kind /\ op'[o].done = op[o].done
        /\ op'[o].at = "insert" /\ op'[o].seen = op[o].seen /\ op'[o].prev = op[o].prev /\ log' = log
    BY <1>0, <1>5 DEF LockLatest, Moves, OpRecord
  <2>2. ~Commits(o)
    BY <2>1 DEF Commits, Append1, AnswerLost, Commit
  <2>3. Snapshot(o)'
    BY <1>0, <2>1 DEF Snapshot
  <2> QED  BY <1>0, <1>1, <2>1, <2>2, <2>3 DEF RecordsFirst, Unbegun
<1>6. CASE Append1(o)
  <2>1. /\ op[o].at = "insert" /\ op'[o].kind = op[o].kind /\ op'[o].done = op[o].done
        /\ op'[o].at = IF op[o].kind = "closed" THEN "effect" ELSE "done"
    BY <1>0, <1>6 DEF Append1, Commit, Moves, OpRecord
  <2> QED  BY <1>0, <1>1, <1>6, <2>1 DEF Commits, Snapshot, RecordsFirst, Unbegun
<1>9. CASE AnswerLost(o)
  <2>1. /\ op[o].at = "insert" /\ op'[o].kind = op[o].kind /\ op'[o].done = op[o].done
        /\ op'[o].at = "doubted"
    BY <1>0, <1>9 DEF AnswerLost, Commit, Moves, OpRecord
  <2> QED  BY <1>0, <1>1, <1>9, <2>1 DEF Commits, Snapshot, RecordsFirst, Unbegun
<1>7. CASE AppendFails(o)
  <2>1. /\ op[o].at \in {"select", "lock", "insert"} /\ op'[o].kind = op[o].kind /\ op'[o].done = op[o].done
        /\ op'[o].at = IF op[o].kind = "closed" THEN "refused" ELSE "unrecorded"
    BY <1>0, <1>7 DEF AppendFails, Moves, OpRecord
  <2>2. log' = log
    BY <1>7 DEF AppendFails
  <2>3. Recorded(o)' <=> Recorded(o)
    BY <2>2 DEF Recorded
  <2> QED  BY <1>0, <2>1, <2>3 DEF Snapshot, RecordsFirst, Unbegun
<1>8. CASE Lost(o)
  <2>1. /\ op[o].at \in {"effect", "select", "lock", "insert"} /\ op'[o].kind = op[o].kind
        /\ op'[o].done = op[o].done /\ op'[o].at = "lost"
    BY <1>0, <1>8 DEF Lost, Moves, OpRecord
  <2> QED  BY <1>0, <2>1 DEF Snapshot, RecordsFirst, Unbegun
<1> QED  BY <1>2, <1>3, <1>4, <1>5, <1>6, <1>7, <1>8, <1>9

\* The invariant is inductive.
THEOREM AuditInductive == AuditSpec => []AuditInv
<1>1. AuditInv /\ [AuditNext]_auditVars => AuditInv'
  <2> SUFFICES ASSUME AuditInv, [AuditNext]_auditVars PROVE AuditInv'
    OBVIOUS
  <2>0. AuditTypes /\ AuditRows /\ \A o \in Audited : Snapshot(o) /\ RecordsFirst(o) /\ Unbegun(o)
    BY DEF AuditInv
  <2>1. CASE UNCHANGED auditVars
    BY <2>0, <2>1 DEF auditVars, AuditInv, AuditTypes, AuditRows, Snapshot, RecordsFirst, Unbegun, Recorded
  <2>2. CASE Tick
    <3>1. now' \in 0..MaxNow /\ UNCHANGED <<log, op, held, late>>
      BY <2>0, <2>2, AuditAssumption DEF AuditTypes, Tick
    <3> QED  BY <2>0, <3>1 DEF AuditInv, AuditTypes, AuditRows, Snapshot, RecordsFirst, Unbegun, Recorded
  <2>3. ASSUME NEW o \in Audited,
               \/ StartClosed(o) \/ StartOpen(o) \/ Effect(o) \/ SelectLatest(o) \/ LockLatest(o)
               \/ Append1(o) \/ AnswerLost(o) \/ AppendFails(o) \/ Lost(o)
        PROVE  AuditInv'
    <3>1. /\ AuditRows' /\ late' \subseteq DOMAIN log' /\ log' \in Seq(AuditRow) /\ now' = now
          /\ Len(log) \in Nat /\ Len(log') \in Nat /\ Len(log) <= Len(log')
          /\ \A n \in 0..Len(log), i \in Nat : IsLatest(log, i, n) => IsLatest(log', i, n)
          /\ \A p \in Audited : p # o => (Recorded(p)' <=> Recorded(p))
      BY <2>3, LogSteps
    <3>2. op' \in [Audited -> OpRecord] /\ \A p \in Audited : p # o => op'[p] = op[p]
      BY <2>3, OpSteps
    <3>3. (Snapshot(o) /\ RecordsFirst(o) /\ Unbegun(o))'
      BY <2>3, OwnStep
    <3>4. ASSUME NEW p \in Audited, p # o PROVE (Snapshot(p) /\ RecordsFirst(p) /\ Unbegun(p))'
      <4>1. op'[p] = op[p] /\ (Recorded(p)' <=> Recorded(p)) /\ op[p] \in OpRecord
        BY <2>0, <3>1, <3>2, <3>4 DEF AuditTypes
      <4>2. Snapshot(p)'
        <5> SUFFICES ASSUME op[p].at \in {"lock", "insert"}
                     PROVE  op[p].seen \in 0..Len(log') /\ IsLatest(log', op[p].prev, op[p].seen)
          BY <4>1 DEF Snapshot
        <5>1. op[p].seen \in 0..Len(log) /\ IsLatest(log, op[p].prev, op[p].seen) /\ op[p].prev \in Nat
          BY <2>0, <4>1 DEF Snapshot, OpRecord
        <5> QED  BY <3>1, <5>1
      <4> QED  BY <2>0, <4>1, <4>2 DEF RecordsFirst, Unbegun
    <3>5. AuditTypes'
      BY <2>0, <3>1, <3>2 DEF AuditTypes
    <3> QED  BY <3>1, <3>3, <3>4, <3>5 DEF AuditInv
  <2> QED  BY <2>1, <2>2, <2>3 DEF AuditNext
<1> QED  BY <1>1, AuditStarts, PTL DEF AuditSpec

-----------------------------------------------------------------------------
\* Some number of a set of them is the least.
LEMMA LeastIs ==
  ASSUME NEW I \in SUBSET Nat, I # {}
  PROVE  \E x \in I : \A y \in I : x <= y
<1>1. PICK R : R = OpToRel(<, Nat)
  OBVIOUS
<1>2. IsWellFoundedOn(R, Nat)
  BY <1>1, NatLessThanWellFounded
<1>3. PICK x \in I : \A y \in I : <<y, x>> \notin R
  BY <1>2, WFMin
<1>4. \A y \in Nat, z \in Nat : y < z => <<y, z>> \in R
  BY <1>1 DEF OpToRel
<1>5. \A y \in I : ~(y < x)
  BY <1>3, <1>4
<1> QED  BY <1>5

\* A log without late rows is one chain by time.
LEMMA NoneLate == ASSUME AuditInv, late = {} PROVE Valid
<1>0. /\ log \in Seq(AuditRow) /\ DOMAIN log = 1..Len(log) /\ Len(log) \in Nat
      /\ \A i \in DOMAIN log : log[i] \in AuditRow /\ log[i].prev = i - 1
      /\ \A i \in DOMAIN log : \A j \in 1..i - 1 : Newer(log[i], log[j])
  BY DEF AuditInv, AuditTypes, AuditRows
<1> SUFFICES ASSUME NEW i \in DOMAIN log
             PROVE  IF InOrder(i) = {} THEN log[i].prev = Genesis
                    ELSE /\ log[i].prev \in InOrder(i)
                         /\ \A j \in InOrder(i) \ {log[i].prev} : Newer(log[log[i].prev], log[j])
  BY DEF Valid
<1>1. \A j \in DOMAIN log : j \in InOrder(i) <=> j \in 1..i - 1
  <2> TAKE j \in DOMAIN log
  <2>1. CASE j < i
    <3>1. j \in 1..i - 1
      BY <1>0, <2>1
    <3> QED  BY <1>0, <3>1 DEF InOrder
  <2>2. CASE j > i
    <3>1. i \in 1..j - 1
      BY <1>0, <2>2
    <3>2. Newer(log[j], log[i])
      BY <1>0, <3>1
    <3>3. ~Newer(log[i], log[j])
      BY <1>0, <3>2, NewerOrders
    <3> QED  BY <1>0, <2>2, <3>3 DEF InOrder
  <2>3. CASE j = i
    <3>1. ~Newer(log[i], log[i])
      BY <1>0, NewerOrders
    <3> QED  BY <1>0, <2>3, <3>1 DEF InOrder
  <2> QED  BY <1>0, <2>1, <2>2, <2>3
<1>2. InOrder(i) = 1..i - 1
  <2>1. InOrder(i) \subseteq DOMAIN log
    BY DEF InOrder
  <2>2. 1..i - 1 \subseteq DOMAIN log
    BY <1>0
  <2> QED  BY <1>1, <2>1, <2>2
<1>3. CASE i = 1
  BY <1>0, <1>2, <1>3 DEF Genesis
<1>4. CASE i # 1
  <2>1. i - 1 \in 1..i - 1 /\ i - 1 \in DOMAIN log /\ log[i].prev = i - 1
    BY <1>0, <1>4
  <2>2. ASSUME NEW j \in 1..i - 1, j # i - 1 PROVE Newer(log[i - 1], log[j])
    <3>1. j \in 1..(i - 1) - 1
      BY <1>0, <2>2
    <3> QED  BY <1>0, <2>1, <3>1
  <2> QED  BY <1>2, <2>1, <2>2
<1> QED  BY <1>3, <1>4

\* A late row breaks the chain: the first row that is newer than it should be on a row that
\* is newer too, and was before.
LEMMA SomeLate == ASSUME AuditInv, late # {} PROVE ~Valid
<1>0. /\ log \in Seq(AuditRow) /\ DOMAIN log = 1..Len(log) /\ Len(log) \in Nat /\ late \subseteq DOMAIN log
      /\ \A i \in DOMAIN log : log[i] \in AuditRow /\ log[i].prev \in 0..i - 1
      /\ \A i, j \in DOMAIN log : i # j => log[i].id # log[j].id
      /\ \A i \in DOMAIN log : i \in late <=> \E j \in 1..i - 1 : ~Newer(log[i], log[j])
  BY DEF AuditInv, AuditTypes, AuditRows
<1> SUFFICES ASSUME Valid PROVE FALSE
  OBVIOUS
<1>1. PICK i \in DOMAIN log : \E j \in 1..i - 1 : ~Newer(log[i], log[j])
  BY <1>0
<1> DEFINE Over == {j \in 1..i - 1 : ~Newer(log[i], log[j])}
<1>2. Over \in SUBSET Nat /\ Over # {}
  BY <1>0, <1>1
<1>3. PICK j \in Over : \A k \in Over : j <= k
  BY <1>2, LeastIs
<1>4. j \in 1..i - 1 /\ j \in DOMAIN log /\ i # j /\ ~Newer(log[i], log[j])
  BY <1>0, <1>3
<1>5. Newer(log[j], log[i])
  BY <1>0, <1>4, NewerOrders
<1>6. i \in InOrder(j)
  BY <1>4, <1>5 DEF InOrder
<1>7. /\ log[j].prev \in InOrder(j)
      /\ \A k \in InOrder(j) \ {log[j].prev} : Newer(log[log[j].prev], log[k])
  BY <1>4, <1>6 DEF Valid
<1> DEFINE p == log[j].prev
<1>8. p \in DOMAIN log /\ p \in 1..j - 1 /\ p # i
  BY <1>0, <1>4, <1>7 DEF InOrder
<1>9. Newer(log[p], log[i])
  BY <1>6, <1>7, <1>8
<1>10. p \notin Over
  <2> SUFFICES ASSUME p \in Over PROVE FALSE
    OBVIOUS
  <2>1. j <= p
    BY <1>3
  <2>2. p < j /\ p \in Nat /\ j \in Nat
    BY <1>0, <1>4, <1>8
  <2> HIDE DEF p
  <2> QED  BY <2>1, <2>2
<1>11. Newer(log[i], log[p])
  <2>1. p \in 1..i - 1
    BY <1>0, <1>4, <1>8
  <2> HIDE DEF p
  <2> QED  BY <1>10, <2>1
<1> QED  BY <1>0, <1>8, <1>9, <1>11, NewerOrders

\* However appenders interleave and fail, the verifier accepts the log exactly when every row
\* was the latest as it was committed, and nothing that records first takes effect unrecorded.
THEOREM AuditCorrect == AuditSpec => [](AuditTypeOK /\ AuditSound)
<1>1. AuditInv => AuditTypeOK /\ AuditSound
  <2> SUFFICES ASSUME AuditInv PROVE AuditTypeOK /\ AuditSound
    OBVIOUS
  <2>1. AuditTypeOK
    <3>1. /\ now \in 0..MaxNow /\ late \subseteq DOMAIN log /\ log \in Seq(AuditRow)
          /\ \A i \in DOMAIN log : log[i].prev \in 0..i - 1
      BY DEF AuditInv, AuditTypes, AuditRows
    <3>2. \A i \in DOMAIN log : log[i] \in AuditRow
      BY <3>1
    <3>3. \A i \in DOMAIN log : log[i].of \in Audited
      BY <3>2 DEF AuditRow
    <3> QED  BY <3>1, <3>3 DEF AuditTypeOK
  <2>2. Valid <=> late = {}
    BY NoneLate, SomeLate
  <2>3. ASSUME NEW o \in Audited, op[o].kind = "closed"
        PROVE  /\ op[o].done => Recorded(o)
               /\ Recorded(o) /\ ~op[o].done => op[o].at \in {"effect", "lost", "doubted"}
    <3>1. RecordsFirst(o) /\ op[o] \in OpRecord
      BY DEF AuditInv, AuditTypes
    <3> QED  BY <2>3, <3>1 DEF RecordsFirst, OpRecord
  <2> QED  BY <2>1, <2>2, <2>3 DEF AuditSound
<1> QED  BY <1>1, AuditInductive, PTL

-----------------------------------------------------------------------------
(* Retention.                                                              *)

CallRecord == [do : {"none", "assign", "write", "erase", "regulate", "legacy"},
               at : {"idle", "previous", "audit", "upsert", "log", "insert", "update", "look", "disable", "enable"},
               policy : Policies \cup {NoPolicy}, previous : Policies \cup {NoPolicy},
               row : Rows \cup {NoPolicy}, kind : Kinds \cup {NoPolicy}]

RowRecord == [there : BOOLEAN, class : Policies \cup {NoPolicy}, kind : Kinds \cup {NoPolicy}, born : Nat,
              content : {"none", "original", "edited", "erased"},
              sealed : {"none", "original", "edited", "erased"},
              gone : BOOLEAN, window : SUBSET Policies]

Assignments == [policy : Policies, previous : Policies \cup {NoPolicy}]

RetentionTypes ==
  /\ assigned \in Policies \cup {NoPolicy} /\ audited \subseteq Policies
  /\ assignment \in Seq(Assignments) /\ day \in 0..MaxDays
  /\ rec \in [Rows -> RowRecord]
  /\ flag \in [worm : BOOLEAN, regulated : BOOLEAN, legacy : BOOLEAN]
  /\ retentionCall \in [RetentionCalls -> CallRecord]
  /\ during \in [RetentionCalls -> SUBSET Policies]

\* What a call carries: a policy that was recorded before it was put in force, and the
\* policies a write has seen in force.
Carries(c) ==
  /\ retentionCall[c].do = "assign" => retentionCall[c].policy \in Policies
  /\ retentionCall[c].do = "assign" /\ retentionCall[c].at \in {"upsert", "log"} =>
       retentionCall[c].policy \in audited
  /\ retentionCall[c].do = "write" =>
       /\ retentionCall[c].policy \in Policies /\ retentionCall[c].policy \in during[c]
       /\ retentionCall[c].row \in Rows
  /\ retentionCall[c].do = "erase" => retentionCall[c].row \in Rows

AuditedFirst == assigned # NoPolicy => assigned \in audited

\* While assignments keep apart: the history links up, and ends with the policy in force or is
\* about to.
Linked == \A i \in DOMAIN assignment :
            assignment[i].previous = IF i = 1 THEN NoPolicy ELSE assignment[i - 1].policy

Assigning(c) == retentionCall[c].do = "assign"

HistoryLinks ==
  ~crossed =>
    /\ \A c, d \in RetentionCalls : c # d => ~(Assigning(c) /\ Assigning(d))
    /\ Linked
    /\ (\A c \in RetentionCalls : ~At(c, "assign", "log")) => Current = assigned
    /\ \A c \in RetentionCalls :
         /\ At(c, "assign", "audit") \/ At(c, "assign", "upsert") => retentionCall[c].previous = assigned
         /\ At(c, "assign", "log") => retentionCall[c].previous = Current /\ retentionCall[c].policy = assigned

\* A record keeps its class, goes past its floor only, and keeps under WORM what it had.
RowKept(r) ==
  rec[r].there \/ rec[r].gone =>
    /\ rec[r].class \in rec[r].window /\ rec[r].class \in Policies
    /\ rec[r].gone => Past(r)
    /\ (~flag.worm \/ ~Past(r)) => rec[r].content = rec[r].sealed

\* The calls on the gate to the path abroad.
Gates == {"regulate", "legacy"}

\* A regulated tenant has that path on while a call is turning it off, or by one of the two
\* breaches.
GateKept ==
  flag.regulated /\ flag.legacy /\ breach = "none" =>
    \E c \in RetentionCalls : retentionCall[c].do = "regulate"

RetentionInv ==
  /\ RetentionTypes
  /\ \A c \in RetentionCalls : Carries(c)
  /\ AuditedFirst
  /\ HistoryLinks
  /\ \A r \in Rows : RowKept(r)
  /\ GateKept

-----------------------------------------------------------------------------
\* A step of one call changes that call's record alone.
LEMMA OneCall ==
  ASSUME RetentionTypes, NEW c \in RetentionCalls, NEW x \in CallRecord,
         retentionCall' = [retentionCall EXCEPT ![c] = x]
  PROVE  /\ retentionCall' \in [RetentionCalls -> CallRecord] /\ retentionCall'[c] = x
         /\ \A d \in RetentionCalls \ {c} : retentionCall'[d] = retentionCall[d]
BY DEF RetentionTypes

\* A call at rest carries nothing.
LEMMA RestingRecord ==
  Resting \in CallRecord /\ Resting.do = "none" /\ Resting.at = "idle" /\ Resting.row = NoPolicy
BY DEF Resting, CallRecord

\* A call that rests again.
LEMMA RestEffect ==
  ASSUME RetentionTypes, NEW c \in RetentionCalls, Rest(c)
  PROVE  /\ retentionCall' \in [RetentionCalls -> CallRecord] /\ retentionCall'[c].do = "none"
         /\ \A d \in RetentionCalls \ {c} : retentionCall'[d] = retentionCall[d]
BY OneCall, RestingRecord DEF Rest

\* A call that goes on to its next statement.
LEMMA NextEffect ==
  ASSUME RetentionTypes, NEW c \in RetentionCalls, NEW at \in {"audit", "upsert", "log", "disable"}, Next1(c, at)
  PROVE  /\ retentionCall' \in [RetentionCalls -> CallRecord]
         /\ retentionCall'[c] = [retentionCall[c] EXCEPT !.at = at]
         /\ retentionCall'[c].do = retentionCall[c].do /\ retentionCall'[c].at = at
         /\ retentionCall'[c].policy = retentionCall[c].policy /\ retentionCall'[c].previous = retentionCall[c].previous
         /\ retentionCall'[c].row = retentionCall[c].row
         /\ \A d \in RetentionCalls \ {c} : retentionCall'[d] = retentionCall[d]
<1>1. retentionCall[c] \in CallRecord /\ retentionCall \in [RetentionCalls -> CallRecord]
  BY DEF RetentionTypes
<1>2. PICK x \in CallRecord : x = [retentionCall[c] EXCEPT !.at = at]
  BY <1>1 DEF CallRecord
<1>3. retentionCall' = [retentionCall EXCEPT ![c] = x]
  BY <1>1, <1>2 DEF Next1
<1>4. /\ x.do = retentionCall[c].do /\ x.at = at /\ x.policy = retentionCall[c].policy
      /\ x.previous = retentionCall[c].previous /\ x.row = retentionCall[c].row
  BY <1>1, <1>2 DEF CallRecord
<1> QED BY <1>2, <1>3, <1>4, OneCall

\* A call that begins was at rest.
LEMMA BeginsEffect ==
  ASSUME RetentionTypes, NEW c \in RetentionCalls, NEW x \in CallRecord, Begins(c, x)
  PROVE  /\ retentionCall[c].do = "none" /\ retentionCall'[c] = x
         /\ retentionCall' \in [RetentionCalls -> CallRecord]
         /\ \A d \in RetentionCalls \ {c} : retentionCall'[d] = retentionCall[d]
BY OneCall, RestingRecord DEF Begins

\* The records that calls begin with.
LEMMA BeginRecords ==
  /\ \A p \in Policies : LET x == [Resting EXCEPT !.do = "assign", !.at = "previous", !.policy = p] IN
       x \in CallRecord /\ x.do = "assign" /\ x.at = "previous" /\ x.policy = p
  /\ \A r \in Rows : LET x == [Resting EXCEPT !.do = "erase", !.at = "update", !.row = r] IN
       x \in CallRecord /\ x.do = "erase" /\ x.row = r
  /\ LET x == [Resting EXCEPT !.do = "regulate", !.at = "look"] IN x \in CallRecord /\ x.do = "regulate"
  /\ LET x == [Resting EXCEPT !.do = "legacy", !.at = "enable"] IN x \in CallRecord /\ x.do = "legacy"
<1>1. \A p \in Policies : LET x == [Resting EXCEPT !.do = "assign", !.at = "previous", !.policy = p] IN
       x \in CallRecord /\ x.do = "assign" /\ x.at = "previous" /\ x.policy = p
  BY DEF Resting, CallRecord
<1>3. \A r \in Rows : LET x == [Resting EXCEPT !.do = "erase", !.at = "update", !.row = r] IN
       x \in CallRecord /\ x.do = "erase" /\ x.row = r
  BY DEF Resting, CallRecord
<1>4. /\ LET x == [Resting EXCEPT !.do = "regulate", !.at = "look"] IN x \in CallRecord /\ x.do = "regulate"
      /\ LET x == [Resting EXCEPT !.do = "legacy", !.at = "enable"] IN x \in CallRecord /\ x.do = "legacy"
  BY DEF Resting, CallRecord
<1> QED BY <1>1, <1>3, <1>4

-----------------------------------------------------------------------------
\* What another call carries stays true of it, however policies come into force.
LEMMA OthersCarry ==
  ASSUME NEW c \in RetentionCalls, \A d \in RetentionCalls : Carries(d),
         \A d \in RetentionCalls \ {c} : retentionCall'[d] = retentionCall[d],
         audited \subseteq audited',
         \A d \in RetentionCalls \ {c} : retentionCall[d].do = "write" => during[d] \subseteq during'[d],
         Carries(c)'
  PROVE  \A d \in RetentionCalls : Carries(d)'
BY DEF Carries

\* A call that does not assign, or gives up before its log row, does not break the history.
LEMMA HistorySame ==
  ASSUME HistoryLinks, NEW c \in RetentionCalls, UNCHANGED <<assigned, assignment>>,
         \A d \in RetentionCalls \ {c} : retentionCall'[d] = retentionCall[d],
         crossed => crossed', ~Assigning(c)',
         ~crossed' => ~At(c, "assign", "log")
  PROVE  HistoryLinks'
<1> SUFFICES ASSUME ~crossed' PROVE HistoryLinks'
  BY DEF HistoryLinks
<1>1. /\ \A d, e \in RetentionCalls : d # e => ~(Assigning(d) /\ Assigning(e))
      /\ Linked
      /\ (\A d \in RetentionCalls : ~At(d, "assign", "log")) => Current = assigned
      /\ \A d \in RetentionCalls :
           /\ At(d, "assign", "audit") \/ At(d, "assign", "upsert") => retentionCall[d].previous = assigned
           /\ At(d, "assign", "log") => retentionCall[d].previous = Current /\ retentionCall[d].policy = assigned
  BY DEF HistoryLinks
<1>2. Linked' /\ Current' = Current
  BY <1>1 DEF Linked, Current
<1>3. \A at : \A d \in RetentionCalls \ {c} : At(d, "assign", at)' <=> At(d, "assign", at)
  BY DEF At
<1>4. \A at : ~At(c, "assign", at)'
  BY DEF At, Assigning
<1>5. \A d, e \in RetentionCalls : d # e => ~(Assigning(d) /\ Assigning(e))'
  BY <1>1 DEF Assigning
<1>6. (\A d \in RetentionCalls : ~At(d, "assign", "log"))' => Current' = assigned'
  BY <1>1, <1>2, <1>3
<1>7. \A d \in RetentionCalls :
        /\ At(d, "assign", "audit")' \/ At(d, "assign", "upsert")' => retentionCall'[d].previous = assigned'
        /\ At(d, "assign", "log")' => retentionCall'[d].previous = Current' /\ retentionCall'[d].policy = assigned'
  BY <1>1, <1>2, <1>3, <1>4
<1> QED BY <1>2, <1>5, <1>6, <1>7 DEF HistoryLinks

\* A call that does not leave the gate open behind it keeps the gate.
LEMMA GateSame ==
  ASSUME GateKept, NEW c \in RetentionCalls, flag'.regulated = flag.regulated, flag'.legacy = flag.legacy,
         breach' = breach, \A d \in RetentionCalls \ {c} : retentionCall'[d] = retentionCall[d],
         retentionCall[c].do # "regulate" \/ retentionCall'[c].do = "regulate" \/ ~flag.regulated \/ ~flag.legacy
  PROVE  GateKept'
BY DEF GateKept

\* Time passes and calls move; a record that is not touched keeps what is said of it.
LEMMA RowSame ==
  ASSUME RetentionTypes, NEW r \in Rows, RowKept(r), rec'[r] = rec[r], flag'.worm = flag.worm,
         day' \in Nat, day <= day'
  PROVE  RowKept(r)'
<1>1. rec[r] \in RowRecord /\ day \in Nat
  BY RetentionAssumption DEF RetentionTypes
<1>2. ASSUME rec[r].there \/ rec[r].gone PROVE Past(r) => Past(r)'
  <2>1. rec[r].class \in Policies /\ FloorOf[rec[r].class] \in Nat /\ rec[r].born \in Nat
    BY <1>1, <1>2, RetentionAssumption DEF RowKept, RowRecord
  <2> QED BY <1>1, <2>1 DEF Past
<1> QED BY <1>2 DEF RowKept

-----------------------------------------------------------------------------
\* The steps of calls that change nothing but the call.
LEMMA CallOnly ==
  ASSUME RetentionInv, NEW c \in RetentionCalls,
         UNCHANGED <<assigned, assignment, audited, rec, flag, day, during>>,
         retentionCall' \in [RetentionCalls -> CallRecord],
         \A d \in RetentionCalls \ {c} : retentionCall'[d] = retentionCall[d],
         Carries(c)', HistoryLinks', GateKept'
  PROVE  RetentionInv'
<1>1. RetentionTypes'
  BY DEF RetentionInv, RetentionTypes
<1>2. \A d \in RetentionCalls : Carries(d)'
  BY OthersCarry DEF RetentionInv
<1>3. AuditedFirst'
  BY DEF RetentionInv, AuditedFirst
<1>4. \A r \in Rows : RowKept(r)'
  BY DEF RetentionInv, RowKept, Past
<1> QED BY <1>1, <1>2, <1>3, <1>4 DEF RetentionInv

\* assignRetentionPolicyToTenant, from its start to its audit record.
LEMMA AssignBegins ==
  ASSUME RetentionInv, NEW c \in RetentionCalls,
         (\E p \in Policies : StartAssign(c, p)) \/ ReadPrevious(c)
  PROVE  RetentionInv'
<1>0. RetentionTypes /\ HistoryLinks /\ GateKept /\ retentionCall[c] \in CallRecord /\ Carries(c)
      /\ assigned \in Policies \cup {NoPolicy}
  BY DEF RetentionInv, RetentionTypes
<1>1. CASE \E p \in Policies : StartAssign(c, p)
  <2>1. PICK p \in Policies : StartAssign(c, p)
    BY <1>1
  <2>2. PICK x : x = [Resting EXCEPT !.do = "assign", !.at = "previous", !.policy = p]
    OBVIOUS
  <2>3. x \in CallRecord /\ x.do = "assign" /\ x.at = "previous" /\ x.policy = p
    BY <2>2, BeginRecords
  <2>4. /\ Begins(c, x) /\ crossed' = (crossed \/ \E d \in RetentionCalls : retentionCall[d].do = "assign")
        /\ UNCHANGED <<assigned, assignment, audited, rec, flag, day, during, breach>>
    BY <2>1, <2>2 DEF StartAssign
  <2>5. /\ retentionCall[c].do = "none" /\ retentionCall'[c] = x
        /\ retentionCall' \in [RetentionCalls -> CallRecord]
        /\ \A d \in RetentionCalls \ {c} : retentionCall'[d] = retentionCall[d]
    BY <1>0, <2>3, <2>4, BeginsEffect
  <2>6. (crossed => crossed') /\ (~crossed' => \A d \in RetentionCalls \ {c} : ~Assigning(d))
    BY <2>4 DEF Assigning
  <2>7. Carries(c)'
    BY <2>3, <2>5 DEF Carries
  <2>8. GateKept'
    BY <1>0, <2>4, <2>5, GateSame
  <2>9. HistoryLinks'
    <3> SUFFICES ASSUME ~crossed' PROVE HistoryLinks'
      BY DEF HistoryLinks
    <3>1. \A d \in RetentionCalls : ~Assigning(d)
      BY <2>5, <2>6 DEF Assigning
    <3>2. \A d \in RetentionCalls \ {c} : ~Assigning(d)'
      BY <2>5, <3>1 DEF Assigning
    <3>3. ~crossed /\ \A d \in RetentionCalls : ~At(d, "assign", "log")
      BY <2>6, <3>1 DEF At, Assigning
    <3>4. Linked /\ Current = assigned
      BY <1>0, <3>3 DEF HistoryLinks
    <3>7. Linked' /\ Current' = assigned'
      BY <2>4, <3>4 DEF Linked, Current
    <3>5. \A d \in RetentionCalls : ~At(d, "assign", "audit")' /\ ~At(d, "assign", "upsert")' /\ ~At(d, "assign", "log")'
      BY <2>3, <2>5, <3>2 DEF At, Assigning
    <3>6. \A d, e \in RetentionCalls : d # e => ~(Assigning(d) /\ Assigning(e))'
      BY <3>2
    <3> QED BY <3>5, <3>6, <3>7 DEF HistoryLinks
  <2> QED BY <2>4, <2>5, <2>7, <2>8, <2>9, CallOnly
<1>2. CASE ReadPrevious(c)
  <2>1. PICK x \in CallRecord : x = [retentionCall[c] EXCEPT !.at = "audit", !.previous = assigned]
    BY <1>0 DEF CallRecord
  <2>2. /\ retentionCall' = [retentionCall EXCEPT ![c] = x] /\ At(c, "assign", "previous")
        /\ UNCHANGED <<assigned, assignment, audited, rec, flag, day, during, crossed, breach>>
    BY <1>0, <1>2, <2>1 DEF ReadPrevious, RetentionTypes
  <2>3. x.do = "assign" /\ x.at = "audit" /\ x.policy = retentionCall[c].policy /\ x.previous = assigned
    BY <1>0, <2>1, <2>2 DEF CallRecord, At
  <2>4. /\ retentionCall' \in [RetentionCalls -> CallRecord] /\ retentionCall'[c] = x
        /\ \A d \in RetentionCalls \ {c} : retentionCall'[d] = retentionCall[d]
    BY <1>0, <2>2, OneCall
  <2>5. Carries(c)'
    BY <1>0, <2>2, <2>3, <2>4 DEF Carries, At
  <2>6. GateKept'
    BY <1>0, <2>2, <2>3, <2>4, GateSame DEF At
  <2>7. HistoryLinks'
    <3> SUFFICES ASSUME ~crossed' PROVE HistoryLinks'
      BY DEF HistoryLinks
    <3>1. /\ \A d, e \in RetentionCalls : d # e => ~(Assigning(d) /\ Assigning(e))
          /\ Linked /\ Assigning(c)
      BY <1>0, <2>2 DEF HistoryLinks, At, Assigning
    <3>2. \A d \in RetentionCalls \ {c} : ~Assigning(d) /\ ~Assigning(d)'
      BY <2>4, <3>1 DEF Assigning
    <3>3. Current = assigned
      BY <1>0, <2>2, <3>2 DEF HistoryLinks, At, Assigning
    <3>4. Linked' /\ Current' = assigned'
      BY <2>2, <3>1, <3>3 DEF Linked, Current
    <3>5. \A d \in RetentionCalls :
            /\ At(d, "assign", "audit")' \/ At(d, "assign", "upsert")' => retentionCall'[d].previous = assigned'
            /\ ~At(d, "assign", "log")'
      BY <2>2, <2>3, <2>4, <3>2 DEF At, Assigning
    <3>6. \A d, e \in RetentionCalls : d # e => ~(Assigning(d) /\ Assigning(e))'
      BY <3>2
    <3> QED BY <3>4, <3>5, <3>6 DEF HistoryLinks
  <2> QED BY <2>2, <2>4, <2>5, <2>6, <2>7, CallOnly
<1> QED BY <1>1, <1>2

\* The audit record comes first, or the call ends.
LEMMA AuditAssignKeeps ==
  ASSUME RetentionInv, NEW c \in RetentionCalls, AuditAssign(c)
  PROVE  RetentionInv'
<1>0. RetentionTypes /\ HistoryLinks /\ GateKept /\ retentionCall[c] \in CallRecord /\ Carries(c)
  BY DEF RetentionInv, RetentionTypes
<1>1. /\ At(c, "assign", "audit") /\ UNCHANGED <<assigned, assignment, rec, flag, day, during, crossed, breach>>
      /\ retentionCall[c].policy \in Policies
  BY <1>0 DEF AuditAssign, At, Carries
<1>2. CASE Rest(c) /\ UNCHANGED audited
  <2>1. /\ retentionCall' \in [RetentionCalls -> CallRecord] /\ retentionCall'[c].do = "none"
        /\ \A d \in RetentionCalls \ {c} : retentionCall'[d] = retentionCall[d]
    BY <1>0, <1>2, RestEffect
  <2>2. Carries(c)' /\ ~Assigning(c)' /\ ~At(c, "assign", "log")
    BY <1>1, <2>1 DEF Carries, Assigning, At
  <2>3. HistoryLinks'
    BY <1>0, <1>1, <2>1, <2>2, HistorySame
  <2>4. GateKept'
    BY <1>0, <1>1, <2>1, GateSame DEF At
  <2> QED BY <1>1, <1>2, <2>1, <2>2, <2>3, <2>4, CallOnly
<1>3. CASE audited' = audited \cup {retentionCall[c].policy} /\ Next1(c, "upsert")
  <2>1. /\ retentionCall' \in [RetentionCalls -> CallRecord]
        /\ retentionCall'[c].do = "assign" /\ retentionCall'[c].at = "upsert"
        /\ retentionCall'[c].policy = retentionCall[c].policy
        /\ retentionCall'[c].previous = retentionCall[c].previous
        /\ \A d \in RetentionCalls \ {c} : retentionCall'[d] = retentionCall[d]
    BY <1>0, <1>1, <1>3, NextEffect DEF At
  <2>2. audited' \subseteq Policies /\ audited \subseteq audited'
    BY <1>0, <1>1, <1>3 DEF RetentionTypes
  <2>3. Carries(c)'
    BY <1>1, <1>3, <2>1 DEF Carries
  <2>4. \A d \in RetentionCalls : Carries(d)'
    BY <1>1, <2>1, <2>2, <2>3, OthersCarry DEF RetentionInv
  <2>5. RetentionTypes' /\ AuditedFirst'
    BY <1>0, <1>1, <2>1, <2>2 DEF RetentionTypes, RetentionInv, AuditedFirst
  <2>6. \A r \in Rows : RowKept(r)'
    BY <1>1 DEF RetentionInv, RowKept, Past
  <2>7. GateKept'
    BY <1>0, <1>1, <2>1, GateSame DEF At
  <2>8. HistoryLinks'
    <3> SUFFICES ASSUME ~crossed' PROVE HistoryLinks'
      BY DEF HistoryLinks
    <3>1. /\ \A d, e \in RetentionCalls : d # e => ~(Assigning(d) /\ Assigning(e))
          /\ Linked /\ Assigning(c) /\ retentionCall[c].previous = assigned
      BY <1>0, <1>1 DEF HistoryLinks, At, Assigning
    <3>2. \A d \in RetentionCalls \ {c} : ~Assigning(d) /\ ~Assigning(d)'
      BY <2>1, <3>1 DEF Assigning
    <3>3. Current = assigned
      BY <1>0, <1>1, <3>2 DEF HistoryLinks, At, Assigning
    <3>4. Linked' /\ Current' = assigned'
      BY <1>1, <3>1, <3>3 DEF Linked, Current
    <3>5. \A d \in RetentionCalls :
            /\ At(d, "assign", "audit")' \/ At(d, "assign", "upsert")' => retentionCall'[d].previous = assigned'
            /\ ~At(d, "assign", "log")'
      BY <1>1, <2>1, <3>1, <3>2 DEF At, Assigning
    <3>6. \A d, e \in RetentionCalls : d # e => ~(Assigning(d) /\ Assigning(e))'
      BY <3>2
    <3> QED BY <3>4, <3>5, <3>6 DEF HistoryLinks
  <2> QED BY <2>4, <2>5, <2>6, <2>7, <2>8 DEF RetentionInv
<1> QED BY <1>2, <1>3 DEF AuditAssign

\* The policy comes into force; every write under way has seen it.
LEMMA UpsertKeeps ==
  ASSUME RetentionInv, NEW c \in RetentionCalls, UpsertAssigned(c)
  PROVE  RetentionInv'
<1>0. RetentionTypes /\ HistoryLinks /\ GateKept /\ retentionCall[c] \in CallRecord /\ Carries(c)
  BY DEF RetentionInv, RetentionTypes
<1>1. /\ At(c, "assign", "upsert") /\ UNCHANGED <<assignment, audited, rec, flag, day, crossed, breach>>
      /\ retentionCall[c].policy \in Policies /\ retentionCall[c].policy \in audited
      /\ assigned' = retentionCall[c].policy
  BY <1>0 DEF UpsertAssigned, At, Carries
<1>2. /\ retentionCall' \in [RetentionCalls -> CallRecord]
      /\ retentionCall'[c].do = "assign" /\ retentionCall'[c].at = "log"
      /\ retentionCall'[c].policy = retentionCall[c].policy
      /\ retentionCall'[c].previous = retentionCall[c].previous
      /\ \A d \in RetentionCalls \ {c} : retentionCall'[d] = retentionCall[d]
  BY <1>0, <1>1, NextEffect DEF At, UpsertAssigned
<1>3. during' \in [RetentionCalls -> SUBSET Policies]
      /\ \A d \in RetentionCalls : retentionCall[d].do = "write" => during[d] \subseteq during'[d]
  BY <1>0, <1>1 DEF UpsertAssigned, RetentionTypes
<1>4. Carries(c)'
  BY <1>1, <1>2 DEF Carries
<1>5. \A d \in RetentionCalls : Carries(d)'
  BY <1>1, <1>2, <1>3, <1>4, OthersCarry DEF RetentionInv
<1>6. RetentionTypes' /\ AuditedFirst'
  BY <1>0, <1>1, <1>2, <1>3 DEF RetentionTypes, AuditedFirst
<1>7. \A r \in Rows : RowKept(r)'
  BY <1>1 DEF RetentionInv, RowKept, Past
<1>8. GateKept'
  BY <1>0, <1>1, <1>2, GateSame DEF At
<1>9. HistoryLinks'
  <2> SUFFICES ASSUME ~crossed' PROVE HistoryLinks'
    BY DEF HistoryLinks
  <2>1. /\ \A d, e \in RetentionCalls : d # e => ~(Assigning(d) /\ Assigning(e))
        /\ Linked /\ Assigning(c) /\ retentionCall[c].previous = assigned
    BY <1>0, <1>1 DEF HistoryLinks, At, Assigning
  <2>2. \A d \in RetentionCalls \ {c} : ~Assigning(d) /\ ~Assigning(d)'
    BY <1>2, <2>1 DEF Assigning
  <2>3. Current = assigned
    BY <1>0, <1>1, <2>2 DEF HistoryLinks, At, Assigning
  <2>4. Linked' /\ Current' = Current
    BY <1>1, <2>1 DEF Linked, Current
  <2>5. At(c, "assign", "log")' /\ ~At(c, "assign", "audit")' /\ ~At(c, "assign", "upsert")'
    BY <1>2 DEF At
  <2>6. \A d \in RetentionCalls \ {c} : \A at : ~At(d, "assign", at)'
    BY <2>2 DEF At, Assigning
  <2>7. retentionCall'[c].previous = Current' /\ retentionCall'[c].policy = assigned'
    BY <1>1, <1>2, <2>1, <2>3, <2>4
  <2>8. \A d, e \in RetentionCalls : d # e => ~(Assigning(d) /\ Assigning(e))'
    BY <2>2
  <2> QED BY <2>4, <2>5, <2>6, <2>7, <2>8 DEF HistoryLinks
<1> QED BY <1>5, <1>6, <1>7, <1>8, <1>9 DEF RetentionInv

\* The row of the history names the policy before and the one in force.
LEMMA LogKeeps ==
  ASSUME RetentionInv, NEW c \in RetentionCalls, LogAssignment(c)
  PROVE  RetentionInv'
<1>0. /\ RetentionTypes /\ HistoryLinks /\ GateKept /\ retentionCall[c] \in CallRecord /\ Carries(c)
      /\ assignment \in Seq(Assignments)
  BY DEF RetentionInv, RetentionTypes
<1>1. /\ At(c, "assign", "log") /\ UNCHANGED <<assigned, audited, rec, flag, day, during, crossed, breach>>
      /\ retentionCall[c].policy \in Policies
  BY <1>0 DEF LogAssignment, At, Carries
<1>2. PICK x \in Assignments : x = [policy |-> retentionCall[c].policy, previous |-> retentionCall[c].previous]
  BY <1>0, <1>1 DEF Assignments, CallRecord
<1>3. assignment' = Append(assignment, x) /\ x.policy = retentionCall[c].policy /\ x.previous = retentionCall[c].previous
  BY <1>2 DEF LogAssignment
<1>4. /\ assignment' \in Seq(Assignments) /\ assignment' # <<>> /\ Len(assignment') = Len(assignment) + 1
      /\ assignment'[Len(assignment) + 1] = x /\ \A i \in 1..Len(assignment) : assignment'[i] = assignment[i]
      /\ Len(assignment) \in Nat
  BY <1>0, <1>3
<1>5. /\ retentionCall' \in [RetentionCalls -> CallRecord] /\ retentionCall'[c].do = "none"
      /\ \A d \in RetentionCalls \ {c} : retentionCall'[d] = retentionCall[d]
  BY <1>0, RestEffect DEF LogAssignment
<1>6. Carries(c)' /\ ~Assigning(c)'
  BY <1>5 DEF Carries, Assigning
<1>7. \A d \in RetentionCalls : Carries(d)'
  BY <1>1, <1>5, <1>6, OthersCarry DEF RetentionInv
<1>8. RetentionTypes' /\ AuditedFirst' /\ \A r \in Rows : RowKept(r)'
  BY <1>0, <1>1, <1>4, <1>5 DEF RetentionTypes, RetentionInv, AuditedFirst, RowKept, Past
<1>9. GateKept'
  BY <1>0, <1>1, <1>5, GateSame DEF At
<1>10. HistoryLinks'
  <2> SUFFICES ASSUME ~crossed' PROVE HistoryLinks'
    BY DEF HistoryLinks
  <2>1. /\ \A d, e \in RetentionCalls : d # e => ~(Assigning(d) /\ Assigning(e))
        /\ Linked /\ Assigning(c) /\ retentionCall[c].previous = Current /\ retentionCall[c].policy = assigned
    BY <1>0, <1>1 DEF HistoryLinks, At, Assigning
  <2>2. \A d \in RetentionCalls : ~Assigning(d)'
    BY <1>5, <1>6, <2>1 DEF Assigning
  <2>3. \A d \in RetentionCalls : \A at : ~At(d, "assign", at)'
    BY <2>2 DEF At, Assigning
  <2>4. Current' = assigned'
    BY <1>1, <1>3, <1>4, <2>1 DEF Current
  <2>5. Linked'
    <3> SUFFICES ASSUME NEW i \in DOMAIN assignment'
                 PROVE  assignment'[i].previous = IF i = 1 THEN NoPolicy ELSE assignment'[i - 1].policy
      BY DEF Linked
    <3>1. i \in 1..(Len(assignment) + 1)
      BY <1>4
    <3>2. CASE i = Len(assignment) + 1
      <4>1. assignment'[i].previous = Current
        BY <1>3, <1>4, <2>1, <3>2
      <4>2. CASE assignment = <<>>
        BY <3>2, <4>1, <4>2 DEF Current
      <4>3. CASE assignment # <<>>
        <5>1. Len(assignment) \in 1..Len(assignment) /\ i - 1 = Len(assignment) /\ i # 1
          BY <1>0, <1>4, <3>2, <4>3
        <5> QED BY <1>4, <4>1, <4>3, <5>1 DEF Current
      <4> QED BY <4>2, <4>3
    <3>3. CASE i # Len(assignment) + 1
      <4>1. i \in 1..Len(assignment) /\ (i # 1 => i - 1 \in 1..Len(assignment)) /\ i \in DOMAIN assignment
        BY <1>0, <1>4, <3>1, <3>3
      <4> QED BY <1>4, <2>1, <4>1 DEF Linked
    <3> QED BY <3>2, <3>3
  <2> QED BY <2>2, <2>3, <2>4, <2>5 DEF HistoryLinks
<1> QED BY <1>7, <1>8, <1>9, <1>10 DEF RetentionInv

-----------------------------------------------------------------------------
\* What concerns no call: a row that is deleted or edited, WORM mode, a day.
LEMMA QuietKeeps ==
  ASSUME RetentionInv, UNCHANGED <<assigned, assignment, audited, retentionCall, crossed, during>>,
         rec' \in [Rows -> RowRecord], flag' \in [worm : BOOLEAN, regulated : BOOLEAN, legacy : BOOLEAN],
         day' \in 0..MaxDays, flag'.regulated => flag.regulated, flag'.legacy => flag.legacy,
         breach' = breach \/ ~flag'.regulated \/ ~flag'.legacy,
         \A r \in Rows : RowKept(r)'
  PROVE  RetentionInv'
<1>1. RetentionTypes'
  BY DEF RetentionInv, RetentionTypes
<1>2. (\A c \in RetentionCalls : Carries(c))' /\ AuditedFirst'
  BY DEF RetentionInv, Carries, AuditedFirst
<1>3. HistoryLinks'
  BY DEF RetentionInv, HistoryLinks, At, Linked, Current, Assigning
<1>4. GateKept'
  BY DEF RetentionInv, GateKept
<1> QED BY <1>1, <1>2, <1>3, <1>4 DEF RetentionInv

\* Overrides, a day, WORM mode, the end of regulation and of the legacy path.
LEMMA SettingsKeep ==
  ASSUME RetentionInv,
         \/ \E p \in Policies, k \in Kinds, f \in OverrideFloors : SetOverride(p, k, f)
         \/ DayPasses \/ EnableWormMode \/ Deregulate \/ TurnLegacyOff
  PROVE  RetentionInv'
<1>0. RetentionTypes /\ day \in Nat /\ \A r \in Rows : RowKept(r)
  BY RetentionAssumption DEF RetentionInv, RetentionTypes
<1>1. CASE \E p \in Policies, k \in Kinds, f \in OverrideFloors : SetOverride(p, k, f)
  <2>1. UNCHANGED <<assigned, assignment, audited, rec, flag, day, retentionCall, crossed, during, breach>>
    BY <1>1 DEF SetOverride
  <2>2. \A r \in Rows : RowKept(r)'
    BY <1>0, <2>1 DEF RowKept, Past
  <2> QED BY <1>0, <2>1, <2>2, QuietKeeps DEF RetentionTypes
<1>2. CASE DayPasses
  <2>1. /\ UNCHANGED <<assigned, assignment, audited, rec, flag, retentionCall, crossed, during, breach>>
        /\ day' \in 0..MaxDays /\ day' \in Nat /\ day <= day'
    BY <1>0, <1>2, RetentionAssumption DEF DayPasses, RetentionTypes
  <2>2. \A r \in Rows : RowKept(r)'
    BY <1>0, <2>1, RowSame
  <2> QED BY <1>0, <2>1, <2>2, QuietKeeps DEF RetentionTypes
<1>3. CASE EnableWormMode
  <2>1. /\ UNCHANGED <<assigned, assignment, audited, rec, day, retentionCall, crossed, during, breach>>
        /\ flag' = [flag EXCEPT !.worm = TRUE] /\ ~flag.worm
        /\ flag \in [worm : BOOLEAN, regulated : BOOLEAN, legacy : BOOLEAN]
    BY <1>0, <1>3 DEF EnableWormMode, RetentionTypes
  <2>2. /\ flag' \in [worm : BOOLEAN, regulated : BOOLEAN, legacy : BOOLEAN]
        /\ flag'.regulated = flag.regulated /\ flag'.legacy = flag.legacy
    BY <2>1
  <2>3. \A r \in Rows : RowKept(r)'
    BY <1>0, <2>1 DEF RowKept, Past
  <2> QED BY <1>0, <2>1, <2>2, <2>3, QuietKeeps DEF RetentionTypes
<1>4. CASE Deregulate
  <2>1. /\ UNCHANGED <<assigned, assignment, audited, rec, day, retentionCall, crossed, during>>
        /\ flag' = [flag EXCEPT !.regulated = FALSE] /\ flag.regulated
        /\ flag \in [worm : BOOLEAN, regulated : BOOLEAN, legacy : BOOLEAN]
    BY <1>0, <1>4 DEF Deregulate, RetentionTypes
  <2>2. /\ flag' \in [worm : BOOLEAN, regulated : BOOLEAN, legacy : BOOLEAN]
        /\ flag'.worm = flag.worm /\ ~flag'.regulated /\ flag'.legacy = flag.legacy
    BY <2>1
  <2>3. \A r \in Rows : RowKept(r)'
    BY <1>0, <2>1, <2>2 DEF RowKept, Past
  <2> QED BY <1>0, <2>1, <2>2, <2>3, QuietKeeps DEF RetentionTypes
<1>5. CASE TurnLegacyOff
  <2>1. /\ UNCHANGED <<assigned, assignment, audited, rec, day, retentionCall, crossed, during>>
        /\ flag' = [flag EXCEPT !.legacy = FALSE] /\ flag.legacy
        /\ flag \in [worm : BOOLEAN, regulated : BOOLEAN, legacy : BOOLEAN]
    BY <1>0, <1>5 DEF TurnLegacyOff, RetentionTypes
  <2>2. /\ flag' \in [worm : BOOLEAN, regulated : BOOLEAN, legacy : BOOLEAN]
        /\ flag'.worm = flag.worm /\ ~flag'.legacy /\ flag'.regulated = flag.regulated
    BY <2>1
  <2>3. \A r \in Rows : RowKept(r)'
    BY <1>0, <2>1, <2>2 DEF RowKept, Past
  <2> QED BY <1>0, <2>1, <2>2, <2>3, QuietKeeps DEF RetentionTypes
<1> QED BY <1>1, <1>2, <1>3, <1>4, <1>5

\* The triggers: a row goes past its floor only, and is edited under WORM then only.
LEMMA TriggersKeep ==
  ASSUME RetentionInv, NEW r \in Rows, GuardDelete(r) \/ Update(r)
  PROVE  RetentionInv'
<1>0. /\ RetentionTypes /\ (\A s \in Rows : RowKept(s)) /\ rec[r] \in RowRecord
      /\ rec \in [Rows -> RowRecord]
      /\ flag \in [worm : BOOLEAN, regulated : BOOLEAN, legacy : BOOLEAN]
  BY DEF RetentionInv, RetentionTypes
<1>1. CASE GuardDelete(r)
  <2>1. PICK x \in RowRecord : x = [rec[r] EXCEPT !.there = FALSE, !.gone = TRUE]
    BY <1>0 DEF RowRecord
  <2>2. /\ UNCHANGED <<assigned, assignment, audited, flag, day, retentionCall, crossed, during, breach>>
        /\ rec[r].there /\ Past(r) /\ rec' = [rec EXCEPT ![r] = x]
    BY <1>0, <1>1, <2>1 DEF GuardDelete
  <2>3. /\ x.class = rec[r].class /\ x.window = rec[r].window /\ x.born = rec[r].born
        /\ x.content = rec[r].content /\ x.sealed = rec[r].sealed
    BY <1>0, <2>1 DEF RowRecord
  <2>4. rec' \in [Rows -> RowRecord] /\ rec'[r] = x /\ \A s \in Rows \ {r} : rec'[s] = rec[s]
    BY <1>0, <2>2
  <2>5. RowKept(r)'
    BY <1>0, <2>2, <2>3, <2>4 DEF RowKept, Past
  <2>6. \A s \in Rows \ {r} : RowKept(s)'
    BY <1>0, <2>2, <2>4 DEF RowKept, Past
  <2> QED BY <1>0, <2>2, <2>4, <2>5, <2>6, QuietKeeps DEF RetentionTypes
<1>2. CASE Update(r)
  <2>1. PICK x \in RowRecord :
          x = [rec[r] EXCEPT !.content = "edited", !.sealed = IF flag.worm THEN @ ELSE "edited"]
    BY <1>0 DEF RowRecord
  <2>2. /\ UNCHANGED <<assigned, assignment, audited, flag, day, retentionCall, crossed, during, breach>>
        /\ rec[r].there /\ Mutable(r) /\ rec' = [rec EXCEPT ![r] = x]
    BY <1>0, <1>2, <2>1 DEF Update
  <2>3. /\ x.class = rec[r].class /\ x.window = rec[r].window /\ x.born = rec[r].born
        /\ x.gone = rec[r].gone /\ x.there = rec[r].there
        /\ x.content = "edited" /\ (~flag.worm => x.sealed = "edited")
    BY <1>0, <2>1 DEF RowRecord
  <2>4. rec' \in [Rows -> RowRecord] /\ rec'[r] = x /\ \A s \in Rows \ {r} : rec'[s] = rec[s]
    BY <1>0, <2>2
  <2>5. Past(r)' <=> Past(r)
    BY <2>2, <2>3, <2>4 DEF Past
  <2>6. RowKept(r)'
    BY <1>0, <2>2, <2>3, <2>4, <2>5 DEF RowKept, Mutable
  <2>7. \A s \in Rows \ {r} : RowKept(s)'
    BY <1>0, <2>2, <2>4 DEF RowKept, Past
  <2> QED BY <1>0, <2>2, <2>4, <2>6, <2>7, QuietKeeps DEF RetentionTypes
<1> QED BY <1>1, <1>2

-----------------------------------------------------------------------------
\* A call that is neither an assignment nor on the gate, before its step and after it, may
\* have changed a record, and what it has seen of the policies in force.
LEMMA WriterKeeps ==
  ASSUME RetentionInv, NEW c \in RetentionCalls,
         UNCHANGED <<assigned, assignment, audited, flag, day, crossed, breach>>,
         retentionCall' \in [RetentionCalls -> CallRecord],
         \A d \in RetentionCalls \ {c} : retentionCall'[d] = retentionCall[d],
         ~Assigning(c), ~Assigning(c)', retentionCall[c].do \notin Gates, retentionCall'[c].do \notin Gates,
         during' \in [RetentionCalls -> SUBSET Policies],
         \A d \in RetentionCalls \ {c} : during'[d] = during[d],
         rec' \in [Rows -> RowRecord], \A r \in Rows : RowKept(r)', Carries(c)'
  PROVE  RetentionInv'
<1>1. RetentionTypes'
  BY DEF RetentionInv, RetentionTypes
<1>2. \A d \in RetentionCalls : Carries(d)'
  BY OthersCarry DEF RetentionInv
<1>3. AuditedFirst'
  BY DEF RetentionInv, AuditedFirst
<1>4. HistoryLinks'
  BY HistorySame DEF RetentionInv, At, Assigning
<1>5. GateKept'
  BY GateSame DEF RetentionInv, Gates
<1> QED BY <1>1, <1>2, <1>3, <1>4, <1>5 DEF RetentionInv

\* writeEmailWithRetention, writeCorpusChunkWithRetention: the class of the row is a policy
\* that was in force while it was written.
LEMMA WritesKeep ==
  ASSUME RetentionInv, NEW c \in RetentionCalls,
         \/ \E r \in Rows, k \in Kinds : LookUpDefault(c, r, k)
         \/ \E k \in Kinds : InsertUnder(c, k)
  PROVE  RetentionInv'
<1>0. /\ RetentionTypes /\ (\A s \in Rows : RowKept(s)) /\ Carries(c) /\ retentionCall[c] \in CallRecord
      /\ rec \in [Rows -> RowRecord] /\ during \in [RetentionCalls -> SUBSET Policies]
      /\ assigned \in Policies \cup {NoPolicy} /\ day \in Nat
  BY RetentionAssumption DEF RetentionInv, RetentionTypes
<1>1. CASE \E r \in Rows, k \in Kinds : LookUpDefault(c, r, k)
  <2>1. PICK r \in Rows, k \in Kinds : LookUpDefault(c, r, k)
    BY <1>1
  <2>2. PICK x : x = [Resting EXCEPT !.do = "write", !.at = "insert", !.row = r, !.policy = assigned, !.kind = k]
    OBVIOUS
  <2>3. /\ Begins(c, x) /\ assigned \in Policies /\ during' = [during EXCEPT ![c] = {assigned}]
        /\ UNCHANGED <<assigned, assignment, audited, rec, flag, day, crossed, breach>>
    BY <1>0, <2>1, <2>2 DEF LookUpDefault
  <2>4. x \in CallRecord /\ x.do = "write" /\ x.policy = assigned /\ x.row = r
    BY <2>2, <2>3 DEF Resting, CallRecord
  <2>5. /\ retentionCall[c].do = "none" /\ retentionCall'[c] = x
        /\ retentionCall' \in [RetentionCalls -> CallRecord]
        /\ \A d \in RetentionCalls \ {c} : retentionCall'[d] = retentionCall[d]
    BY <1>0, <2>3, <2>4, BeginsEffect
  <2>6. during' \in [RetentionCalls -> SUBSET Policies] /\ during'[c] = {assigned}
        /\ \A d \in RetentionCalls \ {c} : during'[d] = during[d]
    BY <1>0, <2>3
  <2>7. Carries(c)'
    BY <2>3, <2>4, <2>5, <2>6 DEF Carries
  <2>8. \A s \in Rows : RowKept(s)'
    BY <1>0, <2>3 DEF RowKept, Past
  <2>9. ~Assigning(c) /\ ~Assigning(c)' /\ retentionCall[c].do \notin Gates /\ retentionCall'[c].do \notin Gates
    BY <2>4, <2>5 DEF Assigning, Gates
  <2> QED BY <1>0, <2>3, <2>5, <2>6, <2>7, <2>8, <2>9, WriterKeeps
<1>2. CASE \E k \in Kinds : InsertUnder(c, k)
  <2>1. PICK k \in Kinds : InsertUnder(c, k)
    BY <1>2
  <2>2. /\ retentionCall[c].row \in Rows /\ retentionCall[c].policy \in Policies
        /\ retentionCall[c].policy \in during[c] /\ retentionCall[c].do = "write"
    BY <1>0, <2>1 DEF InsertUnder, Carries, At
  <2>3. PICK x \in RowRecord : x = [there |-> TRUE, class |-> retentionCall[c].policy, kind |-> k, born |-> day,
          content |-> "original", sealed |-> "original", gone |-> FALSE, window |-> during[c]]
    BY <1>0, <2>2 DEF RowRecord
  <2>4. /\ rec' = [rec EXCEPT ![retentionCall[c].row] = x] /\ during' = [during EXCEPT ![c] = {}] /\ Rest(c)
        /\ UNCHANGED <<assigned, assignment, audited, flag, day, crossed, breach>>
    BY <2>1, <2>3 DEF InsertUnder
  <2>5. /\ retentionCall' \in [RetentionCalls -> CallRecord] /\ retentionCall'[c].do = "none"
        /\ \A d \in RetentionCalls \ {c} : retentionCall'[d] = retentionCall[d]
    BY <1>0, <2>4, RestEffect
  <2>6. /\ rec' \in [Rows -> RowRecord] /\ rec'[retentionCall[c].row] = x
        /\ \A s \in Rows \ {retentionCall[c].row} : rec'[s] = rec[s]
    BY <1>0, <2>2, <2>4
  <2>7. during' \in [RetentionCalls -> SUBSET Policies] /\ \A d \in RetentionCalls \ {c} : during'[d] = during[d]
    BY <1>0, <2>4
  <2>8. x.class \in x.window /\ x.class \in Policies /\ ~x.gone /\ x.content = x.sealed
    BY <2>2, <2>3
  <2>9. \A s \in Rows : RowKept(s)'
    BY <1>0, <2>4, <2>6, <2>8 DEF RowKept, Past
  <2>10. Carries(c)'
    BY <2>5 DEF Carries
  <2>11. ~Assigning(c) /\ ~Assigning(c)' /\ retentionCall[c].do \notin Gates /\ retentionCall'[c].do \notin Gates
    BY <2>2, <2>5 DEF Assigning, Gates
  <2> QED BY <1>0, <2>4, <2>5, <2>6, <2>7, <2>9, <2>10, <2>11, WriterKeeps
<1> QED BY <1>1, <1>2

\* handleDataSubjectRequest: what it writes back is refused under WORM before the floor.
LEMMA ErasuresKeep ==
  ASSUME RetentionInv, NEW c \in RetentionCalls, (\E r \in Rows : StartErasure(c, r)) \/ WriteErasure(c)
  PROVE  RetentionInv'
<1>0. /\ RetentionTypes /\ (\A s \in Rows : RowKept(s)) /\ Carries(c) /\ retentionCall[c] \in CallRecord
      /\ rec \in [Rows -> RowRecord] /\ during \in [RetentionCalls -> SUBSET Policies]
      /\ flag \in [worm : BOOLEAN, regulated : BOOLEAN, legacy : BOOLEAN]
  BY DEF RetentionInv, RetentionTypes
<1>1. CASE \E r \in Rows : StartErasure(c, r)
  <2>1. PICK r \in Rows : StartErasure(c, r)
    BY <1>1
  <2>2. PICK x : x = [Resting EXCEPT !.do = "erase", !.at = "update", !.row = r]
    OBVIOUS
  <2>3. /\ Begins(c, x) /\ UNCHANGED <<assigned, assignment, audited, rec, flag, day, crossed, during, breach>>
    BY <2>1, <2>2 DEF StartErasure
  <2>4. x \in CallRecord /\ x.do = "erase" /\ x.row = r
    BY <2>2, BeginRecords
  <2>5. /\ retentionCall[c].do = "none" /\ retentionCall'[c] = x
        /\ retentionCall' \in [RetentionCalls -> CallRecord]
        /\ \A d \in RetentionCalls \ {c} : retentionCall'[d] = retentionCall[d]
    BY <1>0, <2>3, <2>4, BeginsEffect
  <2>6. Carries(c)'
    BY <2>4, <2>5 DEF Carries
  <2>7. \A s \in Rows : RowKept(s)'
    BY <1>0, <2>3 DEF RowKept, Past
  <2>8. ~Assigning(c) /\ ~Assigning(c)' /\ retentionCall[c].do \notin Gates /\ retentionCall'[c].do \notin Gates
    BY <2>4, <2>5 DEF Assigning, Gates
  <2> QED BY <1>0, <2>3, <2>5, <2>6, <2>7, <2>8, WriterKeeps
<1>2. CASE WriteErasure(c)
  <2>0. PICK r : r = retentionCall[c].row
    OBVIOUS
  <2>1. /\ r \in Rows /\ retentionCall[c].do = "erase" /\ Rest(c)
        /\ UNCHANGED <<assigned, assignment, audited, flag, day, crossed, during, breach>>
    BY <1>0, <1>2, <2>0 DEF WriteErasure, Carries, At
  <2>2. /\ retentionCall' \in [RetentionCalls -> CallRecord] /\ retentionCall'[c].do = "none"
        /\ \A d \in RetentionCalls \ {c} : retentionCall'[d] = retentionCall[d]
    BY <1>0, <2>1, RestEffect
  <2>3. Carries(c)'
    BY <2>2 DEF Carries
  <2>4. ~Assigning(c) /\ ~Assigning(c)' /\ retentionCall[c].do \notin Gates /\ retentionCall'[c].do \notin Gates
    BY <2>1, <2>2 DEF Assigning, Gates
  <2>5. rec[r] \in RowRecord
    BY <1>0, <2>1
  <2>6. PICK x \in RowRecord :
          x = [rec[r] EXCEPT !.content = "erased", !.sealed = IF flag.worm THEN @ ELSE "erased"]
    BY <2>5 DEF RowRecord
  <2>7. /\ x.class = rec[r].class /\ x.window = rec[r].window /\ x.born = rec[r].born
        /\ x.gone = rec[r].gone /\ x.there = rec[r].there
        /\ x.content = "erased" /\ (~flag.worm => x.sealed = "erased")
    BY <2>5, <2>6 DEF RowRecord
  <2>8. CASE ~rec[r].there \/ ~Mutable(r)
    <3>1. rec' = rec
      BY <1>2, <2>0, <2>8 DEF WriteErasure
    <3>2. \A s \in Rows : RowKept(s)'
      BY <1>0, <2>1, <3>1 DEF RowKept, Past
    <3> QED BY <1>0, <2>1, <2>2, <2>3, <2>4, <3>1, <3>2, WriterKeeps
  <2>9. CASE rec[r].there /\ Mutable(r)
    <3>1. rec' = [rec EXCEPT ![r] = x]
      BY <1>2, <2>0, <2>6, <2>9 DEF WriteErasure
    <3>2. rec' \in [Rows -> RowRecord] /\ rec'[r] = x /\ \A s \in Rows \ {r} : rec'[s] = rec[s]
      BY <1>0, <2>1, <3>1
    <3>3. Past(r)' <=> Past(r)
      BY <2>1, <2>7, <3>2 DEF Past
    <3>4. RowKept(r)'
      BY <1>0, <2>1, <2>7, <2>9, <3>2, <3>3 DEF RowKept, Mutable
    <3>5. \A s \in Rows \ {r} : RowKept(s)'
      BY <1>0, <2>1, <3>2 DEF RowKept, Past
    <3>6. \A s \in Rows : RowKept(s)'
      BY <3>4, <3>5
    <3> QED BY <1>0, <2>1, <2>2, <2>3, <2>4, <3>2, <3>6, WriterKeeps
  <2> QED BY <2>8, <2>9
<1> QED BY <1>1, <1>2

-----------------------------------------------------------------------------
\* A call on the gate changes no record and no assignment.
LEMMA GateStepKeeps ==
  ASSUME RetentionInv, NEW c \in RetentionCalls,
         UNCHANGED <<assigned, assignment, audited, rec, day, during>>,
         flag' \in [worm : BOOLEAN, regulated : BOOLEAN, legacy : BOOLEAN], flag'.worm = flag.worm,
         retentionCall' \in [RetentionCalls -> CallRecord],
         \A d \in RetentionCalls \ {c} : retentionCall'[d] = retentionCall[d],
         crossed => crossed',
         retentionCall[c].do \in {"none"} \cup Gates, retentionCall'[c].do \in {"none"} \cup Gates, GateKept'
  PROVE  RetentionInv'
<1>1. ~Assigning(c) /\ ~Assigning(c)' /\ Carries(c)'
  BY DEF Assigning, Gates, Carries
<1>2. RetentionTypes' /\ AuditedFirst'
  BY DEF RetentionInv, RetentionTypes, AuditedFirst
<1>3. \A d \in RetentionCalls : Carries(d)'
  BY <1>1, OthersCarry DEF RetentionInv
<1>4. HistoryLinks'
  BY <1>1, HistorySame DEF RetentionInv, At, Assigning
<1>5. \A r \in Rows : RowKept(r)'
  BY DEF RetentionInv, RowKept, Past
<1> QED BY <1>2, <1>3, <1>4, <1>5 DEF RetentionInv

\* setTenantRegulated and setAssemblyAiLegacyEnabled begin.
LEMMA GateBegins ==
  ASSUME RetentionInv, NEW c \in RetentionCalls, Regulate(c) \/ LookAtRegulated(c)
  PROVE  RetentionInv'
<1>0. /\ RetentionTypes /\ GateKept /\ retentionCall[c] \in CallRecord
      /\ flag \in [worm : BOOLEAN, regulated : BOOLEAN, legacy : BOOLEAN]
  BY DEF RetentionInv, RetentionTypes
<1>1. PICK x \in CallRecord :
        /\ Begins(c, x) /\ x.do \in Gates
        /\ \/ x.do = "regulate" /\ flag' = [flag EXCEPT !.regulated = TRUE]
           \/ x.do = "legacy" /\ flag' = flag /\ ~flag.regulated
  BY BeginRecords DEF Regulate, LookAtRegulated, Gates
<1>2. UNCHANGED <<assigned, assignment, audited, rec, day, during, crossed, breach>>
  BY DEF Regulate, LookAtRegulated
<1>3. /\ retentionCall[c].do = "none" /\ retentionCall'[c] = x
      /\ retentionCall' \in [RetentionCalls -> CallRecord]
      /\ \A d \in RetentionCalls \ {c} : retentionCall'[d] = retentionCall[d]
  BY <1>0, <1>1, BeginsEffect
<1>4. /\ flag' \in [worm : BOOLEAN, regulated : BOOLEAN, legacy : BOOLEAN] /\ flag'.worm = flag.worm
      /\ flag'.legacy = flag.legacy
  BY <1>0, <1>1
<1>5. GateKept'
  <2>1. CASE x.do = "regulate"
    BY <1>3, <2>1 DEF GateKept
  <2>2. CASE x.do = "legacy" /\ flag' = flag
    BY <1>0, <1>2, <1>3, <2>2, GateSame
  <2> QED BY <1>1, <2>1, <2>2
<1>6. retentionCall[c].do \in {"none"} \cup Gates /\ retentionCall'[c].do \in {"none"} \cup Gates
  BY <1>1, <1>3
<1> QED BY <1>2, <1>3, <1>4, <1>5, <1>6, GateStepKeeps

\* Their second statements.
LEMMA GateEnds ==
  ASSUME RetentionInv, NEW c \in RetentionCalls, LookAtLegacy(c) \/ DisableLegacy(c) \/ EnableLegacy(c)
  PROVE  RetentionInv'
<1>0. /\ RetentionTypes /\ GateKept /\ retentionCall[c] \in CallRecord
      /\ flag \in [worm : BOOLEAN, regulated : BOOLEAN, legacy : BOOLEAN]
  BY DEF RetentionInv, RetentionTypes
<1>1. retentionCall[c].do \in Gates /\ UNCHANGED <<assigned, assignment, audited, rec, day, during, crossed>>
  BY DEF LookAtLegacy, DisableLegacy, EnableLegacy, At, Gates
<1>2. CASE LookAtLegacy(c) /\ flag.legacy
  <2>1. Next1(c, "disable") /\ flag' = flag /\ breach' = breach
    BY <1>2 DEF LookAtLegacy
  <2>2. /\ retentionCall' \in [RetentionCalls -> CallRecord] /\ retentionCall'[c].do = retentionCall[c].do
        /\ \A d \in RetentionCalls \ {c} : retentionCall'[d] = retentionCall[d]
    BY <1>0, <2>1, NextEffect
  <2>3. GateKept'
    BY <1>0, <1>1, <2>1, <2>2, GateSame
  <2> QED BY <1>0, <1>1, <2>1, <2>2, <2>3, GateStepKeeps
<1>3. ASSUME Rest(c) PROVE /\ retentionCall' \in [RetentionCalls -> CallRecord] /\ retentionCall'[c].do = "none"
                          /\ \A d \in RetentionCalls \ {c} : retentionCall'[d] = retentionCall[d]
  BY <1>0, <1>3, RestEffect
<1>4. CASE LookAtLegacy(c) /\ ~flag.legacy
  <2>1. Rest(c) /\ flag' = flag /\ breach' = breach
    BY <1>4 DEF LookAtLegacy
  <2>2. GateKept'
    BY <1>0, <1>1, <1>3, <1>4, <2>1, GateSame
  <2> QED BY <1>0, <1>1, <1>3, <2>1, <2>2, GateStepKeeps
<1>5. CASE DisableLegacy(c)
  <2>1. Rest(c) /\ flag' = [flag EXCEPT !.legacy = FALSE]
    BY <1>5 DEF DisableLegacy
  <2>2. /\ flag' \in [worm : BOOLEAN, regulated : BOOLEAN, legacy : BOOLEAN] /\ flag'.worm = flag.worm
        /\ ~flag'.legacy /\ flag'.regulated = flag.regulated
    BY <1>0, <2>1
  <2>3. GateKept'
    BY <1>0, <1>1, <1>3, <2>1, <2>2 DEF GateKept
  <2> QED BY <1>0, <1>1, <1>3, <2>1, <2>2, <2>3, GateStepKeeps
<1>6. CASE EnableLegacy(c)
  <2>1. /\ Rest(c) /\ flag' = [flag EXCEPT !.legacy = TRUE] /\ retentionCall[c].do = "legacy"
        /\ breach' = IF flag.regulated THEN "overtaken" ELSE "none"
    BY <1>6 DEF EnableLegacy, At
  <2>2. /\ flag' \in [worm : BOOLEAN, regulated : BOOLEAN, legacy : BOOLEAN] /\ flag'.worm = flag.worm
        /\ flag'.regulated = flag.regulated
    BY <1>0, <2>1
  <2>3. GateKept'
    BY <1>0, <1>1, <1>3, <2>1, <2>2 DEF GateKept
  <2> QED BY <1>0, <1>1, <1>3, <2>1, <2>2, <2>3, GateStepKeeps
<1> QED BY <1>2, <1>4, <1>5, <1>6

\* The server stops: what was cut half-way is held against the gate, or the assignments.
LEMMA CutKeeps ==
  ASSUME RetentionInv, NEW c \in RetentionCalls, CutCall(c)
  PROVE  RetentionInv'
<1>0. /\ RetentionTypes /\ GateKept /\ HistoryLinks /\ retentionCall[c] \in CallRecord
  BY DEF RetentionInv, RetentionTypes
<1>1. /\ UNCHANGED <<assigned, assignment, audited, rec, flag, day, during>> /\ Rest(c)
      /\ crossed' = (crossed \/ At(c, "assign", "log"))
      /\ breach' = IF retentionCall[c].do = "regulate" /\ flag.regulated /\ flag.legacy THEN "cut" ELSE breach
  BY DEF CutCall
<1>2. /\ retentionCall' \in [RetentionCalls -> CallRecord] /\ retentionCall'[c].do = "none"
      /\ \A d \in RetentionCalls \ {c} : retentionCall'[d] = retentionCall[d]
  BY <1>0, <1>1, RestEffect
<1>3. Carries(c)' /\ ~Assigning(c)'
  BY <1>2 DEF Carries, Assigning
<1>4. HistoryLinks'
  BY <1>0, <1>1, <1>2, <1>3, HistorySame
<1>5. GateKept'
  <2>1. CASE retentionCall[c].do = "regulate" /\ flag.regulated /\ flag.legacy
    BY <1>1, <2>1 DEF GateKept
  <2>2. CASE ~(retentionCall[c].do = "regulate" /\ flag.regulated /\ flag.legacy)
    BY <1>0, <1>1, <1>2, <2>2, GateSame
  <2> QED BY <2>1, <2>2
<1> QED BY <1>1, <1>2, <1>3, <1>4, <1>5, CallOnly

-----------------------------------------------------------------------------
\* The inductive invariant: the types, what calls carry, the history of the assignments, each
\* row's class, floor and seal, and the gate on the path abroad.
THEOREM RetentionInductive == RetentionSpec => []RetentionInv
<1>1. RetentionInit => RetentionInv
  <2> SUFFICES ASSUME RetentionInit PROVE RetentionInv
    OBVIOUS
  <2>1. /\ \A c \in RetentionCalls : retentionCall[c].do = "none" /\ retentionCall[c].at = "idle"
        /\ retentionCall \in [RetentionCalls -> CallRecord]
    BY RestingRecord DEF RetentionInit
  <2>2. Absent \in RowRecord /\ Absent.there = FALSE /\ Absent.gone = FALSE
    BY DEF Absent, RowRecord
  <2>3. RetentionTypes
    <3>1. 0 \in 0..MaxDays
      BY RetentionAssumption
    <3> QED BY <2>1, <2>2, <3>1 DEF RetentionInit, RetentionTypes
  <2>4. \A c \in RetentionCalls : Carries(c)
    BY <2>1 DEF Carries
  <2>5. AuditedFirst /\ \A r \in Rows : RowKept(r)
    BY <2>2 DEF RetentionInit, AuditedFirst, RowKept
  <2>6. HistoryLinks
    BY <2>1 DEF RetentionInit, HistoryLinks, Linked, Current, At, Assigning
  <2>7. GateKept
    BY DEF RetentionInit, GateKept
  <2> QED BY <2>3, <2>4, <2>5, <2>6, <2>7 DEF RetentionInv
<1>2. RetentionInv /\ [RetentionNext]_retentionVars => RetentionInv'
  <2> SUFFICES ASSUME RetentionInv, [RetentionNext]_retentionVars PROVE RetentionInv'
    OBVIOUS
  <2>1. CASE UNCHANGED retentionVars
    BY <2>1 DEF retentionVars, RetentionInv, RetentionTypes, Carries, AuditedFirst, HistoryLinks, Linked, Current,
                Assigning, At, RowKept, Past, GateKept
  <2>2. CASE DayPasses \/ EnableWormMode \/ Deregulate \/ TurnLegacyOff
    BY <2>2, SettingsKeep
  <2>3. CASE \E p \in Policies, k \in Kinds, f \in OverrideFloors : SetOverride(p, k, f)
    BY <2>3, SettingsKeep
  <2>4. CASE \E r \in Rows : GuardDelete(r) \/ Update(r)
    BY <2>4, TriggersKeep
  <2>5. ASSUME NEW c \in RetentionCalls,
               \/ \E p \in Policies : StartAssign(c, p)
               \/ ReadPrevious(c) \/ AuditAssign(c) \/ UpsertAssigned(c) \/ LogAssignment(c)
        PROVE  RetentionInv'
    BY <2>5, AssignBegins, AuditAssignKeeps, UpsertKeeps, LogKeeps
  <2>6. ASSUME NEW c \in RetentionCalls,
               \/ \E r \in Rows : (\E k \in Kinds : LookUpDefault(c, r, k)) \/ StartErasure(c, r)
               \/ InsertEmail(c) \/ InsertCorpusChunk(c) \/ WriteErasure(c)
        PROVE  RetentionInv'
    BY <2>6, WritesKeep, ErasuresKeep DEF InsertEmail, InsertCorpusChunk, Kinds
  <2>7. ASSUME NEW c \in RetentionCalls,
               \/ Regulate(c) \/ LookAtLegacy(c) \/ DisableLegacy(c) \/ LookAtRegulated(c) \/ EnableLegacy(c)
               \/ CutCall(c)
        PROVE  RetentionInv'
    BY <2>7, GateBegins, GateEnds, CutKeeps
  <2> QED BY <2>1, <2>2, <2>3, <2>4, <2>5, <2>6, <2>7 DEF RetentionNext
<1> QED BY <1>1, <1>2, PTL DEF RetentionSpec

\* RetentionSound: the policy in force has its audit record, the history ends with it and links
\* up, a row keeps the class it was written under and is gone only past that policy's floor, WORM
\* seals it, and a regulated tenant has the legacy path on by one of the two breaches alone.
THEOREM RetentionCorrect == RetentionSpec => [](RetentionTypeOK /\ RetentionSound)
<1>1. RetentionInv => RetentionTypeOK /\ RetentionSound
  <2> SUFFICES ASSUME RetentionInv PROVE RetentionTypeOK /\ RetentionSound
    OBVIOUS
  <2>1. RetentionTypeOK
    BY DEF RetentionInv, RetentionTypes, RetentionTypeOK, Assignments
  <2>2. ~crossed /\ (\A c \in RetentionCalls : ~At(c, "assign", "log")) =>
          /\ Current = assigned
          /\ \A i \in DOMAIN assignment :
               assignment[i].previous = IF i = 1 THEN NoPolicy ELSE assignment[i - 1].policy
    BY DEF RetentionInv, HistoryLinks, Linked
  <2>3. \A r \in Rows : rec[r].there \/ rec[r].gone =>
          /\ rec[r].class \in rec[r].window
          /\ rec[r].gone => Past(r)
          /\ flag.worm /\ ~Past(r) => rec[r].content = rec[r].sealed
    BY DEF RetentionInv, RowKept
  <2>4. flag.regulated /\ flag.legacy =>
          breach # "none" \/ \E c \in RetentionCalls : retentionCall[c].do = "regulate"
    BY DEF RetentionInv, GateKept
  <2>5. assigned # NoPolicy => assigned \in audited
    BY DEF RetentionInv, AuditedFirst
  <2> QED BY <2>1, <2>2, <2>3, <2>4, <2>5 DEF RetentionSound
<1> QED BY <1>1, RetentionInductive, PTL

-----------------------------------------------------------------------------
(* Backups.                                                                *)

Steps == {"idle", "name", "dump", "key", "enc", "meta", "done", "failed"}

Keys == {NoKey} \cup ({"local"} \X Masters) \cup ({"aws", "vault"} \X Jobs \X Labels)

JobRecord == [at : Steps, backend : Backends, master : Masters \cup {NoKey}, one : BOOLEAN,
              label : Labels, id : Ids, snap : SUBSET Operations, key : Keys, done : SUBSET Ids]

Artifacts == [by : Jobs, snap : SUBSET Operations, key : Keys]
Sidecars  == [by : Jobs, wrapped : Keys]

BackupTypes ==
  /\ effected \subseteq Operations /\ recorded \subseteq Operations
  /\ second \in 0..MaxSeconds /\ changes \in 0..MaxChanges
  /\ master \in Masters \cup {NoKey}
  /\ enc \in [Ids -> {Missing} \cup Artifacts]
  /\ meta \in [Ids -> {Missing} \cup Sidecars]
  /\ job \in [Jobs -> JobRecord]

\* The key that a job encrypts its dump of a database with.
KeyOf(j, l) ==
  IF job[j].master = NoKey THEN NoKey
  ELSE IF job[j].backend = "local" THEN <<"local", job[j].master>> ELSE <<job[j].backend, j, l>>

\* The ids that a job has used so far.
Touches(j, i) == i \in job[j].done \/ job[j].id = i

\* Of each job: the id is of its database, the key is its key, a finished backup has its files.
JobSteady(j) ==
  /\ job[j].at \in {"dump", "key", "enc", "meta"} => job[j].id[1] = job[j].label
  /\ job[j].at \in {"enc", "meta"} => job[j].key = KeyOf(j, job[j].label)
  /\ job[j].at = "meta" => enc[job[j].id] # Missing
  /\ \A i \in job[j].done : enc[i] # Missing /\ meta[i] # Missing
  /\ job[j].at = "name" /\ job[j].label = "audit" => job[j].id \in job[j].done
  /\ job[j].at \in {"key", "enc"} /\ job[j].label = "app" => job[j].snap \subseteq recorded
  /\ job[j].at = "idle" => job[j].label = "app"

\* Of each file: the job that wrote it used its id, and its key.
FileSteady(i) ==
  /\ enc[i] # Missing =>
       /\ Touches(enc[i].by, i) /\ enc[i].key = KeyOf(enc[i].by, i[1])
       /\ ~(job[enc[i].by].at \in {"idle", "name"} /\ job[enc[i].by].label = "app")
       /\ i[1] = "audit" => job[enc[i].by].label = "audit"
       /\ i[1] = "app" => /\ enc[i].snap \subseteq recorded
                          /\ job[enc[i].by].at \in {"key", "enc"} /\ job[enc[i].by].label = "audit" =>
                               enc[i].snap \subseteq job[enc[i].by].snap
  /\ meta[i] # Missing =>
       /\ Touches(meta[i].by, i) /\ meta[i].wrapped = KeyOf(meta[i].by, i[1])
       /\ ~(job[meta[i].by].at \in {"idle", "name"} /\ job[meta[i].by].label = "app")

\* Of the dumps of one job, that of the audit database is the later one.
PairSound(i, k) ==
  enc[i] # Missing /\ enc[k] # Missing /\ enc[i].by = enc[k].by /\ i[1] = "app" /\ k[1] = "audit"
    => enc[i].snap \subseteq enc[k].snap

BackupInv ==
  /\ BackupTypes
  /\ effected \subseteq recorded
  /\ \A j \in Jobs : JobSteady(j)
  /\ \A i \in Ids : FileSteady(i)
  /\ \A i, k \in Ids : PairSound(i, k)

-----------------------------------------------------------------------------
\* A file is not the absence of one, and its job is a job.
LEMMA FilesThere ==
  /\ \A x \in Artifacts \cup Sidecars : x # Missing
  /\ BackupTypes => \A i \in Ids : /\ enc[i] # Missing => enc[i] \in Artifacts /\ enc[i].by \in Jobs
                                   /\ meta[i] # Missing => meta[i] \in Sidecars /\ meta[i].by \in Jobs
<1>1. ASSUME NEW x \in Artifacts PROVE x # Missing
  <2>1. DOMAIN x = {"by", "snap", "key"} /\ DOMAIN Missing = {"by"}
    BY DEF Artifacts, Missing
  <2> QED BY <2>1
<1>2. ASSUME NEW x \in Sidecars PROVE x # Missing
  <2>1. DOMAIN x = {"by", "wrapped"} /\ DOMAIN Missing = {"by"}
    BY DEF Sidecars, Missing
  <2> QED BY <2>1
<1>3. BackupTypes => \A i \in Ids : enc[i] \in {Missing} \cup Artifacts /\ meta[i] \in {Missing} \cup Sidecars
  BY DEF BackupTypes
<1>4. (\A x \in Artifacts : x.by \in Jobs) /\ \A x \in Sidecars : x.by \in Jobs
  BY DEF Artifacts, Sidecars
<1> QED BY <1>1, <1>2, <1>3, <1>4

\* The key of a job is a key.
LEMMA KeyOfType ==
  ASSUME BackupTypes, NEW j \in Jobs, NEW l \in Labels
  PROVE  KeyOf(j, l) \in Keys
BY DEF BackupTypes, JobRecord, KeyOf, Keys, Backends

\* A job that does nothing stays as it was, whatever files and records come.
LEMMA OtherJobs ==
  ASSUME NEW j \in Jobs, JobSteady(j), job'[j] = job[j], recorded \subseteq recorded',
         \A i \in Ids : enc[i] # Missing => enc'[i] # Missing,
         \A i \in Ids : meta[i] # Missing => meta'[i] # Missing,
         job[j].id \in Ids, job[j].done \subseteq Ids
  PROVE  JobSteady(j)'
BY DEF JobSteady, KeyOf

\* A file that stays, and whose jobs stay.
LEMMA FilesOfOthers ==
  ASSUME NEW i \in Ids, FileSteady(i), enc'[i] = enc[i], meta'[i] = meta[i], recorded \subseteq recorded',
         enc[i] # Missing => job'[enc[i].by] = job[enc[i].by],
         meta[i] # Missing => job'[meta[i].by] = job[meta[i].by]
  PROVE  FileSteady(i)'
BY DEF FileSteady, KeyOf, Touches

\* A file that stays while a job goes on.
LEMMA FilesKept ==
  ASSUME NEW i \in Ids, FileSteady(i), enc'[i] = enc[i], meta'[i] = meta[i], recorded \subseteq recorded',
         NEW j \in Jobs, \A k \in Jobs \ {j} : job'[k] = job[k],
         enc[i] # Missing => enc[i].by \in Jobs, meta[i] # Missing => meta[i].by \in Jobs,
         job'[j].master = job[j].master, job'[j].backend = job[j].backend,
         Touches(j, i) => Touches(j, i)',
         job[j].label = "audit" => job'[j].label = "audit",
         ~(job'[j].at \in {"idle", "name"} /\ job'[j].label = "app"),
         enc[i] # Missing /\ i[1] = "app" /\ enc[i].by = j /\ job'[j].at \in {"key", "enc"} /\ job'[j].label = "audit"
           => enc[i].snap \subseteq job'[j].snap
  PROVE  FileSteady(i)'
<1>1. \A l : \A k \in Jobs : KeyOf(k, l)' = KeyOf(k, l)
  BY DEF KeyOf
<1>2. \A k \in Jobs : Touches(k, i) => Touches(k, i)'
  BY DEF Touches
<1>3. ASSUME enc[i] # Missing, enc[i].by = j PROVE FileSteady(i)!1'
  BY <1>1, <1>2, <1>3 DEF FileSteady
<1>4. ASSUME enc[i] # Missing, enc[i].by # j PROVE FileSteady(i)!1'
  BY <1>1, <1>2, <1>4 DEF FileSteady
<1>5. ASSUME meta[i] # Missing PROVE FileSteady(i)!2'
  BY <1>1, <1>2, <1>5 DEF FileSteady
<1> QED BY <1>3, <1>4, <1>5 DEF FileSteady

-----------------------------------------------------------------------------
\* A step of a job that writes no file and goes on with its key, its label and what it has done.
LEMMA JobGoesOn ==
  ASSUME BackupInv, NEW j \in Jobs, NEW x \in JobRecord, job' = [job EXCEPT ![j] = x],
         UNCHANGED <<recorded, effected, master, changes, second, enc, meta>>,
         x.master = job[j].master, x.backend = job[j].backend, x.label = job[j].label, x.done = job[j].done,
         x.id = job[j].id, x.at \in {"key", "enc", "failed"},
         x.at \in {"key", "enc"} => job[j].at \in {"dump", "key"},
         x.at \in {"key", "enc"} => \/ x.snap = job[j].snap /\ job[j].at = "key"
                                   \/ x.snap = IF x.label = "app" THEN effected ELSE recorded,
         x.at = "enc" => x.key = KeyOf(j, x.label)
  PROVE  BackupInv'
<1>1. job' \in [Jobs -> JobRecord] /\ job'[j] = x /\ \A k \in Jobs \ {j} : job'[k] = job[k]
  BY DEF BackupInv, BackupTypes
<1>2. BackupTypes /\ BackupTypes' /\ (effected \subseteq recorded)' /\ effected \subseteq recorded
  BY <1>1 DEF BackupInv, BackupTypes
<1>3. \A i, k \in Ids : PairSound(i, k)'
  BY DEF BackupInv, PairSound
<1>4. \A k \in Jobs : JobSteady(k) /\ job[k].id \in Ids /\ job[k].done \subseteq Ids
  BY <1>2 DEF BackupInv, BackupTypes, JobRecord
<1>5. \A k \in Jobs \ {j} : JobSteady(k)'
  BY <1>1, <1>4, OtherJobs
<1>6. JobSteady(j)'
  BY <1>1, <1>2, <1>4 DEF JobSteady, KeyOf
<1>7. ASSUME NEW i \in Ids PROVE FileSteady(i)'
  <2>1. FileSteady(i) /\ (enc[i] # Missing => enc[i].by \in Jobs) /\ (meta[i] # Missing => meta[i].by \in Jobs)
    BY <1>2, FilesThere DEF BackupInv
  <2>2. Touches(j, i) => Touches(j, i)'
    BY <1>1 DEF Touches
  <2>3. enc[i] # Missing /\ i[1] = "app" /\ enc[i].by = j /\ job'[j].at \in {"key", "enc"} /\ job'[j].label = "audit"
          => enc[i].snap \subseteq job'[j].snap
    BY <1>1, <2>1 DEF FileSteady
  <2> QED BY <1>1, <2>1, <2>2, <2>3, FilesKept
<1> QED BY <1>2, <1>3, <1>5, <1>6, <1>7 DEF BackupInv

\* runScheduledBackup up to the key: the dump, the key, a failure.
LEMMA DumpKeeps ==
  ASSUME BackupInv, NEW j \in Jobs, RunPgDump(j) \/ ChooseKey(j) \/ JobFails(j)
  PROVE  BackupInv'
<1>0. job[j] \in JobRecord /\ effected \subseteq Operations /\ recorded \subseteq Operations /\ BackupTypes
      /\ job[j].label \in Labels
  BY DEF BackupInv, BackupTypes, JobRecord
<1>1. CASE RunPgDump(j)
  <2>1. PICK x \in JobRecord : x = [job[j] EXCEPT !.at = "key",
                                     !.snap = IF job[j].label = "app" THEN effected ELSE recorded]
    BY <1>0 DEF JobRecord, Steps
  <2>2. job' = [job EXCEPT ![j] = x] /\ job[j].at = "dump"
        /\ UNCHANGED <<recorded, effected, master, changes, second, enc, meta>>
    BY <1>1, <2>1 DEF RunPgDump, UnchangedWorld, UnchangedFiles
  <2>3. /\ x.master = job[j].master /\ x.backend = job[j].backend /\ x.label = job[j].label
        /\ x.done = job[j].done /\ x.id = job[j].id /\ x.at = "key"
        /\ x.snap = IF x.label = "app" THEN effected ELSE recorded
    BY <1>0, <2>1 DEF JobRecord
  <2> QED BY <2>2, <2>3, JobGoesOn
<1>2. CASE ChooseKey(j)
  <2>1. KeyOf(j, job[j].label) \in Keys
    BY <1>0, KeyOfType
  <2>2. \A key : key \in (IF job[j].master = NoKey THEN {NoKey} ELSE Generates(j)) => key = KeyOf(j, job[j].label)
    BY <1>0 DEF JobRecord, Backends, Generates, GenerateLocal, GenerateAws, GenerateVault, KeyOf
  <2>3. PICK x \in JobRecord : x = [job[j] EXCEPT !.at = "enc", !.key = KeyOf(j, job[j].label)]
    BY <1>0, <2>1 DEF JobRecord, Steps
  <2>4. job' = [job EXCEPT ![j] = x] /\ job[j].at = "key"
        /\ UNCHANGED <<recorded, effected, master, changes, second, enc, meta>>
    <3>1. PICK key \in IF job[j].master = NoKey THEN {NoKey} ELSE Generates(j) :
            job' = [job EXCEPT ![j].at = "enc", ![j].key = key]
      BY <1>2 DEF ChooseKey
    <3>2. key = KeyOf(j, job[j].label)
      BY <2>2, <3>1
    <3> QED BY <1>2, <2>3, <3>1, <3>2 DEF ChooseKey, UnchangedWorld, UnchangedFiles
  <2>5. /\ x.master = job[j].master /\ x.backend = job[j].backend /\ x.label = job[j].label
        /\ x.done = job[j].done /\ x.id = job[j].id /\ x.at = "enc"
        /\ x.snap = job[j].snap /\ x.key = KeyOf(j, x.label)
    BY <1>0, <2>3 DEF JobRecord
  <2> QED BY <2>4, <2>5, JobGoesOn
<1>3. CASE JobFails(j)
  <2>1. PICK x \in JobRecord : x = [job[j] EXCEPT !.at = "failed", !.snap = {}, !.key = NoKey]
    BY <1>0 DEF JobRecord, Steps, Keys
  <2>2. job' = [job EXCEPT ![j] = x]
        /\ UNCHANGED <<recorded, effected, master, changes, second, enc, meta>>
    BY <1>3, <2>1 DEF JobFails, UnchangedWorld, UnchangedFiles
  <2>3. /\ x.master = job[j].master /\ x.backend = job[j].backend /\ x.label = job[j].label
        /\ x.done = job[j].done /\ x.id = job[j].id /\ x.at = "failed"
    BY <1>0, <2>1 DEF JobRecord
  <2> QED BY <2>2, <2>3, JobGoesOn
<1> QED BY <1>1, <1>2, <1>3

\* A process starts with the first database, and nothing is written by it yet.
LEMMA StartKeeps ==
  ASSUME BackupInv, NEW j \in Jobs, NEW b \in Backends, NEW one \in BOOLEAN, StartJob(j, b, one)
  PROVE  BackupInv'
<1>0. BackupTypes /\ job[j].at = "idle" /\ master \in Masters \cup {NoKey} /\ 0 \in 0..MaxSeconds
      /\ UNCHANGED <<recorded, effected, master, changes, second, enc, meta>>
  BY BackupAssumption DEF BackupInv, BackupTypes, StartJob, UnchangedWorld, UnchangedFiles
<1>1. PICK x \in JobRecord : x = [Fresh EXCEPT !.at = "name", !.backend = b, !.master = master, !.one = one,
                                         !.label = FirstLabel]
  BY <1>0 DEF JobRecord, Fresh, Steps, Keys, Labels, Backends, Ids, FirstLabel
<1>2. job' = [job EXCEPT ![j] = x] /\ x.at = "name" /\ x.label = "app" /\ x.done = {}
  BY <1>1 DEF StartJob, Fresh, FirstLabel
<1>3. job' \in [Jobs -> JobRecord] /\ job'[j] = x /\ \A k \in Jobs \ {j} : job'[k] = job[k]
  BY <1>0, <1>1, <1>2 DEF BackupTypes
<1>4. BackupTypes' /\ (effected \subseteq recorded)' /\ \A i, k \in Ids : PairSound(i, k)'
  BY <1>0, <1>3 DEF BackupInv, BackupTypes, PairSound
<1>5. \A k \in Jobs : JobSteady(k) /\ job[k].id \in Ids /\ job[k].done \subseteq Ids
  BY <1>0 DEF BackupInv, BackupTypes, JobRecord
<1>6. \A k \in Jobs \ {j} : JobSteady(k)'
  BY <1>0, <1>3, <1>5, OtherJobs
<1>7. JobSteady(j)'
  BY <1>2, <1>3 DEF JobSteady
<1>8. \A i \in Ids : FileSteady(i)'
  <2> SUFFICES ASSUME NEW i \in Ids PROVE FileSteady(i)'
    OBVIOUS
  <2>1. FileSteady(i) /\ (enc[i] # Missing => enc[i].by \in Jobs) /\ (meta[i] # Missing => meta[i].by \in Jobs)
    BY <1>0, FilesThere DEF BackupInv
  <2>2. job[j].label = "app"
    BY <1>0, <1>5 DEF JobSteady
  <2>3. (enc[i] # Missing => enc[i].by # j) /\ (meta[i] # Missing => meta[i].by # j)
    BY <1>0, <2>1, <2>2 DEF FileSteady
  <2> QED BY <1>0, <1>3, <2>1, <2>3, FilesOfOthers
<1> QED BY <1>4, <1>6, <1>7, <1>8 DEF BackupInv

\* A backup is named: the id before it, if any, is of a finished one.
LEMMA NameKeeps ==
  ASSUME BackupInv, NEW j \in Jobs, NameBackup(j)
  PROVE  BackupInv'
<1>0. BackupTypes /\ job[j].at = "name" /\ job[j] \in JobRecord /\ job[j].label \in Labels /\ second \in 0..MaxSeconds
      /\ UNCHANGED <<recorded, effected, master, changes, second, enc, meta>>
  BY DEF BackupInv, BackupTypes, NameBackup, UnchangedWorld, UnchangedFiles, JobRecord
<1>1. PICK x \in JobRecord : x = [job[j] EXCEPT !.at = "dump", !.id = <<job[j].label, second>>]
  <2>1. <<job[j].label, second>> \in Ids
    BY <1>0 DEF Ids
  <2> QED BY <1>0, <2>1 DEF JobRecord, Steps
<1>2. job' = [job EXCEPT ![j] = x]
  BY <1>1 DEF NameBackup
<1>3. /\ x.at = "dump" /\ x.label = job[j].label /\ x.done = job[j].done /\ x.id = <<job[j].label, second>>
      /\ x.master = job[j].master /\ x.backend = job[j].backend
  BY <1>0, <1>1 DEF JobRecord
<1>4. job' \in [Jobs -> JobRecord] /\ job'[j] = x /\ \A k \in Jobs \ {j} : job'[k] = job[k]
  BY <1>0, <1>2 DEF BackupTypes
<1>5. BackupTypes' /\ (effected \subseteq recorded)' /\ \A i, k \in Ids : PairSound(i, k)'
  BY <1>0, <1>4 DEF BackupInv, BackupTypes, PairSound
<1>6. \A k \in Jobs : JobSteady(k) /\ job[k].id \in Ids /\ job[k].done \subseteq Ids
  BY <1>0 DEF BackupInv, BackupTypes, JobRecord
<1>7. \A k \in Jobs \ {j} : JobSteady(k)'
  BY <1>0, <1>4, <1>6, OtherJobs
<1>8. JobSteady(j)'
  BY <1>0, <1>3, <1>4, <1>6 DEF JobSteady
<1>9. \A i \in Ids : FileSteady(i)'
  <2> SUFFICES ASSUME NEW i \in Ids PROVE FileSteady(i)'
    OBVIOUS
  <2>1. FileSteady(i) /\ (enc[i] # Missing => enc[i].by \in Jobs) /\ (meta[i] # Missing => meta[i].by \in Jobs)
    BY <1>0, FilesThere DEF BackupInv
  <2>2. CASE job[j].label = "app"
    <3>1. (enc[i] # Missing => enc[i].by # j) /\ (meta[i] # Missing => meta[i].by # j)
      BY <1>0, <2>1, <2>2 DEF FileSteady
    <3> QED BY <1>0, <1>4, <2>1, <3>1, FilesOfOthers
  <2>3. CASE job[j].label = "audit"
    <3>1. Touches(j, i) => Touches(j, i)'
      BY <1>0, <1>3, <1>4, <1>6, <2>3 DEF Touches, JobSteady
    <3> QED BY <1>0, <1>3, <1>4, <2>1, <2>3, <3>1, FilesKept
  <2> QED BY <1>0, <2>2, <2>3 DEF Labels
<1> QED BY <1>5, <1>7, <1>8, <1>9 DEF BackupInv

\* The artifact: of the application before that of the audit database, which was dumped later.
LEMMA ArtifactKeeps ==
  ASSUME BackupInv, NEW j \in Jobs, WriteArtifact(j)
  PROVE  BackupInv'
<1>0. /\ BackupTypes /\ job[j].at = "enc" /\ job[j] \in JobRecord /\ job[j].label \in Labels /\ job[j].id \in Ids
      /\ JobSteady(j) /\ UNCHANGED <<recorded, effected, master, changes, second, meta>>
  BY DEF BackupInv, BackupTypes, WriteArtifact, UnchangedWorld, JobRecord
<1>1. PICK x \in JobRecord : x = [job[j] EXCEPT !.at = "meta"]
  BY <1>0 DEF JobRecord, Steps
<1>2. PICK f \in Artifacts : f = [by |-> j, snap |-> job[j].snap, key |-> job[j].key]
  BY <1>0 DEF Artifacts, JobRecord
<1>3. job' = [job EXCEPT ![j] = x] /\ enc' = [enc EXCEPT ![job[j].id] = f]
  BY <1>1, <1>2 DEF WriteArtifact
<1>4. /\ x.at = "meta" /\ x.label = job[j].label /\ x.done = job[j].done /\ x.id = job[j].id
      /\ x.master = job[j].master /\ x.backend = job[j].backend /\ x.key = job[j].key
      /\ f.by = j /\ f.snap = job[j].snap /\ f.key = job[j].key
  BY <1>0, <1>1, <1>2 DEF JobRecord
<1>5. job' \in [Jobs -> JobRecord] /\ job'[j] = x /\ \A k \in Jobs \ {j} : job'[k] = job[k]
  BY <1>0, <1>3 DEF BackupTypes
<1>6. /\ enc' \in [Ids -> {Missing} \cup Artifacts] /\ enc'[job[j].id] = f /\ f # Missing
      /\ \A i \in Ids \ {job[j].id} : enc'[i] = enc[i]
  BY <1>0, <1>3, FilesThere DEF BackupTypes
<1>7. BackupTypes' /\ (effected \subseteq recorded)'
  BY <1>0, <1>5, <1>6 DEF BackupInv, BackupTypes
<1>8. \A k \in Jobs : JobSteady(k) /\ job[k].id \in Ids /\ job[k].done \subseteq Ids
  BY <1>0 DEF BackupInv, BackupTypes, JobRecord
<1>9. /\ \A i \in Ids : enc[i] # Missing => enc'[i] # Missing
      /\ \A k \in Jobs \ {j} : JobSteady(k)'
  <2>1. \A i \in Ids : enc[i] # Missing => enc'[i] # Missing
    BY <1>6
  <2> QED BY <1>0, <1>5, <1>8, <2>1, OtherJobs
<1>10. \A l : KeyOf(j, l)' = KeyOf(j, l)
  BY <1>4, <1>5 DEF KeyOf
<1>11. JobSteady(j)'
  <2>1. job[j].id[1] = job[j].label /\ job[j].key = KeyOf(j, job[j].label)
    BY <1>0 DEF JobSteady
  <2>3. /\ job'[j].at = "meta" /\ job'[j].id = job[j].id /\ job'[j].label = job[j].label
        /\ job'[j].key = job[j].key /\ job'[j].done = job[j].done
    BY <1>4, <1>5
  <2>4. \A i \in job'[j].done : enc'[i] # Missing /\ meta'[i] # Missing
    BY <1>0, <1>8, <1>9, <2>3 DEF JobSteady
  <2>5. enc'[job'[j].id] # Missing
    BY <1>6, <2>3
  <2>6. job'[j].key = IF job'[j].master = NoKey THEN NoKey
                      ELSE IF job'[j].backend = "local" THEN <<"local", job'[j].master>>
                           ELSE <<job'[j].backend, j, job'[j].label>>
    BY <1>4, <1>5, <2>1 DEF KeyOf
  <2>7. job'[j].id[1] = job'[j].label
    BY <2>1, <2>3
  <2> QED BY <2>3, <2>4, <2>5, <2>6, <2>7 DEF JobSteady, KeyOf
<1>12. \A i \in Ids : FileSteady(i)
  BY DEF BackupInv
<1>13. \A i \in Ids \ {job[j].id} : FileSteady(i)'
  <2> SUFFICES ASSUME NEW i \in Ids \ {job[j].id} PROVE FileSteady(i)'
    OBVIOUS
  <2>1. FileSteady(i) /\ (enc[i] # Missing => enc[i].by \in Jobs) /\ (meta[i] # Missing => meta[i].by \in Jobs)
    BY <1>0, <1>12, FilesThere
  <2>2. Touches(j, i) => Touches(j, i)'
    BY <1>4, <1>5 DEF Touches
  <2> QED BY <1>0, <1>4, <1>5, <1>6, <2>1, <2>2, FilesKept
<1>14. PICK d \in Ids : d = job[j].id
  BY <1>0
<1>15. FileSteady(d)'
  <2>1. FileSteady(d) /\ (meta[d] # Missing => meta[d].by \in Jobs)
    BY <1>0, <1>12, FilesThere
  <2>2. \A k \in Jobs : Touches(k, d) => Touches(k, d)'
    BY <1>4, <1>5 DEF Touches
  <2>3. \A l : \A k \in Jobs : KeyOf(k, l)' = KeyOf(k, l)
    BY <1>4, <1>5 DEF KeyOf
  <2>4. meta[d] # Missing =>
          /\ Touches(meta[d].by, d)' /\ meta[d].wrapped = KeyOf(meta[d].by, d[1])'
          /\ ~(job'[meta[d].by].at \in {"idle", "name"} /\ job'[meta[d].by].label = "app")
    BY <1>0, <1>4, <1>5, <2>1, <2>2, <2>3 DEF FileSteady
  <2>5. d[1] = job[j].label /\ job[j].key = KeyOf(j, job[j].label)
        /\ (job[j].label = "app" => job[j].snap \subseteq recorded)
    BY <1>0, <1>14 DEF JobSteady
  <2>6. Touches(j, d)' /\ f.key = KeyOf(j, d[1])'
    BY <1>4, <1>5, <1>10, <1>14, <2>5 DEF Touches
  <2>7. enc'[d] = f /\ meta'[d] = meta[d] /\ job'[j].at = "meta" /\ job'[j].label = job[j].label
    BY <1>0, <1>4, <1>5, <1>6, <1>14
  <2> QED BY <1>0, <1>4, <2>4, <2>5, <2>6, <2>7 DEF FileSteady
<1>16. \A i, k \in Ids : PairSound(i, k)'
  <2> SUFFICES ASSUME NEW i \in Ids, NEW k \in Ids, enc'[i] # Missing, enc'[k] # Missing,
                      enc'[i].by = enc'[k].by, i[1] = "app", k[1] = "audit"
               PROVE  enc'[i].snap \subseteq enc'[k].snap
    BY DEF PairSound
  <2>1. job[j].id[1] = job[j].label
    BY <1>0 DEF JobSteady
  <2>2. CASE i = job[j].id
    <3>1. k # job[j].id /\ enc'[k] = enc[k] /\ enc[k].by = j /\ enc[k] # Missing
      BY <1>4, <1>6, <2>2
    <3>2. job[j].label = "audit"
      BY <1>12, <3>1 DEF FileSteady
    <3> QED BY <2>1, <2>2, <3>2
  <2>3. CASE k = job[j].id /\ i # job[j].id
    <3>1. enc'[i] = enc[i] /\ enc[i].by = j /\ enc[i] # Missing /\ job[j].label = "audit"
      BY <1>4, <1>6, <2>1, <2>3
    <3>2. enc[i].snap \subseteq job[j].snap
      BY <1>0, <1>12, <3>1 DEF FileSteady
    <3> QED BY <1>4, <1>6, <2>3, <3>1, <3>2
  <2>4. CASE k # job[j].id /\ i # job[j].id
    <3>1. PairSound(i, k) /\ enc'[i] = enc[i] /\ enc'[k] = enc[k]
      BY <1>6, <2>4 DEF BackupInv
    <3> QED BY <3>1 DEF PairSound
  <2> QED BY <2>2, <2>3, <2>4
<1> QED BY <1>7, <1>9, <1>11, <1>13, <1>14, <1>15, <1>16 DEF BackupInv

\* The sidecar: the backup is finished, and the process goes on to the other database.
LEMMA SidecarKeeps ==
  ASSUME BackupInv, NEW j \in Jobs, WriteSidecar(j)
  PROVE  BackupInv'
<1>0. /\ BackupTypes /\ job[j].at = "meta" /\ job[j] \in JobRecord /\ job[j].label \in Labels /\ job[j].id \in Ids
      /\ JobSteady(j) /\ job[j].done \subseteq Ids /\ job[j].key \in Keys
      /\ UNCHANGED <<recorded, effected, master, changes, second, enc>>
  BY DEF BackupInv, BackupTypes, WriteSidecar, UnchangedWorld, JobRecord
<1>1. (CHOOSE l \in Labels : l # FirstLabel) = "audit"
  BY DEF Labels, FirstLabel
<1>2. PICK x \in JobRecord :
        x = [job[j] EXCEPT !.at = IF job[j].one \/ job[j].label # "app" THEN "done" ELSE "name", !.label = "audit",
                           !.snap = {}, !.key = NoKey, !.done = job[j].done \cup {job[j].id}]
  <2>1. job[j].done \cup {job[j].id} \in SUBSET Ids
    BY <1>0
  <2> QED BY <1>0, <2>1 DEF JobRecord, Steps, Labels, Keys
<1>3. PICK f \in Sidecars : f = [by |-> j, wrapped |-> job[j].key]
  BY <1>0 DEF Sidecars
<1>4. job' = [job EXCEPT ![j] = x] /\ meta' = [meta EXCEPT ![job[j].id] = f]
  <2>1. meta' = [meta EXCEPT ![job[j].id] = f]
    BY <1>3 DEF WriteSidecar
  <2>2. job' = [job EXCEPT ![j] = [job[j] EXCEPT !.at = IF job[j].one \/ job[j].label # FirstLabel
                                                       THEN "done" ELSE "name",
                                                 !.label = CHOOSE l \in Labels : l # FirstLabel,
                                                 !.snap = {}, !.key = NoKey,
                                                 !.done = job[j].done \cup {job[j].id}]]
    BY <1>0 DEF WriteSidecar, BackupTypes
  <2>3. FirstLabel = "app"
    BY DEF FirstLabel
  <2> QED BY <1>1, <1>2, <2>1, <2>2, <2>3
<1>5. /\ x.at \in {"done", "name"} /\ x.label = "audit" /\ x.done = job[j].done \cup {job[j].id} /\ x.id = job[j].id
      /\ x.master = job[j].master /\ x.backend = job[j].backend
      /\ f.by = j /\ f.wrapped = job[j].key
  BY <1>0, <1>2, <1>3 DEF JobRecord
<1>6. job' \in [Jobs -> JobRecord] /\ job'[j] = x /\ \A k \in Jobs \ {j} : job'[k] = job[k]
  BY <1>0, <1>4 DEF BackupTypes
<1>7. /\ meta' \in [Ids -> {Missing} \cup Sidecars] /\ meta'[job[j].id] = f /\ f # Missing
      /\ \A i \in Ids \ {job[j].id} : meta'[i] = meta[i]
  BY <1>0, <1>4, FilesThere DEF BackupTypes
<1>8. BackupTypes' /\ (effected \subseteq recorded)' /\ \A i, k \in Ids : PairSound(i, k)'
  BY <1>0, <1>6, <1>7 DEF BackupInv, BackupTypes, PairSound
<1>9. \A k \in Jobs : JobSteady(k) /\ job[k].id \in Ids /\ job[k].done \subseteq Ids
  BY <1>0 DEF BackupInv, BackupTypes, JobRecord
<1>10. \A i \in Ids : meta[i] # Missing => meta'[i] # Missing
  BY <1>7
<1>11. \A k \in Jobs \ {j} : JobSteady(k)'
  BY <1>0, <1>6, <1>9, <1>10, OtherJobs
<1>12. JobSteady(j)'
  <2>1. \A i \in job'[j].done : enc'[i] # Missing /\ meta'[i] # Missing
    BY <1>0, <1>5, <1>6, <1>7, <1>10 DEF JobSteady
  <2> QED BY <1>5, <1>6, <2>1 DEF JobSteady
<1>13. \A i \in Ids : FileSteady(i)
  BY DEF BackupInv
<1>14. \A i \in Ids : Touches(j, i) => Touches(j, i)'
  BY <1>5, <1>6 DEF Touches
<1>15. \A i \in Ids \ {job[j].id} : FileSteady(i)'
  <2> SUFFICES ASSUME NEW i \in Ids \ {job[j].id} PROVE FileSteady(i)'
    OBVIOUS
  <2>1. FileSteady(i) /\ (enc[i] # Missing => enc[i].by \in Jobs) /\ (meta[i] # Missing => meta[i].by \in Jobs)
    BY <1>0, <1>13, FilesThere
  <2> QED BY <1>0, <1>5, <1>6, <1>7, <1>14, <2>1, FilesKept
<1>16. PICK d \in Ids : d = job[j].id
  BY <1>0
<1>17. FileSteady(d)'
  <2>1. FileSteady(d) /\ (enc[d] # Missing => enc[d].by \in Jobs)
    BY <1>0, <1>13, FilesThere
  <2>2. \A k \in Jobs : Touches(k, d) => Touches(k, d)'
    BY <1>6, <1>14 DEF Touches
  <2>3. \A l : \A k \in Jobs : KeyOf(k, l)' = KeyOf(k, l)
    BY <1>5, <1>6 DEF KeyOf
  <2>4. enc'[d] = enc[d] /\ meta'[d] = f
    BY <1>0, <1>7, <1>16
  <2>5. enc[d] # Missing =>
          /\ Touches(enc[d].by, d)' /\ enc[d].key = KeyOf(enc[d].by, d[1])'
          /\ ~(job'[enc[d].by].at \in {"idle", "name"} /\ job'[enc[d].by].label = "app")
          /\ d[1] = "audit" => job'[enc[d].by].label = "audit"
          /\ d[1] = "app" => /\ enc[d].snap \subseteq recorded'
                             /\ job'[enc[d].by].at \in {"key", "enc"} /\ job'[enc[d].by].label = "audit" =>
                                  enc[d].snap \subseteq job'[enc[d].by].snap
    BY <1>0, <1>5, <1>6, <2>1, <2>2, <2>3 DEF FileSteady
  <2>6. Touches(j, d)' /\ f.wrapped = KeyOf(j, d[1])'
    BY <1>0, <1>5, <1>6, <1>16, <2>3 DEF Touches, JobSteady
  <2> QED BY <1>5, <1>6, <2>4, <2>5, <2>6 DEF FileSteady
<1> QED BY <1>8, <1>11, <1>12, <1>15, <1>16, <1>17 DEF BackupInv

\* The operations, the clock and the environment.
LEMMA WorldKeeps ==
  ASSUME BackupInv,
         \/ SecondPasses \/ \E m \in Masters : ReplaceMaster(m)
         \/ \E o \in Operations : Record(o) \/ TakeEffect(o)
  PROVE  BackupInv'
<1>0. BackupTypes /\ second \in 0..MaxSeconds /\ changes \in 0..MaxChanges /\ {MaxSeconds, MaxChanges} \subseteq Nat
  BY BackupAssumption DEF BackupInv, BackupTypes
<1>1. UNCHANGED <<enc, meta, job>> /\ recorded \subseteq recorded'
  BY DEF SecondPasses, ReplaceMaster, Record, TakeEffect
<1>2. second' \in 0..MaxSeconds /\ changes' \in 0..MaxChanges
  BY <1>0 DEF SecondPasses, ReplaceMaster, Record, TakeEffect
<1>3. /\ master' \in Masters \cup {NoKey} /\ effected' \subseteq Operations /\ recorded' \subseteq Operations
      /\ effected' \subseteq recorded'
  BY DEF BackupInv, BackupTypes, SecondPasses, ReplaceMaster, Record, TakeEffect
<1>4. BackupTypes'
  BY <1>0, <1>1, <1>2, <1>3 DEF BackupTypes
<1>5. \A j \in Jobs : JobSteady(j)'
  <2>1. \A j \in Jobs : JobSteady(j) /\ job[j].id \in Ids /\ job[j].done \subseteq Ids
    BY <1>0 DEF BackupInv, BackupTypes, JobRecord
  <2> QED BY <1>1, <2>1, OtherJobs
<1>6. \A i \in Ids : FileSteady(i)'
  BY <1>1, FilesOfOthers DEF BackupInv
<1>7. \A i, k \in Ids : PairSound(i, k)'
  BY <1>1 DEF BackupInv, PairSound
<1> QED BY <1>3, <1>4, <1>5, <1>6, <1>7 DEF BackupInv

-----------------------------------------------------------------------------
\* The inductive invariant: a job's key, id and dump at each step; of a file, that its job used
\* the id and the key of the file; of two dumps of a job, which is the later one.
THEOREM BackupInductive == BackupSpec => []BackupInv
<1>1. BackupInit => BackupInv
  <2> SUFFICES ASSUME BackupInit PROVE BackupInv
    OBVIOUS
  <2>1. 0 \in 0..MaxSeconds /\ 0 \in 0..MaxChanges
    BY BackupAssumption
  <2>2. Fresh \in JobRecord /\ Fresh.at = "idle" /\ Fresh.label = "app" /\ Fresh.done = {}
    BY <2>1 DEF Fresh, JobRecord, Steps, Backends, Labels, Ids, Keys
  <2>3. BackupTypes /\ effected \subseteq recorded
    BY <2>1, <2>2 DEF BackupInit, BackupTypes
  <2>4. (\A i \in Ids : enc[i] = Missing /\ meta[i] = Missing) /\ \A j \in Jobs : job[j] = Fresh
    BY DEF BackupInit
  <2>5. \A j \in Jobs : JobSteady(j)
    BY <2>2, <2>4 DEF JobSteady
  <2>6. \A i \in Ids : FileSteady(i)
    BY <2>4 DEF FileSteady
  <2>7. \A i, k \in Ids : PairSound(i, k)
    BY <2>4 DEF PairSound
  <2> QED BY <2>3, <2>5, <2>6, <2>7 DEF BackupInv
<1>2. BackupInv /\ [BackupNext]_backupVars => BackupInv'
  <2> SUFFICES ASSUME BackupInv, [BackupNext]_backupVars PROVE BackupInv'
    OBVIOUS
  <2>1. CASE UNCHANGED backupVars
    BY <2>1 DEF backupVars, BackupInv, BackupTypes, JobSteady, FileSteady, PairSound, KeyOf, Touches
  <2>2. CASE SecondPasses \/ (\E o \in Operations : Record(o) \/ TakeEffect(o)) \/ \E m \in Masters : ReplaceMaster(m)
    BY <2>2, WorldKeeps
  <2>3. ASSUME NEW j \in Jobs, NEW b \in Backends, NEW one \in BOOLEAN, StartJob(j, b, one) PROVE BackupInv'
    BY <2>3, StartKeeps
  <2>4. ASSUME NEW j \in Jobs,
               NameBackup(j) \/ RunPgDump(j) \/ ChooseKey(j) \/ WriteArtifact(j) \/ WriteSidecar(j) \/ JobFails(j)
        PROVE  BackupInv'
    BY <2>4, NameKeeps, DumpKeeps, ArtifactKeeps, SidecarKeeps
  <2> QED BY <2>1, <2>2, <2>3, <2>4 DEF BackupNext
<1> QED BY <1>1, <1>2, PTL DEF BackupSpec

\* What a finished backup gives back: its dump, when no other job took its second and the master
\* key is the job's.
LEMMA Restorable ==
  ASSUME BackupInv, NEW j \in Jobs, NEW i \in job[j].done, ~Replaced(i), job[j].master \in {master, NoKey}
  PROVE  enc[i].by = j /\ Restores(i, job[j].backend) = {enc[i].snap}
<1>0. /\ BackupTypes /\ JobSteady(j) /\ i \in Ids /\ FileSteady(i) /\ job[j].backend \in Backends
      /\ job[j].master \in Masters \cup {NoKey}
  BY DEF BackupInv, BackupTypes, JobRecord
<1>1. enc[i] # Missing /\ meta[i] # Missing
  BY <1>0 DEF JobSteady
<1>2. enc[i].by \in Jobs /\ meta[i].by \in Jobs
  BY <1>0, <1>1, FilesThere
<1>3. enc[i].by = j /\ meta[i].by = j
  BY <1>0, <1>1, <1>2 DEF FileSteady, Touches, Replaced
<1>4. enc[i].key = KeyOf(j, i[1]) /\ meta[i].wrapped = KeyOf(j, i[1])
  BY <1>0, <1>1, <1>3 DEF FileSteady
<1>5. CASE job[j].master = NoKey
  BY <1>1, <1>3, <1>4, <1>5 DEF KeyOf, Restores
<1>6. CASE job[j].master # NoKey
  <2>1. KeyOf(j, i[1]) # NoKey
    <3>1. i[1] \in Labels
      BY <1>0 DEF Ids
    <3>2. KeyOf(j, i[1]) \in ({"local"} \X Masters) \cup ({"aws", "vault"} \X Jobs \X {"app", "audit"})
      BY <1>0, <1>6, <3>1 DEF KeyOf, Backends, Labels
    <3> QED BY <3>2, BackupAssumption
  <2>2. Unwrap(job[j].backend, master, KeyOf(j, i[1])) = {KeyOf(j, i[1])}
    BY <1>0, <1>6 DEF Unwrap, DecryptLocal, DecryptAws, DecryptVault, KeyOf, Backends
  <2>3. Restores(i, job[j].backend) = {enc[i].snap : k \in {KeyOf(j, i[1])}}
    BY <1>1, <1>3, <1>4, <2>1, <2>2 DEF Restores
  <2> QED BY <1>3, <2>3
<1> QED BY <1>5, <1>6

\* BackupSound: a finished backup is restored to its dump, and the effects in the one dump of a
\* job have their records in the other.
THEOREM BackupCorrect == BackupSpec => [](BackupTypeOK /\ BackupSound)
<1>1. BackupInv => BackupTypeOK /\ BackupSound
  <2> SUFFICES ASSUME BackupInv PROVE BackupTypeOK /\ BackupSound
    OBVIOUS
  <2>1. BackupTypeOK
    BY DEF BackupInv, BackupTypes, BackupTypeOK
  <2>2. \A j \in Jobs : \A i \in job[j].done :
          ~Replaced(i) /\ job[j].master \in {master, NoKey}
            => /\ enc[i].by = j /\ Restores(i, job[j].backend) = {enc[i].snap}
    BY Restorable
  <2>3. \A i, k \in Ids :
          enc[i] # Missing /\ enc[k] # Missing /\ enc[i].by = enc[k].by /\ i[1] = "app" /\ k[1] = "audit"
            => enc[i].snap \subseteq enc[k].snap
    BY DEF BackupInv, PairSound
  <2> QED BY <2>1, <2>2, <2>3 DEF BackupSound
<1> QED BY <1>1, BackupInductive, PTL

-----------------------------------------------------------------------------
(* The components together.                                                *)

\* A behaviour of the whole is one of each component that takes part: nothing that one
\* does touches the state of another.
LEMMA RecordsRuns ==
  RecordsSpec => /\ ApprovalsSpec /\ HoldsSpec /\ LifeSpec /\ AuditSpec
                 /\ RetentionSpec /\ BackupSpec
<1>1. RecordsInit => /\ ApprovalsInit /\ HoldsInit /\ LifeInit /\ AuditInit
                     /\ RetentionInit /\ BackupInit
  BY DEF RecordsInit
<1>2. [RecordsNext]_recordsVars =>
        /\ [ApprovalsNext]_approvalVars /\ [HoldsNext]_holdVars
        /\ [LifeNext]_lifeVars /\ [AuditNext]_auditVars
        /\ [RetentionNext]_retentionVars /\ [BackupNext]_backupVars
  BY DEF RecordsNext, recordsVars
<1> QED
  BY <1>1, <1>2, PTL DEF RecordsSpec, ApprovalsSpec, HoldsSpec, LifeSpec, AuditSpec,
     RetentionSpec, BackupSpec

\* Every variable of the six keeps to its type, for any value of the constants.
THEOREM RecordsTypes == RecordsSpec => []RecordsTypeOK
<1>1. ApprovalsInv => ApprovalsTypeOK
  BY DEF ApprovalsInv
<1>2. HoldsInv => HoldsTypeOK
  BY DEF HoldsInv
<1> QED
  BY <1>1, <1>2, RecordsRuns, ApprovalsInductive, HoldsInductive, LifeCorrect, AuditCorrect,
     RetentionCorrect, BackupCorrect, PTL DEF RecordsTypeOK

\* What the logs say happened did: the log of an item tells, each once, the moves of its machine
\* that were written to its row, all but those whose call stopped in between, and in their order
\* where its calls did not overlap; the verifier accepts the audit log exactly when no row was late.
THEOREM LogsKept == RecordsSpec => []LogsSound
  BY RecordsRuns, LifeCorrect, AuditCorrect, PTL DEF LogsSound

\* What is kept is kept, where calls, sweeps and backups all run: a record is gone only past
\* the floor of its policy, a regulated tenant has the legacy path on by one of two breaches
\* alone, and a backup that its job has finished is restored to the dump of that job.
THEOREM RecordsKept == RecordsSpec => []RetentionSound /\ []BackupSound
  BY RecordsRuns, RetentionCorrect, BackupCorrect, PTL
=============================================================================
