----------------------------- MODULE LegalHold -----------------------------
(***************************************************************************)
(* Legal holds with four-eyes removal, and the retention scheduler that    *)
(* they keep from deleting records.                                        *)
(*                                                                         *)
(*   packages/db/legal-hold.ts         packages/db/retention-engine.ts     *)
(*   packages/db/retention-scheduler.ts                                    *)
(*   apps/server/src/cron/jobs/retention-scheduler.ts                      *)
(*   packages/db/schema.sql                                                *)
(*                                                                         *)
(* The functions run their statements on the pool, each on its own, and    *)
(* the lock of SELECT ... FOR UPDATE ends with its statement.  Tenants     *)
(* share nothing, so the module is about the records of one.               *)
(***************************************************************************)
EXTENDS Naturals, Sequences

CONSTANTS
  Holds,        \* legal holds that may be placed
  Officers,     \* compliance officers
  MaxRemovals,  \* bound: rows of legal_hold_removal_requests
  Sessions,     \* calls of officers under way at a time
  Records,      \* records of the tenant, with a retention class
  Frozen,       \* those ingested with legal_hold = true
  Nobody        \* no hold, officer or record

ASSUME LegalHoldAssumption ==
  /\ Frozen \subseteq Records
  /\ MaxRemovals \in Nat
  /\ Nobody \notin Holds \cup Officers \cup Records

VARIABLES
  hold,     \* legal_holds.status, "none" before the row exists
  removal,  \* the rows of legal_hold_removal_requests
  session,  \* per call: what it has read and is about to write
  kept,     \* records that are there
  past,     \* records past the floor of their retention class
  sweep,    \* the scheduler: the rows of its scan and the one it has checked
  fresh     \* history: holds that came into force since that check

holdVars == <<hold, removal, session, kept, past, sweep, fresh>>

InForce(h) == hold[h] \in {"active", "pending_removal"}

NoSession == [pc |-> "idle", hold |-> Nobody, removal |-> 0, by |-> Nobody, verdict |-> "none"]
Asleep    == [pc |-> "asleep", batch |-> {}, record |-> Nobody]

HoldsInit ==
  /\ hold    = [h \in Holds |-> "none"]
  /\ removal = <<>>
  /\ session = [c \in Sessions |-> NoSession]
  /\ kept    = Records
  /\ past    = {}
  /\ sweep   = Asleep
  /\ fresh   = {}

SessionAt(c, pc)  == session[c].pc = pc
Goes(c, pc)       == session' = [session EXCEPT ![c].pc = pc]
Leaves(c)         == session' = [session EXCEPT ![c] = NoSession]
UnchangedSweep    == UNCHANGED <<kept, past, sweep>>

\* A status that is written to a hold, and the history it leaves.
SetHold(h, to) ==
  /\ hold' = [hold EXCEPT ![h] = to]
  /\ fresh' = IF ~InForce(h) /\ to # "removed" THEN fresh \cup {h} ELSE fresh

\* UNIQUE (hold_id, status, requested_by).
Taken(h, status, o) ==
  \E q \in DOMAIN removal : removal[q].hold = h /\ removal[q].status = status /\ removal[q].by = o

-----------------------------------------------------------------------------
(* placeLegalHold, requestHoldRemoval.                                     *)

PlaceLegalHold(h) ==
  /\ hold[h] = "none"
  /\ SetHold(h, "active")
  /\ UNCHANGED <<removal, session>> /\ UnchangedSweep

StartRemovalRequest(c, o, h) ==
  /\ SessionAt(c, "idle") /\ hold[h] = "active"
  /\ session' = [session EXCEPT ![c] =
       [pc |-> "mark", hold |-> h, removal |-> 0, by |-> o, verdict |-> "none"]]
  /\ UNCHANGED <<hold, removal, fresh>> /\ UnchangedSweep

MarkPendingRemoval(c) ==
  /\ SessionAt(c, "mark")
  /\ SetHold(session[c].hold, "pending_removal") /\ Goes(c, "insert")
  /\ UNCHANGED removal /\ UnchangedSweep

InsertRemoval(c) ==
  /\ SessionAt(c, "insert")
  /\ \/ /\ Taken(session[c].hold, "pending", session[c].by)
        /\ UNCHANGED removal
     \/ /\ ~Taken(session[c].hold, "pending", session[c].by)
        /\ Len(removal) < MaxRemovals
        /\ removal' = Append(removal,
             [status |-> "pending", hold |-> session[c].hold, by |-> session[c].by, co |-> Nobody])
  /\ Leaves(c)
  /\ UNCHANGED <<hold, fresh>> /\ UnchangedSweep

-----------------------------------------------------------------------------
(* approveHoldRemoval, rejectHoldRemoval.                                  *)

\* As StartVerdict below, had the two officers not been compared.
StartVerdictWrong(c, o, q, verdict) ==
  /\ SessionAt(c, "idle") /\ removal[q].status = "pending"
  /\ session' = [session EXCEPT ![c] =
       [pc |-> "resolve", hold |-> removal[q].hold, removal |-> q, by |-> o, verdict |-> verdict]]
  /\ UNCHANGED <<hold, removal, fresh>> /\ UnchangedSweep

\* The officer who approves is not the one who asked; to reject, anyone will do.
StartVerdict(c, o, q, verdict) ==
  /\ SessionAt(c, "idle") /\ removal[q].status = "pending"
  /\ verdict = "approved" => removal[q].by # o
  /\ session' = [session EXCEPT ![c] =
       [pc |-> "resolve", hold |-> removal[q].hold, removal |-> q, by |-> o, verdict |-> verdict]]
  /\ UNCHANGED <<hold, removal, fresh>> /\ UnchangedSweep

ResolveRemoval(c) ==
  LET q == session[c].removal  verdict == session[c].verdict IN
  /\ SessionAt(c, "resolve")
  /\ \/ /\ removal[q].status # verdict /\ Taken(removal[q].hold, verdict, removal[q].by)
        /\ Leaves(c) /\ UNCHANGED removal
     \/ /\ removal[q].status = verdict \/ ~Taken(removal[q].hold, verdict, removal[q].by)
        /\ removal' = [removal EXCEPT ![q].status = verdict,
                                      ![q].co = IF verdict = "approved" THEN session[c].by ELSE @]
        /\ Goes(c, "settle")
  /\ UNCHANGED <<hold, fresh>> /\ UnchangedSweep

\* As SettleHold below, had the hold been given the status of the request.
SettleHoldWrong(c) ==
  /\ SessionAt(c, "settle")
  /\ SetHold(session[c].hold, session[c].verdict)
  /\ Leaves(c)
  /\ UNCHANGED removal /\ UnchangedSweep

SettleHold(c) ==
  /\ SessionAt(c, "settle")
  /\ SetHold(session[c].hold, IF session[c].verdict = "approved" THEN "removed" ELSE "active")
  /\ Leaves(c)
  /\ UNCHANGED removal /\ UnchangedSweep

\* A call is lost with its server, between two statements.
LoseSession(c) ==
  /\ session[c].pc \notin {"idle", "lost"}
  /\ IF session[c].pc \in {"insert", "settle"} THEN Goes(c, "lost") ELSE Leaves(c)
  /\ UNCHANGED <<hold, removal, fresh>> /\ UnchangedSweep

-----------------------------------------------------------------------------
(* runRetentionScheduler, deleteEntityPastRetention.                       *)

GrowOld(e) ==
  /\ e \in kept \ past
  /\ past' = past \cup {e}
  /\ UNCHANGED <<hold, removal, session, kept, sweep, fresh>>

Scan ==
  /\ sweep.pc = "asleep" /\ \A h \in Holds : ~InForce(h)
  /\ sweep' = [pc |-> "rows", batch |-> (kept \cap past) \ Frozen, record |-> Nobody]
  /\ UNCHANGED <<hold, removal, session, kept, past, fresh>>

\* A row that is held by now, or not past its floor, is skipped.
CheckRecord(e) ==
  /\ sweep.pc = "rows" /\ e \in sweep.batch
  /\ sweep' = IF e \in past /\ \A h \in Holds : ~InForce(h)
              THEN [sweep EXCEPT !.pc = "delete", !.record = e]
              ELSE [sweep EXCEPT !.batch = @ \ {e}]
  /\ fresh' = {}
  /\ UNCHANGED <<hold, removal, session, kept, past>>

\* The trigger guard_retention_floor knows of no holds.
DeleteRecord ==
  /\ sweep.pc = "delete" /\ sweep.record \in past
  /\ kept' = kept \ {sweep.record}
  /\ sweep' = [pc |-> "rows", batch |-> sweep.batch \ {sweep.record}, record |-> Nobody]
  /\ UNCHANGED <<hold, removal, session, past, fresh>>

\* The scan is done, or its server is gone.
EndSweep ==
  /\ sweep.pc # "asleep"
  /\ sweep' = Asleep
  /\ UNCHANGED <<hold, removal, session, kept, past, fresh>>

HoldsNext ==
  \/ \E h \in Holds : PlaceLegalHold(h)
  \/ \E c \in Sessions, o \in Officers :
       \/ \E h \in Holds : StartRemovalRequest(c, o, h)
       \/ \E q \in DOMAIN removal, verdict \in {"approved", "rejected"} : StartVerdict(c, o, q, verdict)
  \/ \E c \in Sessions :
       \/ MarkPendingRemoval(c) \/ InsertRemoval(c)
       \/ ResolveRemoval(c) \/ SettleHold(c) \/ LoseSession(c)
  \/ \E e \in Records : GrowOld(e) \/ CheckRecord(e)
  \/ Scan \/ DeleteRecord \/ EndSweep

HoldsSpec == HoldsInit /\ [][HoldsNext]_holdVars

-----------------------------------------------------------------------------
RemovalRows == [status : {"pending", "approved", "rejected"}, hold : Holds, by : Officers,
                co : {Nobody} \cup Officers]
SessionRows == [pc : {"idle", "mark", "insert", "resolve", "settle", "lost"}, hold : {Nobody} \cup Holds,
                removal : 0..MaxRemovals, by : {Nobody} \cup Officers,
                verdict : {"none", "approved", "rejected"}]

\* Every variable keeps to its type.
HoldsTypeOK ==
  /\ hold \in [Holds -> {"none", "active", "pending_removal", "removed"}]
  /\ removal \in Seq(RemovalRows) /\ Len(removal) <= MaxRemovals
  /\ session \in [Sessions -> SessionRows]
  /\ kept \subseteq Records /\ past \subseteq Records /\ fresh \subseteq Holds
  /\ sweep \in [pc : {"asleep", "rows", "delete"}, batch : SUBSET Records, record : {Nobody} \cup Records]

\* Four eyes: however calls overlap, a hold is out of force only after one officer
\* asked for its removal and another approved that request.
FourEyes ==
  \A h \in Holds :
    hold[h] = "removed" =>
      \E q \in DOMAIN removal : removal[q].hold = h /\ removal[q].co \notin {Nobody, removal[q].by}

\* A hold that waits for a second officer has a request for one to decide on, or a
\* call that has still to insert or settle it, or that was lost before it could.
RemovalTracked ==
  \A h \in Holds :
    hold[h] = "pending_removal" =>
      \/ \E q \in DOMAIN removal : removal[q].hold = h /\ removal[q].status = "pending"
      \/ \E c \in Sessions : session[c].hold = h /\ session[c].pc \in {"insert", "settle", "lost"}

\* The scheduler is about to delete a record only if no hold was in force when it
\* checked, a hold whose removal is pending included: what is in force now came
\* into force since.
HoldsRespected ==
  sweep.pc = "delete" => \A h \in Holds : InForce(h) => h \in fresh

\* What a hold promises as long as it is in force, and how it ceases to be.
HoldsSound == FourEyes /\ RemovalTracked /\ HoldsRespected
=============================================================================
