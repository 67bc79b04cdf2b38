----------------------------- MODULE Retention -----------------------------
(***************************************************************************)
(* What a tenant's configuration decides about its records: the retention  *)
(* policy that is assigned to it, the records that are written under that  *)
(* policy, WORM mode, and the gate on a transcription path abroad.         *)
(*                                                                         *)
(*   packages/db/retention-engine.ts     packages/db/retention-store.ts    *)
(*   packages/db/worm-mode.ts            packages/db/governance.ts         *)
(*   packages/db/tenant-config.ts        packages/db/tenant-policies.ts    *)
(*   apps/server/src/api/compliance.ts   packages/db/schema.sql            *)
(*                                                                         *)
(* Every function runs its statements one by one on the pool.  The module  *)
(* is about one tenant; holds and the scheduler are in LegalHold.          *)
(***************************************************************************)
EXTENDS Naturals, Sequences

CONSTANTS
  RetentionCalls,  \* calls under way at a time
  Policies,        \* retention_policies, by name
  FloorOf,         \* their floors, in days
  Rows,            \* records that are written
  MaxDays,         \* bound: days that pass
  OverrideFloors,  \* the floors that an override may set
  MaxCalls,        \* bound: calls that are started
  NoPolicy

ASSUME RetentionAssumption ==
  /\ FloorOf \in [Policies -> Nat] /\ OverrideFloors \subseteq Nat
  /\ {MaxDays, MaxCalls} \subseteq Nat
  /\ NoPolicy \notin Policies

VARIABLES
  assigned,   \* tenant_retention_policies
  assignment, \* tenant_retention_policy_assignments, in order
  audited,    \* policies with an audit record of their assignment
  override,   \* retention_policy_entity_overrides
  rec,        \* entities of the tenant
  flag,       \* tenant_policies: worm_mode, regulated, assemblyai_legacy_enabled
  day,
  retentionCall,       \* of each call: its step and what it carries
  retentionStarted,    \* calls started
  crossed,    \* history: whether assignments overlapped, or one stopped half-way
  breach,     \* history: what let a regulated tenant keep the legacy path
  during      \* history: policies in force since a write looked its policy up

retentionVars ==
  <<assigned, assignment, audited, override, rec, flag, day, retentionCall, retentionStarted, crossed, breach, during>>

Resting == [do |-> "none", at |-> "idle", policy |-> NoPolicy, previous |-> NoPolicy, row |-> NoPolicy,
            kind |-> NoPolicy]
Absent  == [there |-> FALSE, class |-> NoPolicy, kind |-> NoPolicy, born |-> 0, content |-> "none",
            sealed |-> "none", gone |-> FALSE, window |-> {}]

\* The entity types that a policy covers and that are written under one.
Kinds == {"email", "corpus_chunk"}

RetentionInit ==
  /\ assigned = NoPolicy /\ assignment = <<>> /\ audited = {} /\ override = {}
  /\ rec = [r \in Rows |-> Absent]
  /\ flag = [worm |-> FALSE, regulated |-> FALSE, legacy |-> FALSE]
  /\ day = 0
  /\ retentionCall = [c \in RetentionCalls |-> Resting] /\ retentionStarted = 0
  /\ crossed = FALSE /\ breach = "none" /\ during = [c \in RetentionCalls |-> {}]

At(c, do, at)  == retentionCall[c].do = do /\ retentionCall[c].at = at
Begins(c, x)   == retentionCall[c] = Resting /\ retentionStarted < MaxCalls /\ retentionStarted' = retentionStarted + 1
                  /\ retentionCall' = [retentionCall EXCEPT ![c] = x]
Next1(c, at)   == retentionCall' = [retentionCall EXCEPT ![c].at = at]
Rest(c)        == retentionCall' = [retentionCall EXCEPT ![c] = Resting]

-----------------------------------------------------------------------------
(* assignRetentionPolicyToTenant.                                          *)

StartAssign(c, p) ==
  /\ Begins(c, [Resting EXCEPT !.do = "assign", !.at = "previous", !.policy = p])
  /\ crossed' = (crossed \/ \E d \in RetentionCalls : retentionCall[d].do = "assign")
  /\ UNCHANGED <<assigned, assignment, audited, override, rec, flag, day, breach, during>>

ReadPrevious(c) ==
  /\ At(c, "assign", "previous")
  /\ retentionCall' = [retentionCall EXCEPT ![c].at = "audit", ![c].previous = assigned]
  /\ UNCHANGED <<assigned, assignment, audited, override, rec, flag, day, retentionStarted, crossed, breach, during>>

\* A record that fails ends the call.
AuditAssign(c) ==
  /\ At(c, "assign", "audit")
  /\ \/ audited' = audited \cup {retentionCall[c].policy} /\ Next1(c, "upsert")
     \/ Rest(c) /\ UNCHANGED audited
  /\ UNCHANGED <<assigned, assignment, override, rec, flag, day, retentionStarted, crossed, breach, during>>

UpsertAssigned(c) ==
  /\ At(c, "assign", "upsert")
  /\ assigned' = retentionCall[c].policy
  /\ during' = [d \in RetentionCalls |->
       IF retentionCall[d].do = "write" THEN during[d] \cup {retentionCall[c].policy} ELSE {}]
  /\ Next1(c, "log")
  /\ UNCHANGED <<assignment, audited, override, rec, flag, day, retentionStarted, crossed, breach>>

LogAssignment(c) ==
  /\ At(c, "assign", "log")
  /\ assignment' = Append(assignment, [policy |-> retentionCall[c].policy, previous |-> retentionCall[c].previous])
  /\ Rest(c)
  /\ UNCHANGED <<assigned, audited, override, rec, flag, day, retentionStarted, crossed, breach, during>>

\* setEntityTypeRetentionOverride: the listing of the policies shows it, and no deletion
\* asks for it.
SetOverride(p, k, floor) ==
  /\ [policy |-> p, kind |-> k, floor |-> floor] \notin override
  /\ override' = {x \in override : x.policy # p \/ x.kind # k}
                   \cup {[policy |-> p, kind |-> k, floor |-> floor]}
  /\ UNCHANGED <<assigned, assignment, audited, rec, flag, day, retentionCall, retentionStarted, crossed, breach, during>>

-----------------------------------------------------------------------------
(* writeEmailWithRetention, writeCorpusChunkWithRetention.                 *)

\* Without a policy there is nothing to write under.
LookUpDefault(c, r, k) ==
  /\ assigned # NoPolicy /\ rec[r] = Absent /\ \A d \in RetentionCalls : retentionCall[d].row # r
  /\ Begins(c, [Resting EXCEPT !.do = "write", !.at = "insert", !.row = r, !.policy = assigned,
                               !.kind = k])
  /\ during' = [during EXCEPT ![c] = {assigned}]
  /\ UNCHANGED <<assigned, assignment, audited, override, rec, flag, day, crossed, breach>>

InsertUnder(c, kind) ==
  /\ At(c, "write", "insert") /\ retentionCall[c].kind = kind
  /\ rec' = [rec EXCEPT ![retentionCall[c].row] =
       [there |-> TRUE, class |-> retentionCall[c].policy, kind |-> kind, born |-> day,
        content |-> "original", sealed |-> "original", gone |-> FALSE, window |-> during[c]]]
  /\ during' = [during EXCEPT ![c] = {}]
  /\ Rest(c)
  /\ UNCHANGED <<assigned, assignment, audited, override, flag, day, retentionStarted, crossed, breach>>

InsertEmail(c)       == InsertUnder(c, "email")
InsertCorpusChunk(c) == InsertUnder(c, "corpus_chunk")

-----------------------------------------------------------------------------
(* The triggers guard_retention_floor and guard_worm_update.               *)

\* The trigger, the sweep and isWithinRetentionFloor take the floor of the policy, also
\* where the policy has an override for records of this kind.
Past(r) == day >= rec[r].born + FloorOf[rec[r].class]

GuardDelete(r) ==
  /\ rec[r].there /\ Past(r)
  /\ rec' = [rec EXCEPT ![r].there = FALSE, ![r].gone = TRUE]
  /\ UNCHANGED <<assigned, assignment, audited, override, flag, day, retentionCall, retentionStarted, crossed, breach, during>>

Mutable(r) == ~flag.worm \/ Past(r)

\* An edit of the record, by one statement.
Update(r) ==
  /\ rec[r].there /\ Mutable(r) /\ rec[r].content = "original"
  /\ rec' = [rec EXCEPT ![r].content = "edited",
                        ![r].sealed = IF flag.worm THEN @ ELSE "edited"]
  /\ UNCHANGED <<assigned, assignment, audited, override, flag, day, retentionCall, retentionStarted, crossed, breach, during>>

\* handleDataSubjectRequest reads the record, anonymises it and writes it back.
StartErasure(c, r) ==
  /\ rec[r].there
  /\ Begins(c, [Resting EXCEPT !.do = "erase", !.at = "update", !.row = r])
  /\ UNCHANGED <<assigned, assignment, audited, override, rec, flag, day, crossed, breach, during>>

\* Zero rows are no error, and a row the trigger refuses is.
WriteErasure(c) ==
  LET r == retentionCall[c].row IN
  /\ At(c, "erase", "update")
  /\ rec' = IF ~rec[r].there \/ ~Mutable(r) THEN rec
            ELSE [rec EXCEPT ![r].content = "erased", ![r].sealed = IF flag.worm THEN @ ELSE "erased"]
  /\ Rest(c)
  /\ UNCHANGED <<assigned, assignment, audited, override, flag, day, retentionStarted, crossed, breach, during>>

\* enableWorm, with an approved request of its type; nothing disables it.
EnableWormMode ==
  /\ ~flag.worm
  /\ flag' = [flag EXCEPT !.worm = TRUE]
  /\ UNCHANGED <<assigned, assignment, audited, override, rec, day, retentionCall, retentionStarted, crossed, breach, during>>

-----------------------------------------------------------------------------
(* setTenantRegulated, setAssemblyAiLegacyEnabled.                         *)

\* As Regulate below, had the legacy path been left as it was.
RegulateWrong(c) ==
  /\ Begins(c, Resting)
  /\ flag' = [flag EXCEPT !.regulated = TRUE]
  /\ UNCHANGED <<assigned, assignment, audited, override, rec, day, crossed, breach, during>>

Regulate(c) ==
  /\ Begins(c, [Resting EXCEPT !.do = "regulate", !.at = "look"])
  /\ flag' = [flag EXCEPT !.regulated = TRUE]
  /\ UNCHANGED <<assigned, assignment, audited, override, rec, day, crossed, breach, during>>

Deregulate ==
  /\ flag.regulated /\ flag' = [flag EXCEPT !.regulated = FALSE] /\ breach' = "none"
  /\ UNCHANGED <<assigned, assignment, audited, override, rec, day, retentionCall, retentionStarted, crossed, during>>

\* setAssemblyAiLegacyEnabled(false) asks for nothing.
TurnLegacyOff ==
  /\ flag.legacy /\ flag' = [flag EXCEPT !.legacy = FALSE] /\ breach' = "none"
  /\ UNCHANGED <<assigned, assignment, audited, override, rec, day, retentionCall, retentionStarted, crossed, during>>

LookAtLegacy(c) ==
  /\ At(c, "regulate", "look")
  /\ IF flag.legacy THEN Next1(c, "disable") ELSE Rest(c)
  /\ UNCHANGED <<assigned, assignment, audited, override, rec, flag, day, retentionStarted, crossed, breach, during>>

DisableLegacy(c) ==
  /\ At(c, "regulate", "disable")
  /\ flag' = [flag EXCEPT !.legacy = FALSE] /\ breach' = "none"
  /\ Rest(c)
  /\ UNCHANGED <<assigned, assignment, audited, override, rec, day, retentionStarted, crossed, during>>

LookAtRegulated(c) ==
  /\ ~flag.regulated
  /\ Begins(c, [Resting EXCEPT !.do = "legacy", !.at = "enable"])
  /\ UNCHANGED <<assigned, assignment, audited, override, rec, flag, day, crossed, breach, during>>

\* Whatever the tenant has become since the look.
EnableLegacy(c) ==
  /\ At(c, "legacy", "enable")
  /\ flag' = [flag EXCEPT !.legacy = TRUE]
  /\ breach' = IF flag.regulated THEN "overtaken" ELSE "none"
  /\ Rest(c)
  /\ UNCHANGED <<assigned, assignment, audited, override, rec, day, retentionStarted, crossed, during>>

-----------------------------------------------------------------------------
\* The server stops between two statements.
CutCall(c) ==
  /\ retentionCall[c] # Resting
  /\ crossed' = (crossed \/ At(c, "assign", "log"))
  /\ breach' = IF retentionCall[c].do = "regulate" /\ flag.regulated /\ flag.legacy THEN "cut" ELSE breach
  /\ Rest(c)
  /\ UNCHANGED <<assigned, assignment, audited, override, rec, flag, day, retentionStarted, during>>

DayPasses == day < MaxDays /\ day' = day + 1
  /\ UNCHANGED <<assigned, assignment, audited, override, rec, flag, retentionCall, retentionStarted, crossed, breach, during>>

RetentionNext ==
  \/ DayPasses \/ EnableWormMode \/ Deregulate \/ TurnLegacyOff
  \/ \E r \in Rows : GuardDelete(r) \/ Update(r)
  \/ \E p \in Policies, k \in Kinds, f \in OverrideFloors : SetOverride(p, k, f)
  \/ \E c \in RetentionCalls :
       \/ \E p \in Policies : StartAssign(c, p)
       \/ \E r \in Rows : (\E k \in Kinds : LookUpDefault(c, r, k)) \/ StartErasure(c, r)
       \/ ReadPrevious(c) \/ AuditAssign(c) \/ UpsertAssigned(c) \/ LogAssignment(c)
       \/ InsertEmail(c) \/ InsertCorpusChunk(c) \/ WriteErasure(c)
       \/ Regulate(c) \/ LookAtLegacy(c) \/ DisableLegacy(c) \/ LookAtRegulated(c) \/ EnableLegacy(c)
       \/ CutCall(c)

RetentionSpec == RetentionInit /\ [][RetentionNext]_retentionVars

-----------------------------------------------------------------------------
RetentionTypeOK ==
  /\ assigned \in Policies \cup {NoPolicy} /\ audited \subseteq Policies
  /\ assignment \in Seq([policy : Policies, previous : Policies \cup {NoPolicy}]) /\ day \in 0..MaxDays

Current == IF assignment = <<>> THEN NoPolicy ELSE assignment[Len(assignment)].policy

\* A tenant's policy has its audit record, and its history ends with that policy and
\* links each row to the one before, unless two assignments overlapped or one was cut.
\* A record's class was the tenant's while the record was being written; it is gone
\* only past the floor of that policy (an override, which the schema says takes
\* precedence, does not keep it), and under WORM its content is what it was when WORM
\* began.  A regulated tenant has the legacy path on only while a call is turning it
\* off, or from a call that looked before the tenant was regulated and wrote after it,
\* or from one that regulated and stopped before it turned the path off.
RetentionSound ==
  /\ assigned # NoPolicy => assigned \in audited
  /\ ~crossed /\ (\A c \in RetentionCalls : ~At(c, "assign", "log")) =>
       /\ Current = assigned
       /\ \A i \in DOMAIN assignment :
            assignment[i].previous = IF i = 1 THEN NoPolicy ELSE assignment[i - 1].policy
  /\ \A r \in Rows : rec[r].there \/ rec[r].gone =>
       /\ rec[r].class \in rec[r].window
       /\ rec[r].gone => Past(r)
       /\ flag.worm /\ ~Past(r) => rec[r].content = rec[r].sealed
  /\ flag.regulated /\ flag.legacy =>
       breach # "none" \/ \E c \in RetentionCalls : retentionCall[c].do = "regulate"
=============================================================================
