----------------------------- MODULE AuditChain -----------------------------
(***************************************************************************)
(* The hash-chained audit log, its verifier, and the two orders in which   *)
(* an operation writes its record and its effect.                          *)
(*                                                                         *)
(*   apps/server/src/policies/audit-service.ts    packages/core/audit.ts   *)
(*   apps/server/src/api/audit.ts     packages/db/audit-schema.sql         *)
(*   apps/server/src/policies/reidentification-service.ts                  *)
(*   packages/db/governance.ts                                             *)
(*                                                                         *)
(* A row is hashed with the hash of the row that was the latest, and the   *)
(* latest is decided by the timestamps that the callers supply.  A hash is *)
(* the place at which its row was committed: the payload holds a random id *)
(* or a time, and no two rows of the model have the same one.              *)
(***************************************************************************)
EXTENDS Naturals, Sequences, FiniteSets

CONSTANTS
  Audited,  \* operations that write an audit record
  MaxNow    \* bound: milliseconds that pass

ASSUME AuditAssumption == MaxNow \in Nat /\ IsFiniteSet(Audited)

VARIABLES
  log,   \* audit_events, in the order of their commits
  now,   \* the clock of the callers
  op,    \* of each operation: its step, timestamp, snapshot and the row it read
  held,  \* the row that SELECT ... FOR UPDATE has locked, by operation
  late   \* history: rows that were not the latest when they were committed

auditVars == <<log, now, op, held, late>>

Genesis == 0
Nothing == [at |-> "idle", kind |-> "none", ts |-> 0, seen |-> 0, prev |-> Genesis, done |-> FALSE]

\* ORDER BY ts, id: the ids are random.
Newer(x, y) == x.ts > y.ts \/ (x.ts = y.ts /\ x.id > y.id)

\* The latest of the first n rows committed, as a snapshot sees them.
Latest(n) ==
  IF n = 0 THEN Genesis
  ELSE CHOOSE i \in 1..n : \A j \in 1..n : j # i => Newer(log[i], log[j])

-----------------------------------------------------------------------------
AuditInit ==
  /\ log = <<>> /\ now = 0 /\ late = {}
  /\ op = [o \in Audited |-> Nothing]
  /\ held = [o \in Audited |-> Genesis]

Moves(o, x) == op' = [op EXCEPT ![o] = x]

\* Most operations write their record before their effect; an erasure and the like,
\* whose record may fail, after it.
Start(o, kind) ==
  /\ op[o].at = "idle"
  /\ Moves(o, [Nothing EXCEPT !.at = IF kind = "closed" THEN "select" ELSE "effect",
                              !.kind = kind, !.ts = now])
  /\ UNCHANGED <<log, now, held, late>>

StartClosed(o) == Start(o, "closed")
StartOpen(o)   == Start(o, "open")

Effect(o) ==
  /\ op[o].at = "effect"
  /\ Moves(o, IF op[o].kind = "closed" THEN [op[o] EXCEPT !.at = "done", !.done = TRUE]
              ELSE [op[o] EXCEPT !.at = "select", !.done = TRUE, !.ts = now])
  /\ UNCHANGED <<log, now, held, late>>

\* The statement takes the snapshot, and then waits for the lock of its row.
SelectLatest(o) ==
  /\ op[o].at = "select"
  /\ Moves(o, [op[o] EXCEPT !.at = "lock", !.seen = Len(log), !.prev = Latest(Len(log))])
  /\ UNCHANGED <<log, now, held, late>>

LockLatest(o) ==
  /\ op[o].at = "lock"
  /\ op[o].prev = Genesis \/ \A p \in Audited : held[p] # op[o].prev
  /\ held' = [held EXCEPT ![o] = op[o].prev]
  /\ Moves(o, [op[o] EXCEPT !.at = "insert"])
  /\ UNCHANGED <<log, now, late>>

\* The callers that read a latest row and insert in a transaction of no isolation.
ConflictsWrong(o, row) == FALSE

\* SERIALIZABLE: a row committed since the snapshot would have been read, and this
\* one would have been read by the transaction that wrote it.
Conflicts(o, row) == \E i \in op[o].seen + 1..Len(log) :
  /\ op[o].prev = Genesis \/ Newer(log[i], log[op[o].prev])
  /\ log[i].prev = Genesis \/ Newer(row, log[log[i].prev])

Unlocks(o) == held' = [held EXCEPT ![o] = Genesis]

\* COMMIT, and what the operation then is at.
Commit(o, next) == \E id \in 1..Cardinality(Audited) :
  LET row == [ts |-> op[o].ts, id |-> id, prev |-> op[o].prev, of |-> o] IN
  /\ op[o].at = "insert" /\ \A i \in DOMAIN log : log[i].id # id
  /\ ~Conflicts(o, row)
  /\ log' = Append(log, row)
  /\ late' = IF \A i \in DOMAIN log : Newer(row, log[i]) THEN late ELSE late \cup {Len(log) + 1}
  /\ Moves(o, [op[o] EXCEPT !.at = next])
  /\ Unlocks(o)
  /\ UNCHANGED now

Append1(o) == Commit(o, IF op[o].kind = "closed" THEN "effect" ELSE "done")

\* COMMIT is done and its answer lost: the row is there, and the caller told that it is
\* not.  One that records first gives its effect up, as after any failure.
AnswerLost(o) == Commit(o, "doubted")

\* A serialization failure, or a connection that is gone: ROLLBACK, and the caller
\* gives its effect up, or has had it.
AppendFails(o) ==
  /\ op[o].at \in {"select", "lock", "insert"}
  /\ Moves(o, [op[o] EXCEPT !.at = IF op[o].kind = "closed" THEN "refused" ELSE "unrecorded"])
  /\ Unlocks(o)
  /\ UNCHANGED <<log, now, late>>

\* The server stops.
Lost(o) ==
  /\ op[o].at \in {"effect", "select", "lock", "insert"}
  /\ Moves(o, [op[o] EXCEPT !.at = "lost"])
  /\ Unlocks(o)
  /\ UNCHANGED <<log, now, late>>

Tick == now < MaxNow /\ now' = now + 1 /\ UNCHANGED <<log, op, held, late>>

AuditNext ==
  \/ Tick
  \/ \E o \in Audited :
       \/ StartClosed(o) \/ StartOpen(o) \/ Effect(o) \/ SelectLatest(o) \/ LockLatest(o)
       \/ Append1(o) \/ AnswerLost(o) \/ AppendFails(o) \/ Lost(o)

AuditSpec == AuditInit /\ [][AuditNext]_auditVars

-----------------------------------------------------------------------------
AuditTypeOK ==
  /\ now \in 0..MaxNow /\ late \subseteq DOMAIN log
  /\ \A i \in DOMAIN log : log[i].prev \in 0..i - 1 /\ log[i].of \in Audited

\* GET /api/audit/verify takes the rows by time: those before one.
InOrder(i) == {j \in DOMAIN log : Newer(log[i], log[j])}

\* Each row is on the hash of the one before, and the first on none.
Valid ==
  \A i \in DOMAIN log :
    IF InOrder(i) = {} THEN log[i].prev = Genesis
    ELSE /\ log[i].prev \in InOrder(i)
         /\ \A j \in InOrder(i) \ {log[i].prev} : Newer(log[log[i].prev], log[j])

Recorded(o) == \E i \in DOMAIN log : log[i].of = o

\* However appenders interleave and fail, the verifier accepts the log exactly when
\* every row was the latest as it was committed; an operation that writes its record
\* first takes effect only if recorded, and one recorded without its effect was stopped
\* in between or never heard of its COMMIT: a refusal for a rollback leaves no record.
AuditSound ==
  /\ Valid <=> late = {}
  /\ \A o \in Audited : op[o].kind = "closed" =>
       /\ op[o].done => Recorded(o)
       /\ Recorded(o) /\ ~op[o].done => op[o].at \in {"effect", "lost", "doubted"}

\* "Ensures no two concurrent writers can select the same prev_hash"
\* (apps/server/src/policies/audit-service.ts:26).
NoFork == \A i, j \in DOMAIN log : log[i].prev = log[j].prev => i = j
=============================================================================
