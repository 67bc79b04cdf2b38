--------------------------- MODULE TaskQueueProofs ---------------------------
(***************************************************************************)
(* The task queue, the worker loop and the page that its triggers tell,    *)
(* and the scheduled jobs, for any finite set of tasks, any workers,       *)
(* tokens, servers, jobs and flags and any values of the numeric           *)
(* constants.                                                              *)
(***************************************************************************)
EXTENDS MCTaskQueue, FiniteSetTheorems, SequenceTheorems, TLAPS

-----------------------------------------------------------------------------
(* The queue.                                                              *)

(* Type correctness.                                                       *)

\* The rank of created_at that enqueueTask writes is a natural number.
LEMMA CountNat == Cardinality({u \in Tasks : Exists(u)}) \in Nat
<1> {u \in Tasks : Exists(u)} \in SUBSET Tasks
  OBVIOUS
<1> QED
  BY TasksAssumption, FS_Subset, FS_CardinalityType

\* What each UPDATE makes of a well-typed row is well typed; recovery needs the
\* claim it ends to have been counted.
LEMMA RowTypes ==
  ASSUME NEW rec \in Row
  PROVE  /\ \A w \in Workers, tok \in Tokens \cup {None} : Claimed(rec, w, tok) \in Row
         /\ Requeued(rec) \in Row
         /\ \A s \in Statuses : WithStatus(rec, s) \in Row
         /\ \A who \in Workers \cup {Operator} : Completed(rec, who) \in Row
         /\ Aged(rec) \in Row
         /\ rec.attempt > 0 => Recovered(rec) \in Row
<1>1. \A w \in Workers, tok \in Tokens \cup {None} : Claimed(rec, w, tok) \in Row
  <2> TAKE w \in Workers, tok \in Tokens \cup {None}
  <2> ClaimTTL \in Nat /\ rec.attempt + 1 \in Nat
    BY TimeAssumption DEF Row
  <2> QED
    BY DEF Claimed, Row, Statuses
<1>2. Requeued(rec) \in Row
  BY DEF Requeued, Row, Statuses
<1>3. \A s \in Statuses : WithStatus(rec, s) \in Row
  BY DEF WithStatus, Row
<1>4. \A who \in Workers \cup {Operator} : Completed(rec, who) \in Row
  BY DEF Completed, Row, Statuses
<1>5. Aged(rec) \in Row
  <2> Less(rec.left) \in Nat /\ Less(rec.wait) \in Nat
    BY DEF Less, Row
  <2> QED
    BY DEF Aged, Row
<1>6. ASSUME rec.attempt > 0, rec.attempt < MaxAttempts PROVE Recovered(rec) \in Row
  <2> BackoffTicks[rec.attempt] \in Nat
    BY <1>6, TimeAssumption, AttemptAssumption DEF Row
  <2> QED
    BY <1>6 DEF Recovered, Row, Statuses
<1>7. ASSUME ~(rec.attempt < MaxAttempts) PROVE Recovered(rec) \in Row
  BY <1>7 DEF Recovered, Row, Statuses
<1> QED
  BY <1>1, <1>2, <1>3, <1>4, <1>5, <1>6, <1>7

\* A claim that was ever granted has been counted, and a worker that is not idle
\* has a task: what the type of a recovered row and of a failed one rests on.
Counted ==
  /\ \A t \in Tasks : task[t].claimed_by # None => task[t].attempt > 0
  /\ \A w \in Workers : job[w].pc # "idle" => job[w].task \in Tasks

TypeInv == TypeOK /\ Counted

\* There are no rows and no jobs at first.
LEMMA TypeInit == Init => TypeInv
  BY WorkersAssumption DEF Init, TypeInv, TypeOK, Counted, NoRow, Row, Idle, Job, Statuses

\* A step that rewrites one row by one of the UPDATEs above keeps the invariant
\* of the table.
LEMMA OneRow ==
  ASSUME TypeInv, NEW t \in Tasks, NEW rec \in Row,
         rec.claimed_by # None => rec.attempt > 0,
         task' = [task EXCEPT ![t] = rec]
  PROVE  /\ task' \in [Tasks -> Row]
         /\ \A u \in Tasks : task'[u].claimed_by # None => task'[u].attempt > 0
BY DEF TypeInv, TypeOK, Counted

\* Each statement on the queue, and each step of a worker, keeps the types.
LEMMA TypeStep == TypeInv /\ [Next]_vars => TypeInv'
<1> SUFFICES ASSUME TypeInv, [Next]_vars PROVE TypeInv'
  OBVIOUS
<1> USE DEF TypeInv, TypeOK
<1>1. ASSUME NEW t \in Tasks, Enqueue(t) PROVE TypeInv'
  BY <1>1, CountNat DEF Enqueue, NoRow, Row, Statuses, Counted
<1>2. ASSUME NEW t \in Tasks, RequeueDlqTask(t) PROVE TypeInv'
  <2> Requeued(task[t]).claimed_by = None
    BY DEF Requeued, Row
  <2> QED
    BY <1>2, RowTypes, OneRow DEF RequeueDlqTask, Counted
<1>3. ASSUME NEW t \in Tasks, PostResult(t) PROVE TypeInv'
  <2> /\ Completed(task[t], Operator).claimed_by = task[t].claimed_by
      /\ Completed(task[t], Operator).attempt = task[t].attempt
    BY DEF Completed, Row
  <2> QED
    BY <1>3, RowTypes, OneRow DEF PostResult, Counted
<1>4. ASSUME NEW t \in Tasks, NEW s \in ManualStatuses, PatchStatus(t, s) PROVE TypeInv'
  <2> /\ WithStatus(task[t], s).claimed_by = task[t].claimed_by
      /\ WithStatus(task[t], s).attempt = task[t].attempt
    BY DEF WithStatus, Row
  <2> QED
    BY <1>4, ManualAssumption, RowTypes, OneRow DEF PatchStatus, Counted
<1>5. ASSUME NEW w \in Workers, NEW tok \in Tokens \cup {None}, Claim(w, tok) PROVE TypeInv'
  <2> PICK t \in Tasks :
        /\ task' = [task EXCEPT ![t] = Claimed(@, w, tok)]
        /\ job' = [job EXCEPT ![w] = [pc |-> "working", task |-> t, token |-> tok]]
    BY <1>5 DEF Claim
  <2> Claimed(task[t], w, tok).attempt > 0
    BY DEF Claimed, Row
  <2>1. /\ task' \in [Tasks -> Row]
        /\ \A u \in Tasks : task'[u].claimed_by # None => task'[u].attempt > 0
    BY RowTypes, OneRow
  <2>2. job' \in [Workers -> Job] /\ lease' \in [Workers -> Nat]
    BY <1>5, TimeAssumption DEF Claim, Job
  <2> QED
    BY <1>5, <2>1, <2>2 DEF Claim, Counted
<1>6. ASSUME NEW w \in Workers, ExecutionFails(w) \/ ResponseLost(w) PROVE TypeInv'
  BY <1>6 DEF ExecutionFails, ResponseLost, Goes, Job, Counted
<1>7. ASSUME NEW w \in Workers, SubmitResult(w) PROVE TypeInv'
  BY <1>7 DEF SubmitResult, Goes, Job, Counted, Request
<1>8. ASSUME NEW w \in Workers, MarkFailed(w) PROVE TypeInv'
  <2> DEFINE t == job[w].task
  <2> t \in Tasks
    BY <1>8 DEF MarkFailed, Counted
  <2> WithStatus(task[t], "failed") \in Row
    BY RowTypes DEF Statuses
  <2>1. /\ WithStatus(task[t], "failed").claimed_by = task[t].claimed_by
        /\ WithStatus(task[t], "failed").attempt = task[t].attempt
    BY DEF WithStatus, Row
  <2>2. CASE task' = [task EXCEPT ![t] = WithStatus(@, "failed")]
    BY <1>8, <2>1, <2>2, OneRow DEF MarkFailed, Counted, Idle, Job
  <2>3. CASE UNCHANGED task
    BY <1>8, <2>3 DEF MarkFailed, Counted, Idle, Job
  <2> QED
    BY <1>8, <2>2, <2>3 DEF MarkFailed
<1>9. ASSUME NEW w \in Workers, WorkerCrash(w) PROVE TypeInv'
  BY <1>9 DEF WorkerCrash, Idle, Job, Counted
<1>10. ASSUME NEW r \in Request, VerifyPasses(r) \/ RequestDropped(r) PROVE TypeInv'
  BY <1>10 DEF VerifyPasses, RequestDropped, Advance, Request, Counted
<1>11. ASSUME NEW r \in Request, VerifyRejects(r) PROVE TypeInv'
  BY <1>11 DEF VerifyRejects, Awaits, Job, Counted
<1>12. ASSUME NEW r \in Request, ConsumeToken(r) PROVE TypeInv'
  BY <1>12 DEF ConsumeToken, Advance, Request, Counted
<1>13. ASSUME NEW r \in Request, StoreResult(r) PROVE TypeInv'
  <2> r.task \in Tasks /\ r.from \in Workers
    BY DEF Request
  <2> /\ Completed(task[r.task], r.from).claimed_by = task[r.task].claimed_by
      /\ Completed(task[r.task], r.from).attempt = task[r.task].attempt
    BY DEF Completed, Row
  <2>1. /\ task' \in [Tasks -> Row]
        /\ \A u \in Tasks : task'[u].claimed_by # None => task'[u].attempt > 0
    BY <1>13, RowTypes, OneRow DEF StoreResult, Counted
  <2>2. job' \in [Workers -> Job] /\ lease' \in [Workers -> Nat]
    BY <1>13 DEF StoreResult, Awaits, Idle, Job
  <2> QED
    BY <1>13, <2>1, <2>2 DEF StoreResult, Idle, Counted
<1>14. CASE RecoverStaleClaims
  <2> \A t \in Tasks : Stale(t) => Recovered(task[t]) \in Row
    BY RowTypes DEF Stale, Counted
  <2> \A t \in Tasks : Recovered(task[t]).claimed_by = None
    BY DEF Recovered, Row
  <2> QED
    BY <1>14 DEF RecoverStaleClaims, Counted
<1>15. CASE Tick
  <2> \A t \in Tasks : /\ Aged(task[t]).claimed_by = task[t].claimed_by
                       /\ Aged(task[t]).attempt = task[t].attempt
    BY DEF Aged, Row
  <2> QED
    BY <1>15, RowTypes DEF Tick, Less, Counted
<1>16. CASE UNCHANGED vars
  BY <1>16 DEF vars, Counted
<1> QED
  BY <1>1, <1>2, <1>3, <1>4, <1>5, <1>6, <1>7, <1>8, <1>9, <1>10, <1>11, <1>12,
     <1>13, <1>14, <1>15, <1>16 DEF Next, Worker, Handler

\* Every variable keeps its type, for every value of the constants.
THEOREM TypeCorrect == Spec => []TypeOK
<1>1. TypeInv => TypeOK
  BY DEF TypeInv
<1> QED
  BY <1>1, TypeInit, TypeStep, PTL DEF Spec

-----------------------------------------------------------------------------
(* Exclusive claims.                                                       *)

\* While an operator puts no row back to pending or dead by hand, a worker whose
\* claim has not expired is named by the row, with the same deadline, and the row
\* is in no status from which it can be claimed or requeued.
Held(w) ==
  /\ job[w].pc # "idle"
  /\ LET rec == task[job[w].task] IN
       /\ rec.claimed_by = w
       /\ rec.left = lease[w]
       /\ rec.status \notin {"absent", "pending", "dead"}

LeaseInv == \A w \in Workers : lease[w] > 0 => Held(w)

NoManualReset == ManualStatuses \cap {"pending", "dead"} = {}

\* No worker holds a claim at first.
LEMMA LeaseInit == Init => LeaseInv
  BY DEF Init, LeaseInv

\* A step that leaves the claim columns and the claimability of every row alone,
\* and no worker with more of a lease or less to do, keeps the leases.
LEMMA LeaseKept ==
  ASSUME LeaseInv,
         \A w \in Workers : lease'[w] > 0 =>
           lease'[w] = lease[w] /\ job'[w].pc # "idle" /\ job'[w].task = job[w].task,
         \A w \in Workers : Held(w) =>
           LET t == job[w].task IN
             /\ task'[t].claimed_by = task[t].claimed_by
             /\ task'[t].left = task[t].left
             /\ task'[t].status \notin {"absent", "pending", "dead"}
  PROVE  LeaseInv'
BY DEF LeaseInv, Held

\* Each step keeps every unexpired claim at the row that names its worker,
\* without manual resets.
LEMMA LeaseStep ==
  ASSUME NoManualReset, TypeInv, LeaseInv, [Next]_vars
  PROVE  LeaseInv'
<1> USE DEF TypeInv, TypeOK
<1>h. \A w \in Workers : Held(w) => job[w].task \in Tasks
  BY DEF Held, Counted
<1>1. ASSUME NEW t \in Tasks, Enqueue(t) PROVE LeaseInv'
  BY <1>1, <1>h, LeaseKept DEF Enqueue, Exists, Held, LeaseInv
<1>2. ASSUME NEW t \in Tasks, RequeueDlqTask(t) PROVE LeaseInv'
  BY <1>2, <1>h, LeaseKept DEF RequeueDlqTask, Held, LeaseInv
<1>3. ASSUME NEW t \in Tasks, PostResult(t) PROVE LeaseInv'
  <2> LET rec == Completed(task[t], Operator) IN
        rec.claimed_by = task[t].claimed_by /\ rec.left = task[t].left
        /\ rec.status = "completed"
    BY DEF Completed, Row
  <2> QED
    BY <1>3, <1>h, LeaseKept DEF PostResult, Held, LeaseInv
<1>4. ASSUME NEW t \in Tasks, NEW s \in ManualStatuses, PatchStatus(t, s) PROVE LeaseInv'
  <2> s \notin {"absent", "pending", "dead"}
    BY ManualAssumption DEF NoManualReset, Statuses
  <2> LET rec == WithStatus(task[t], s) IN
        rec.claimed_by = task[t].claimed_by /\ rec.left = task[t].left
        /\ rec.status = s
    BY DEF WithStatus, Row
  <2> QED
    BY <1>4, <1>h, LeaseKept DEF PatchStatus, Held, LeaseInv
<1>5. ASSUME NEW w \in Workers, NEW tok \in Tokens \cup {None}, Claim(w, tok) PROVE LeaseInv'
  <2> PICK t \in Tasks :
        /\ Claimable(t)
        /\ task' = [task EXCEPT ![t] = Claimed(@, w, tok)]
        /\ job' = [job EXCEPT ![w] = [pc |-> "working", task |-> t, token |-> tok]]
        /\ lease' = [lease EXCEPT ![w] = ClaimTTL]
    BY <1>5 DEF Claim
  <2> LET rec == Claimed(task[t], w, tok) IN
        rec.claimed_by = w /\ rec.left = ClaimTTL /\ rec.status = "claimed"
    BY DEF Claimed, Row
  <2>1. Held(w)'
    BY DEF Held
  <2>2. ASSUME NEW v \in Workers, v # w, lease'[v] > 0 PROVE Held(v)'
    <3> Held(v) /\ lease'[v] = lease[v] /\ job'[v] = job[v]
      BY <2>2 DEF LeaseInv
    <3> job[v].task # t
      BY DEF Held, Claimable
    <3> QED
      BY <1>h DEF Held
  <2> QED
    BY <2>1, <2>2 DEF LeaseInv
<1>6. ASSUME NEW w \in Workers, ExecutionFails(w) \/ ResponseLost(w) PROVE LeaseInv'
  BY <1>6, LeaseKept DEF ExecutionFails, ResponseLost, Goes, Held, LeaseInv, Job
<1>7. ASSUME NEW w \in Workers, SubmitResult(w) PROVE LeaseInv'
  BY <1>7, LeaseKept DEF SubmitResult, Goes, Held, LeaseInv, Job
<1>8. ASSUME NEW w \in Workers, MarkFailed(w) PROVE LeaseInv'
  <2> job[w].task \in Tasks
    BY <1>8 DEF MarkFailed, Counted
  <2>1. LET rec == WithStatus(task[job[w].task], "failed") IN
          rec.claimed_by = task[job[w].task].claimed_by
          /\ rec.left = task[job[w].task].left /\ rec.status = "failed"
    BY DEF WithStatus, Row
  <2>2. \A v \in Workers : Held(v) =>
          LET t == job[v].task IN
            /\ task'[t].claimed_by = task[t].claimed_by
            /\ task'[t].left = task[t].left
            /\ task'[t].status \notin {"absent", "pending", "dead"}
    BY <1>8, <1>h, <2>1 DEF MarkFailed, Held
  <2> QED
    BY <1>8, <2>2, LeaseKept DEF MarkFailed, LeaseInv, Held
<1>9. ASSUME NEW w \in Workers, WorkerCrash(w) PROVE LeaseInv'
  BY <1>9, LeaseKept DEF WorkerCrash, Held, LeaseInv
<1>10. ASSUME NEW r \in Request, VerifyPasses(r) \/ RequestDropped(r) \/ ConsumeToken(r)
       PROVE LeaseInv'
  BY <1>10, LeaseKept DEF VerifyPasses, RequestDropped, ConsumeToken, Held, LeaseInv
<1>11. ASSUME NEW r \in Request, VerifyRejects(r) PROVE LeaseInv'
  BY <1>11, LeaseKept DEF VerifyRejects, Awaits, Held, LeaseInv, Job
<1>12. ASSUME NEW r \in Request, StoreResult(r) PROVE LeaseInv'
  <2> r.task \in Tasks
    BY DEF Request
  <2> LET rec == Completed(task[r.task], r.from) IN
        rec.claimed_by = task[r.task].claimed_by /\ rec.left = task[r.task].left
        /\ rec.status = "completed"
    BY DEF Completed, Row
  <2> QED
    BY <1>12, <1>h, LeaseKept DEF StoreResult, Held, LeaseInv
<1>13. CASE RecoverStaleClaims
  <2> \A w \in Workers : Held(w) /\ lease[w] > 0 => ~Stale(job[w].task)
    BY DEF Held, Stale
  <2>1. ASSUME NEW w \in Workers, lease'[w] > 0 PROVE Held(w)'
    BY <1>13, <1>h, <2>1 DEF RecoverStaleClaims, LeaseInv, Held
  <2> QED
    BY <2>1 DEF LeaseInv
<1>14. CASE Tick
  <2> \A t \in Tasks : /\ Aged(task[t]).claimed_by = task[t].claimed_by
                       /\ Aged(task[t]).left = Less(task[t].left)
                       /\ Aged(task[t]).status = task[t].status
    BY DEF Aged, Row
  <2>1. ASSUME NEW w \in Workers, lease'[w] > 0 PROVE Held(w)'
    <3> lease[w] > 0 /\ lease'[w] = Less(lease[w]) /\ job' = job
      BY <1>14, <2>1 DEF Tick, Less
    <3> Held(w)
      BY DEF LeaseInv
    <3> QED
      BY <1>14, <1>h DEF Tick, Held
  <2> QED
    BY <2>1 DEF LeaseInv
<1>15. CASE UNCHANGED vars
  BY <1>15 DEF vars, LeaseInv, Held
<1> QED
  BY <1>1, <1>2, <1>3, <1>4, <1>5, <1>6, <1>7, <1>8, <1>9, <1>10, <1>11, <1>12,
     <1>13, <1>14, <1>15 DEF Next, Worker, Handler

\* An unexpired claim is exclusive: its row names its worker and no second worker
\* holds one for the same task, for any number of workers and tasks, as long as
\* no operator writes pending or dead over a row with PATCH.
THEOREM ClaimsExclusive ==
  ASSUME NoManualReset
  PROVE  Spec => [](LiveClaimOwnsRow /\ OneLiveClaim)
<1>1. LeaseInv => LiveClaimOwnsRow /\ OneLiveClaim
  BY DEF LeaseInv, Held, LiveClaimOwnsRow, OneLiveClaim
<1>2. Init => TypeInv /\ LeaseInv
  BY TypeInit, LeaseInit
<1>3. TypeInv /\ LeaseInv /\ [Next]_vars => (TypeInv /\ LeaseInv)'
  BY TypeStep, LeaseStep
<1> QED
  BY <1>1, <1>2, <1>3, PTL DEF Spec

-----------------------------------------------------------------------------
(* Attempts and results.                                                   *)

\* Every request past the check of its token is for the task of that token, and
\* the one about to write has consumed it.
ResultInv ==
  /\ ResultAuthorised
  /\ \A r \in requests :
       /\ r.stage # "verify" => TokenTask[r.token] = r.task
       /\ r.stage = "store" => r.token \in revoked

\* Each stage of a submission keeps that only a consumed token of the task
\* stores a result.
LEMMA ResultStep == TypeInv /\ ResultInv /\ [Next]_vars => ResultInv'
<1> SUFFICES ASSUME TypeInv, ResultInv, [Next]_vars PROVE ResultInv'
  OBVIOUS
<1> USE DEF TypeInv, TypeOK
<1>s. ASSUME \A t \in Tasks : task'[t].result = task[t].result \/ task'[t].result \notin Workers,
             UNCHANGED <<requests, revoked>>
      PROVE  ResultInv'
  BY <1>s DEF ResultInv, ResultAuthorised
<1>1. ASSUME NEW t \in Tasks, Enqueue(t) PROVE ResultInv'
  BY <1>1, <1>s, WorkersAssumption DEF Enqueue, NoRow
<1>2. ASSUME NEW t \in Tasks, RequeueDlqTask(t) PROVE ResultInv'
  <2> Requeued(task[t]).result = task[t].result
    BY DEF Requeued, Row
  <2> QED
    BY <1>2, <1>s DEF RequeueDlqTask
<1>3. ASSUME NEW t \in Tasks, PostResult(t) PROVE ResultInv'
  <2> Completed(task[t], Operator).result = Operator
    BY DEF Completed, Row
  <2> QED
    BY <1>3, <1>s, WorkersAssumption DEF PostResult
<1>4. ASSUME NEW t \in Tasks, NEW s \in ManualStatuses, PatchStatus(t, s) PROVE ResultInv'
  <2> WithStatus(task[t], s).result = task[t].result
    BY DEF WithStatus, Row
  <2> QED
    BY <1>4, <1>s DEF PatchStatus
<1>5. ASSUME NEW w \in Workers, NEW tok \in Tokens \cup {None}, Claim(w, tok) PROVE ResultInv'
  <2> \A t \in Tasks : Claimed(task[t], w, tok).result = task[t].result
    BY DEF Claimed, Row
  <2> QED
    BY <1>5, <1>s DEF Claim
<1>6. ASSUME NEW w \in Workers, ExecutionFails(w) \/ ResponseLost(w) \/ WorkerCrash(w)
      PROVE ResultInv'
  BY <1>6, <1>s DEF ExecutionFails, ResponseLost, WorkerCrash
<1>7. ASSUME NEW w \in Workers, SubmitResult(w) PROVE ResultInv'
  BY <1>7 DEF SubmitResult, ResultInv, ResultAuthorised
<1>8. ASSUME NEW w \in Workers, MarkFailed(w) PROVE ResultInv'
  <2> \A t \in Tasks : WithStatus(task[t], "failed").result = task[t].result
    BY DEF WithStatus, Row
  <2> job[w].task \in Tasks
    BY <1>8 DEF MarkFailed, Counted
  <2> QED
    BY <1>8, <1>s DEF MarkFailed
<1>9. ASSUME NEW r \in Request, VerifyPasses(r) \/ VerifyRejects(r) \/ RequestDropped(r)
      PROVE ResultInv'
  BY <1>9 DEF VerifyPasses, VerifyRejects, RequestDropped, Advance, Request,
              ResultInv, ResultAuthorised
<1>10. ASSUME NEW r \in Request, ConsumeToken(r) PROVE ResultInv'
  BY <1>10 DEF ConsumeToken, Advance, Request, ResultInv, ResultAuthorised
<1>11. ASSUME NEW r \in Request, StoreResult(r) PROVE ResultInv'
  <2> r.task \in Tasks
    BY DEF Request
  <2> Completed(task[r.task], r.from).result = r.from
    BY DEF Completed, Row
  <2>1. TokenTask[r.token] = r.task /\ r.token \in revoked
    BY <1>11 DEF StoreResult, ResultInv
  <2>2. ResultAuthorised'
    BY <1>11, <2>1 DEF StoreResult, ResultInv, ResultAuthorised
  <2> QED
    BY <1>11, <2>2 DEF StoreResult, ResultInv
<1>12. CASE RecoverStaleClaims
  <2> \A t \in Tasks : Recovered(task[t]).result = task[t].result
    BY DEF Recovered, Row
  <2> QED
    BY <1>12, <1>s DEF RecoverStaleClaims
<1>13. CASE Tick
  <2> \A t \in Tasks : Aged(task[t]).result = task[t].result
    BY DEF Aged, Row
  <2> QED
    BY <1>13, <1>s DEF Tick
<1>14. CASE UNCHANGED vars
  BY <1>14 DEF vars, ResultInv, ResultAuthorised
<1> QED
  BY <1>1, <1>2, <1>3, <1>4, <1>5, <1>6, <1>7, <1>8, <1>9, <1>10, <1>11, <1>12,
     <1>13, <1>14 DEF Next, Worker, Handler

\* No result of a worker is stored for a task without a token issued for that task
\* having been consumed, however the statements of submissions interleave.
THEOREM ResultsAuthorised == Spec => []ResultAuthorised
<1>1. Init => ResultInv
  BY WorkersAssumption DEF Init, ResultInv, ResultAuthorised, NoRow
<1>2. ResultInv => ResultAuthorised
  BY DEF ResultInv
<1> QED
  BY <1>1, <1>2, TypeInit, TypeStep, ResultStep, PTL DEF Spec

\* What AttemptBudget says of each row, and that one not yet inserted has no attempts.
Budget(rec) ==
  /\ rec.status = "absent" => rec.attempt = 0
  /\ rec.attempt \in 0..MaxAttempts
  /\ rec.status = "pending" => rec.attempt < MaxAttempts /\ rec.claimed_by = None
  /\ rec.status = "claimed" => rec.attempt > 0 /\ rec.claimed_by # None
  /\ rec.status = "dead" => rec.attempt = MaxAttempts /\ rec.claimed_by = None

\* What each UPDATE makes of a row within its budget is within its budget.
LEMMA BudgetOfRows ==
  ASSUME NEW rec \in Row, Budget(rec)
  PROVE  /\ rec.status = "pending" =>
              \A w \in Workers, tok \in Tokens \cup {None} : Budget(Claimed(rec, w, tok))
         /\ Budget(Requeued(rec))
         /\ \A s \in Statuses \ {"pending", "claimed", "dead"} : Budget(WithStatus(rec, s))
         /\ \A who \in Workers \cup {Operator} : Budget(Completed(rec, who))
         /\ Budget(Aged(rec))
         /\ rec.status = "claimed" => Budget(Recovered(rec))
<1>1. rec.status = "pending" =>
        \A w \in Workers, tok \in Tokens \cup {None} : Budget(Claimed(rec, w, tok))
  BY AttemptAssumption, WorkersAssumption DEF Budget, Claimed, Row
<1>2. Budget(Requeued(rec))
  BY AttemptAssumption DEF Budget, Requeued, Row
<1>3. \A s \in Statuses \ {"pending", "claimed", "dead"} : Budget(WithStatus(rec, s))
  BY DEF Budget, WithStatus, Row, Statuses
<1>4. \A who \in Workers \cup {Operator} : Budget(Completed(rec, who))
  BY DEF Budget, Completed, Row
<1>5. Budget(Aged(rec))
  BY DEF Budget, Aged, Row
<1>6. rec.status = "claimed" => Budget(Recovered(rec))
  BY AttemptAssumption DEF Budget, Recovered, Row
<1> QED
  BY <1>1, <1>2, <1>3, <1>4, <1>5, <1>6

\* Every row is within its budget.
BudgetInv == \A t \in Tasks : Budget(task[t])

NoManualClaims == ManualStatuses \cap {"pending", "claimed", "dead"} = {}

\* The table starts empty, within every budget.
LEMMA BudgetInit == Init => BudgetInv
  BY AttemptAssumption DEF Init, NoRow, Budget, BudgetInv

\* Each statement keeps every row within its budget, without manual claims.
LEMMA BudgetStep ==
  ASSUME NoManualClaims, TypeInv, BudgetInv, [Next]_vars
  PROVE  BudgetInv'
<1> USE DEF TypeInv, TypeOK, BudgetInv
<1>1. ASSUME NEW t \in Tasks, Enqueue(t) PROVE BudgetInv'
  BY <1>1, AttemptAssumption DEF Enqueue, NoRow, Budget
<1>2. ASSUME NEW t \in Tasks, RequeueDlqTask(t) PROVE BudgetInv'
  BY <1>2, BudgetOfRows DEF RequeueDlqTask
<1>3. ASSUME NEW t \in Tasks, PostResult(t) PROVE BudgetInv'
  BY <1>3, BudgetOfRows DEF PostResult
<1>4. ASSUME NEW t \in Tasks, NEW s \in ManualStatuses, PatchStatus(t, s) PROVE BudgetInv'
  BY <1>4, BudgetOfRows, ManualAssumption DEF PatchStatus, NoManualClaims
<1>5. ASSUME NEW w \in Workers, NEW tok \in Tokens \cup {None}, Claim(w, tok) PROVE BudgetInv'
  BY <1>5, BudgetOfRows DEF Claim, Claimable
<1>6. ASSUME NEW w \in Workers, MarkFailed(w) PROVE BudgetInv'
  <2> "failed" \in Statuses \ {"pending", "claimed", "dead"}
    BY DEF Statuses
  <2> QED
    BY <1>6, BudgetOfRows DEF MarkFailed, Counted
<1>7. ASSUME NEW r \in Request, StoreResult(r) PROVE BudgetInv'
  BY <1>7, BudgetOfRows DEF StoreResult, Request
<1>8. CASE RecoverStaleClaims
  BY <1>8, BudgetOfRows DEF RecoverStaleClaims, Stale
<1>9. CASE Tick
  BY <1>9, BudgetOfRows DEF Tick
<1>10. CASE UNCHANGED task
  BY <1>10
<1> QED
  BY <1>1, <1>2, <1>3, <1>4, <1>5, <1>6, <1>7, <1>8, <1>9, <1>10
  DEF Next, Worker, Handler, WorkerCrash, ExecutionFails, SubmitResult, ResponseLost,
      VerifyPasses, VerifyRejects, ConsumeToken, RequestDropped, vars

\* max_attempts bounds the claims of a task between two requeues and exactly the
\* tasks that used them up are dead, as long as no operator writes pending,
\* claimed or dead over a row with PATCH.
THEOREM AttemptsBounded ==
  ASSUME NoManualClaims
  PROVE  Spec => []AttemptBudget
<1>1. TypeInv /\ BudgetInv /\ [Next]_vars => BudgetInv'
  BY BudgetStep
<1>2. BudgetInv => AttemptBudget
  BY DEF BudgetInv, AttemptBudget, Budget
<1> QED
  BY BudgetInit, <1>1, <1>2, TypeInit, TypeStep, PTL DEF Spec

-----------------------------------------------------------------------------
(* The queue implements Lease.                                             *)

\* At first nobody holds anything and nothing was handed out.
LEMMA LeasesInit == Init => Leases!Init
  BY DEF Init, NoRow, Idle, Leases!Init, Holding

\* A step in which no worker gains a lease, none with one changes its task and no
\* attempt is counted or forgiven lets some leases end: a task had one holder at most.
LEMMA LeasesEnd ==
  ASSUME TypeInv, LeaseInv,
         \A w \in Workers : lease'[w] > 0 => lease[w] > 0 /\ job'[w].task = job[w].task,
         \A t \in Tasks : task'[t].attempt = task[t].attempt
  PROVE  Leases!Next
<1> DEFINE ended == {t \in Tasks : Holding(t)' = {}}
<1>1. ASSUME NEW t \in Tasks PROVE Holding(t)' \in {{}, Holding(t)}
  <2>1. Holding(t)' \subseteq Holding(t)
    BY DEF Holding
  <2>2. \A v, w \in Holding(t) : v = w
    BY DEF Holding, LeaseInv, Held
  <2> QED
    BY <2>1, <2>2
<1>2. [t \in Tasks |-> Holding(t)]'
        = [t \in Tasks |-> IF t \in ended THEN {} ELSE [u \in Tasks |-> Holding(u)][t]]
  BY <1>1
<1>3. [t \in Tasks |-> task[t].attempt]' = [t \in Tasks |-> task[t].attempt]
  OBVIOUS
<1>4. Leases!Release(ended)
  BY <1>2, <1>3 DEF Leases!Release
<1> QED
  BY <1>4 DEF Leases!Next

\* A worker that claims a task held nothing, and nobody held the task.
LEMMA ClaimGrants ==
  ASSUME TypeInv, LeaseInv, BudgetInv,
         NEW w \in Workers, NEW tok \in Tokens \cup {None}, Claim(w, tok)
  PROVE  Leases!Next
<1> USE DEF TypeInv, TypeOK
<1>1. PICK t \in Tasks :
        /\ Claimable(t)
        /\ task' = [task EXCEPT ![t] = Claimed(@, w, tok)]
        /\ job' = [job EXCEPT ![w] = [pc |-> "working", task |-> t, token |-> tok]]
        /\ lease' = [lease EXCEPT ![w] = ClaimTTL]
  BY DEF Claim
<1>2. Holding(t) = {}
  BY <1>1 DEF Holding, LeaseInv, Held, Claimable
<1>3. \A u \in Tasks : w \notin Holding(u)
  BY DEF Claim, Holding, LeaseInv, Held
<1>4. ASSUME NEW u \in Tasks PROVE Holding(u)' = IF u = t THEN {w} ELSE Holding(u)
  <2>1. CASE u = t
    BY <1>1, <1>2, <2>1, TimeAssumption DEF Holding
  <2>2. CASE u # t
    BY <1>1, <1>3, <2>2 DEF Holding
  <2> QED
    BY <2>1, <2>2
<1>5. task[t].attempt < MaxAttempts
  BY <1>1 DEF Claimable, BudgetInv, Budget
<1>6. Claimed(task[t], w, tok).attempt = task[t].attempt + 1
  BY DEF Claimed, Row
<1>7. [u \in Tasks |-> Holding(u)]' = [[u \in Tasks |-> Holding(u)] EXCEPT ![t] = {w}]
  BY <1>4
<1>8. [u \in Tasks |-> task[u].attempt]'
        = [[u \in Tasks |-> task[u].attempt] EXCEPT ![t] = @ + 1]
  BY <1>1, <1>6
<1>9. Leases!Grant(t, w)
  BY <1>2, <1>3, <1>5, <1>7, <1>8 DEF Leases!Grant
<1> QED
  BY <1>9 DEF Leases!Next

\* A task that an operator takes from the dead-letter queue is held by nobody.
LEMMA RequeueForgives ==
  ASSUME TypeInv, LeaseInv, NEW t \in Tasks, RequeueDlqTask(t)
  PROVE  Leases!Next
<1> USE DEF TypeInv, TypeOK
<1>1. Holding(t) = {}
  BY DEF RequeueDlqTask, Holding, LeaseInv, Held
<1>2. [u \in Tasks |-> Holding(u)]' = [u \in Tasks |-> Holding(u)]
  BY DEF RequeueDlqTask, Holding
<1>3. Requeued(task[t]).attempt = 0
  BY DEF Requeued, Row
<1>4. [u \in Tasks |-> task[u].attempt]' = [[u \in Tasks |-> task[u].attempt] EXCEPT ![t] = 0]
  BY <1>3 DEF RequeueDlqTask
<1>5. Leases!Forgive(t)
  BY <1>1, <1>2, <1>4 DEF Leases!Forgive
<1> QED
  BY <1>5 DEF Leases!Next

\* Every step of the queue is a step of Lease, or none.
LEMMA LeasesStep ==
  ASSUME NoManualClaims, TypeInv, LeaseInv, BudgetInv, [Next]_vars
  PROVE  Leases!Next \/ UNCHANGED Leases!leaseVars
<1> USE DEF TypeInv, TypeOK
<1>1. ASSUME NEW t \in Tasks, Enqueue(t) PROVE Leases!Next
  BY <1>1, LeasesEnd DEF Enqueue, NoRow, Exists, BudgetInv, Budget
<1>2. ASSUME NEW t \in Tasks, RequeueDlqTask(t) PROVE Leases!Next
  BY <1>2, RequeueForgives
<1>3. ASSUME NEW t \in Tasks, PostResult(t) PROVE Leases!Next
  <2> Completed(task[t], Operator).attempt = task[t].attempt
    BY DEF Completed, Row
  <2> QED
    BY <1>3, LeasesEnd DEF PostResult
<1>4. ASSUME NEW t \in Tasks, NEW s \in ManualStatuses, PatchStatus(t, s) PROVE Leases!Next
  <2> WithStatus(task[t], s).attempt = task[t].attempt
    BY DEF WithStatus, Row
  <2> QED
    BY <1>4, LeasesEnd DEF PatchStatus
<1>5. ASSUME NEW w \in Workers, NEW tok \in Tokens \cup {None}, Claim(w, tok) PROVE Leases!Next
  BY <1>5, ClaimGrants
<1>6. ASSUME NEW w \in Workers, ExecutionFails(w) \/ ResponseLost(w) \/ SubmitResult(w)
      PROVE Leases!Next
  BY <1>6, LeasesEnd DEF ExecutionFails, ResponseLost, SubmitResult, Goes, Job
<1>7. ASSUME NEW w \in Workers, MarkFailed(w) PROVE Leases!Next
  <2> job[w].task \in Tasks
    BY <1>7 DEF MarkFailed, Counted
  <2> WithStatus(task[job[w].task], "failed").attempt = task[job[w].task].attempt
    BY DEF WithStatus, Row
  <2>1. \A t \in Tasks : task'[t].attempt = task[t].attempt
    BY <1>7 DEF MarkFailed
  <2>2. \A v \in Workers : lease'[v] > 0 => lease[v] > 0 /\ job'[v].task = job[v].task
    BY <1>7 DEF MarkFailed
  <2> QED
    BY <2>1, <2>2, LeasesEnd
<1>8. ASSUME NEW w \in Workers, WorkerCrash(w) PROVE Leases!Next
  BY <1>8, LeasesEnd DEF WorkerCrash
<1>9. ASSUME NEW r \in Request, VerifyPasses(r) \/ RequestDropped(r) \/ ConsumeToken(r)
      PROVE Leases!Next
  BY <1>9, LeasesEnd DEF VerifyPasses, RequestDropped, ConsumeToken
<1>10. ASSUME NEW r \in Request, VerifyRejects(r) PROVE Leases!Next
  BY <1>10, LeasesEnd DEF VerifyRejects, Job
<1>11. ASSUME NEW r \in Request, StoreResult(r) PROVE Leases!Next
  <2> r.task \in Tasks
    BY DEF Request
  <2> Completed(task[r.task], r.from).attempt = task[r.task].attempt
    BY DEF Completed, Row
  <2>1. \A t \in Tasks : task'[t].attempt = task[t].attempt
    BY <1>11 DEF StoreResult
  <2>2. \A v \in Workers : lease'[v] > 0 => lease[v] > 0 /\ job'[v].task = job[v].task
    BY <1>11 DEF StoreResult
  <2> QED
    BY <2>1, <2>2, LeasesEnd
<1>12. CASE RecoverStaleClaims
  <2> \A t \in Tasks : Recovered(task[t]).attempt = task[t].attempt
    BY DEF Recovered, Row
  <2> QED
    BY <1>12, LeasesEnd DEF RecoverStaleClaims
<1>13. CASE Tick
  <2>1. \A t \in Tasks : Aged(task[t]).attempt = task[t].attempt
    BY DEF Aged, Row
  <2>2. \A v \in Workers : lease'[v] > 0 => lease[v] > 0 /\ job'[v].task = job[v].task
    BY <1>13 DEF Tick, Less
  <2>3. \A t \in Tasks : task'[t].attempt = task[t].attempt
    BY <1>13, <2>1 DEF Tick
  <2> QED
    BY <2>2, <2>3, LeasesEnd
<1>14. CASE UNCHANGED vars
  BY <1>14 DEF vars, Leases!leaseVars, Holding
<1> QED
  BY <1>1, <1>2, <1>3, <1>4, <1>5, <1>6, <1>7, <1>8, <1>9, <1>10, <1>11, <1>12,
     <1>13, <1>14 DEF Next, Worker, Handler

\* The queue hands out leases and nothing else: a task to one worker at a time, who has no
\* other, max_attempts times at most unless they are forgiven while nobody holds it (the
\* claim, recovery and requeue of task-queue.ts), with no manual claims.
THEOREM QueueHandsOutLeases ==
  ASSUME NoManualClaims
  PROVE  Spec => HandsOutLeases
<1>1. NoManualReset
  BY DEF NoManualClaims, NoManualReset
<1>2. TypeInv /\ LeaseInv /\ BudgetInv /\ [Next]_vars => (TypeInv /\ LeaseInv /\ BudgetInv)'
  BY <1>1, TypeStep, LeaseStep, BudgetStep
<1>3. TypeInv /\ LeaseInv /\ BudgetInv /\ [Next]_vars => Leases!Next \/ UNCHANGED Leases!leaseVars
  BY LeasesStep
<1> QED
  BY <1>2, <1>3, TypeInit, LeaseInit, BudgetInit, LeasesInit, PTL
     DEF Spec, HandsOutLeases, Leases!Spec

-----------------------------------------------------------------------------
(* The worker loop and the live view.                                      *)

RowStatus == {"none", "pending", "claimed", "lost", "done"}

Notices == [event : {"task_queue.created", "task_queue.updated"}, id : FeedTasks, status : RowStatus]

\* A page shows what a listing gave it, or what an undefined field of a message did.
Entries == [id : FeedTasks \cup {Blank}, status : RowStatus \cup {Blank}]

FeedInv ==
  /\ row \in [FeedTasks -> RowStatus] /\ age \in Seq(FeedTasks)
  /\ loop \in {"claim", "work", "idle", "wait", "stopped"}
  /\ waiter \in BOOLEAN /\ stopping \in BOOLEAN
  /\ page \in {"idle", "connecting", "connected", "disconnected", "error", "gone"}
  /\ wire \in Seq(Notices)
  /\ shown \in Seq(Entries) /\ Len(shown) <= MaxShown

FeedRuns == FeedInit /\ [][FeedNext]_feedVars

-----------------------------------------------------------------------------
\* What the page makes of a message has the type of its rows, and no more of them than it keeps.
LEMMA UpsertKeepsShown ==
  ASSUME NEW rows \in Seq(Entries), Len(rows) <= MaxShown, NEW new \in Entries
  PROVE  Upsert(rows, new) \in Seq(Entries) /\ Len(Upsert(rows, new)) <= MaxShown
<1> DEFINE same == {k \in DOMAIN rows : rows[k].id = new.id}
           cut  == IF Len(rows) < MaxShown THEN Len(rows) + 1 ELSE MaxShown
<1>0. Len(rows) \in Nat /\ MaxShown \in Nat
  BY FeedAssumption
<1>1. CASE same # {}
  <2>1. Upsert(rows, new) = [k \in DOMAIN rows |-> IF k \in same THEN new ELSE rows[k]]
    BY <1>1 DEF Upsert
  <2>2. [k \in DOMAIN rows |-> IF k \in same THEN new ELSE rows[k]] \in [1..Len(rows) -> Entries]
    OBVIOUS
  <2>3. Upsert(rows, new) \in Seq(Entries) /\ Len(Upsert(rows, new)) = Len(rows)
    BY <1>0, <2>1, <2>2
  <2> QED  BY <2>3
<1>2. CASE same = {}
  <2>1. Upsert(rows, new) = SubSeq(<<new>> \o rows, 1, cut)
    BY <1>2 DEF Upsert
  <2>2. <<new>> \o rows \in Seq(Entries) /\ Len(<<new>> \o rows) = Len(rows) + 1
    OBVIOUS
  <2>3. cut \in 0..Len(rows) + 1 /\ cut <= MaxShown
    BY <1>0
  <2> DEFINE all == <<new>> \o rows
  <2> HIDE DEF all, cut
  <2>4. SubSeq(all, 1, cut) \in Seq(Entries) /\ Len(SubSeq(all, 1, cut)) = cut
    <3>1. all \in Seq(Entries) /\ Len(all) = Len(rows) + 1
      BY <2>2 DEF all
    <3>2. \A i \in 1..cut : i \in 1..Len(all)
      BY <1>0, <2>3, <3>1
    <3> QED  BY <1>0, <2>3, <3>1, <3>2
  <2> QED  BY <2>1, <2>3, <2>4 DEF all
<1> QED  BY <1>1, <1>2

\* A message of the server has no field of the name that the page reads.
LEMMA FieldsBlank ==
  ASSUME NEW notice
  PROVE  /\ Field(Message(notice), "id") = Blank
         /\ Field(Message(notice), "status") = Blank
<1>1. DOMAIN Message(notice) = {"event", "data"}
  BY DEF Message
<1> QED  BY <1>1 DEF Field

\* Every variable of the feed keeps its type.
LEMMA FeedStep == ASSUME FeedInv, FeedNext PROVE FeedInv'
<1> USE DEF FeedInv
<1>t. \A e \in {"task_queue.created", "task_queue.updated"}, t \in FeedTasks, s \in RowStatus :
        Tell(Notice(e, t, s)) => wire' \in Seq(Notices)
  <2> SUFFICES ASSUME NEW e \in {"task_queue.created", "task_queue.updated"}, NEW t \in FeedTasks,
                      NEW s \in RowStatus, Tell(Notice(e, t, s))
               PROVE  wire' \in Seq(Notices)
    OBVIOUS
  <2>1. Notice(e, t, s) \in Notices
    BY DEF Notice, Notices
  <2>2. wire' = <<>> \/ wire' = Append(wire, Notice(e, t, s))
    BY DEF Tell
  <2> DEFINE notice == Notice(e, t, s)
  <2> HIDE DEF notice
  <2>3. wire \in Seq(Notices)
    OBVIOUS
  <2>4. notice \in Notices => Append(wire, notice) \in Seq(Notices)
    BY <2>3
  <2>5. <<>> \in Seq(Notices)
    OBVIOUS
  <2> QED  BY <2>1, <2>2, <2>4, <2>5 DEF notice
<1>1. ASSUME NEW t \in FeedTasks, EnqueueTask(t) PROVE FeedInv'
  <2>1. row' = [row EXCEPT ![t] = "pending"] /\ age' = Append(age, t)
        /\ UNCHANGED <<loop, waiter, stopping, page, shown>>
    BY <1>1 DEF EnqueueTask, pageVars
  <2>2. wire' \in Seq(Notices)
    BY <1>1, <1>t DEF EnqueueTask, NotifyInsert, RowStatus
  <2>3. row' \in [FeedTasks -> RowStatus]
    BY <2>1 DEF RowStatus
  <2>4. age' \in Seq(FeedTasks)
    BY <2>1
  <2> QED  BY <2>1, <2>2, <2>3, <2>4
<1>2. ASSUME NEW t \in FeedTasks, NEW s \in RowStatus, NotifyUpdate(t, s)
      PROVE  row' \in [FeedTasks -> RowStatus] /\ wire' \in Seq(Notices) /\ UNCHANGED <<age, page, shown>>
  <2>1. wire' \in Seq(Notices)
    BY <1>2, <1>t DEF NotifyUpdate
  <2> QED  BY <1>2, <2>1 DEF NotifyUpdate, pageVars
<1>3. ASSUME NEW t \in FeedTasks, Return(t) \/ TryClaim(t) \/ Execute(t) PROVE FeedInv'
  <2>1. \E s \in RowStatus : NotifyUpdate(t, s)
    BY <1>3 DEF Return, TryClaim, Execute, RowStatus
  <2>2. loop' \in {loop, "work", "idle"} /\ UNCHANGED <<waiter, stopping>>
    BY <1>3 DEF Return, TryClaim, Execute, workerVars
  <2> QED  BY <1>2, <2>1, <2>2
<1>4. ASSUME NEW t \in FeedTasks, ExecuteFails(t) PROVE FeedInv'
  BY <1>4 DEF ExecuteFails, pageVars, RowStatus
<1>5. CASE FindsNothing \/ WaitForWork \/ Wake \/ Elapse \/ Stop
  BY <1>5 DEF FindsNothing, WaitForWork, Wake, Elapse, Stop, Resume, pageVars
<1>6. CASE Broadcast
  <2>1. wire # <<>> /\ wire' = Tail(wire) /\ UNCHANGED <<row, age, loop, waiter, stopping, page>>
    BY <1>6 DEF Broadcast, workerVars
  <2>2. wire' \in Seq(Notices)
    BY <2>1
  <2>3. shown' = shown \/ shown' = Upsert(shown, Entry(Blank, Blank))
    BY <1>6, FieldsBlank DEF Broadcast
  <2>4. Entry(Blank, Blank) \in Entries
    BY DEF Entry, Entries
  <2>5. shown' \in Seq(Entries) /\ Len(shown') <= MaxShown
    BY <2>3, <2>4, UpsertKeepsShown
  <2> QED  BY <2>1, <2>2, <2>5
<1>7. CASE LoadTasks
  <2>1. /\ shown' = [k \in DOMAIN Newest(Listed) |-> Entry(Newest(Listed)[k], Stored(Newest(Listed)[k]))]
        /\ page' = "connecting" /\ UNCHANGED <<row, age, wire, loop, waiter, stopping>>
    BY <1>7 DEF LoadTasks, PageStays, workerVars
  <2> DEFINE n == IF Len(age) < Listed THEN Len(age) ELSE Listed
  <2>2. n \in Nat /\ n <= Listed /\ n <= Len(age) /\ n <= MaxShown
    BY FeedAssumption
  <2>3. Newest(Listed) = [k \in 1..n |-> age[Len(age) + 1 - k]]
    BY DEF Newest
  <2> HIDE DEF n
  <2>4. \A k \in 1..n : age[Len(age) + 1 - k] \in FeedTasks
    <3> TAKE k \in 1..n
    <3>1. Len(age) + 1 - k \in 1..Len(age)
      BY <2>2
    <3> QED  BY <3>1
  <2>5. \A t \in FeedTasks : Entry(t, Stored(t)) \in Entries
    BY DEF Entry, Entries, Stored, RowStatus
  <2>6. shown' \in [1..n -> Entries]
    BY <2>1, <2>3, <2>4, <2>5
  <2>7. shown' \in Seq(Entries) /\ Len(shown') = n
    BY <2>2, <2>6
  <2> QED  BY <2>1, <2>2, <2>7
<1>8. CASE LoadFails \/ Opened \/ Closed \/ Reconnect
  BY <1>8 DEF LoadFails, Opened, Closed, Reconnect, PageStays, workerVars
<1>9. CASE Unmount
  <2>1. shown' = <<>> /\ page' = "gone" /\ UNCHANGED <<row, age, wire, loop, waiter, stopping>>
    BY <1>9 DEF Unmount, PageStays, workerVars
  <2>2. shown' \in Seq(Entries) /\ Len(shown') <= MaxShown
    BY <2>1, FeedAssumption
  <2> QED  BY <2>1, <2>2
<1> QED  BY <1>1, <1>3, <1>4, <1>5, <1>6, <1>7, <1>8, <1>9 DEF FeedNext

LEMMA FeedCorrect == FeedRuns => []FeedTypeOK
<1>1. FeedInit => FeedInv
  <2> SUFFICES ASSUME FeedInit PROVE FeedInv
    OBVIOUS
  <2> USE DEF FeedInit
  <2>1. row \in [FeedTasks -> RowStatus]
    BY DEF RowStatus
  <2>2. age \in Seq(FeedTasks) /\ wire \in Seq(Notices) /\ shown \in Seq(Entries)
    OBVIOUS
  <2>3. Len(shown) <= MaxShown
    BY FeedAssumption
  <2> QED  BY <2>1, <2>2, <2>3 DEF FeedInv
<1>2. FeedInv /\ [FeedNext]_feedVars => FeedInv'
  <2> SUFFICES ASSUME FeedInv, [FeedNext]_feedVars PROVE FeedInv'
    OBVIOUS
  <2>1. CASE UNCHANGED feedVars
    BY <2>1 DEF feedVars, workerVars, pageVars, FeedInv
  <2> QED  BY <2>1, FeedStep
<1>3. FeedInv => FeedTypeOK
  BY DEF FeedInv, FeedTypeOK, RowStatus
<1> QED  BY <1>1, <1>2, <1>3, PTL DEF FeedRuns

-----------------------------------------------------------------------------
(* The scheduled jobs.                                                     *)

\* The jobs whose key is their window.
Windowed == {"autolearn-gardening", "code-cleanup", Scan}

CronTasksOK ==
  /\ \A t \in cronTasks :
       /\ t.job \in Jobs /\ t.agent = Agent(t.job)
       /\ t.job \in Windowed => t.key = <<t.window>>
       /\ t = [job |-> t.job, key |-> t.key, agent |-> t.agent, window |-> t.window]
  /\ \A t, u \in cronTasks : t.job = u.job /\ t.key = u.key => t = u

\* A flag that is disabled, or that a sweep has read to be due, is past its date.
DueThen ==
  /\ \A f \in Flags : flag[f] = "disabled" => DisableAt[f] <= minute
  /\ \A p \in Servers : \A f \in sweep[p].left : DisableAt[f] <= minute

\* What runs is a registered job.
Registered ==
  \A p \in Servers : (scan[p] # NoDate => Scan \in Jobs) /\ (sweep[p].on => Sweep \in Jobs)

CronInv == CronTypeOK /\ CronTasksOK /\ DueThen /\ Registered

CronRuns == CronInit /\ [][CronNext]_cronVars

-----------------------------------------------------------------------------
LEMMA CronStarts == CronInit => CronInv
  BY CronAssumption DEF CronInit, CronInv, CronTypeOK, CronTasksOK, DueThen, Registered, NoSweep

\* ON CONFLICT DO NOTHING keeps the tasks of a job apart by their keys.
LEMMA InsertKeeps ==
  ASSUME CronTasksOK, NEW j \in Jobs, NEW key, NEW at,
         j \in Windowed => key = <<at \div Every(j)>>,
         cronTasks' = Inserted(CronTask(j, key, at))
  PROVE  CronTasksOK'
<1> DEFINE new == CronTask(j, key, at)
<1>1. new = [job |-> j, key |-> key, agent |-> Agent(j), window |-> at \div Every(j)]
  BY DEF CronTask
<1>2. /\ new.job = j /\ new.key = key /\ new.agent = Agent(j) /\ new.window = at \div Every(j)
      /\ new = [job |-> new.job, key |-> new.key, agent |-> new.agent, window |-> new.window]
  BY <1>1
<1> HIDE DEF new
<1>3. CASE cronTasks' = cronTasks
  BY <1>3 DEF CronTasksOK
<1>4. CASE cronTasks' = cronTasks \cup {new} /\ ~\E u \in cronTasks : u.job = j /\ u.key = key
  <2>1. \A t \in cronTasks' :
          /\ t.job \in Jobs /\ t.agent = Agent(t.job)
          /\ t.job \in Windowed => t.key = <<t.window>>
          /\ t = [job |-> t.job, key |-> t.key, agent |-> t.agent, window |-> t.window]
    BY <1>2, <1>4 DEF CronTasksOK
  <2>2. \A t, u \in cronTasks' : t.job = u.job /\ t.key = u.key => t = u
    BY <1>2, <1>4 DEF CronTasksOK
  <2> QED  BY <2>1, <2>2 DEF CronTasksOK
<1>5. cronTasks' = cronTasks \/ (cronTasks' = cronTasks \cup {new} /\ ~\E u \in cronTasks : u.job = j /\ u.key = key)
  BY <1>2 DEF Inserted, new
<1> QED  BY <1>3, <1>4, <1>5

\* The invariant is inductive.
LEMMA CronStep == ASSUME CronInv, CronNext PROVE CronInv'
<1> USE DEF CronInv
<1>0. CronTypeOK /\ CronTasksOK /\ DueThen /\ Registered /\ minute \in Nat
  BY CronAssumption DEF CronTypeOK
<1>s. \A p \in Servers : sweep[p] \in [on : BOOLEAN, left : SUBSET Flags]
  BY <1>0 DEF CronTypeOK
<1>n. NoSweep \in [on : BOOLEAN, left : SUBSET Flags]
  BY DEF NoSweep
<1>a. \A t \in cronTasks : t.job \in Jobs /\ t.agent \in {"cron", "autolearn"}
  BY <1>0 DEF CronTypeOK
<1>b. CronTasksOK' => (\A t \in cronTasks : t.job \in Jobs /\ t.agent \in {"cron", "autolearn"})'
  BY DEF CronTasksOK, Agent
<1>1. CASE Minute
  <2>1. minute' \in 0..LastMinute /\ minute <= minute'
    BY <1>0, <1>1, CronAssumption DEF Minute, CronTypeOK
  <2>2. timers' \in [Servers -> SUBSET Jobs]
    BY <1>0, <1>1 DEF Minute, CronTypeOK
  <2>3. UNCHANGED <<started, scan, sweep, cronTasks, flag, stops, errors>>
    BY <1>1 DEF Minute
  <2>4. CronTypeOK'
    BY <1>0, <2>1, <2>2, <2>3 DEF CronTypeOK
  <2>5. DueThen'
    <3>1. minute' \in Nat /\ \A f \in Flags : DisableAt[f] \in Nat
      BY <2>1, CronAssumption
    <3> QED  BY <1>0, <1>s, <2>1, <2>3, <3>1 DEF DueThen
  <2> QED  BY <1>0, <2>3, <2>4, <2>5 DEF CronTasksOK, Registered
<1>2. ASSUME NEW p \in Servers, StartScheduler(p) PROVE CronInv'
  <2>1. started' \subseteq Servers /\ UNCHANGED <<minute, timers, scan, sweep, cronTasks, flag, stops, errors>>
    BY <1>0, <1>2 DEF StartScheduler, CronTypeOK
  <2> QED  BY <1>0, <2>1 DEF CronTypeOK, CronTasksOK, DueThen, Registered
<1>3. ASSUME NEW p \in Servers, StopServer(p) PROVE CronInv'
  <2>1. /\ started' \subseteq Servers /\ UNCHANGED <<minute, cronTasks, flag, errors>>
        /\ timers' = [timers EXCEPT ![p] = {}] /\ scan' = [scan EXCEPT ![p] = NoDate]
        /\ sweep' = [sweep EXCEPT ![p] = NoSweep]
    BY <1>0, <1>3 DEF StopServer, CronTypeOK
  <2>2. stops' \in 0..MaxStops
    BY <1>0, <1>3, CronAssumption DEF StopServer, CronTypeOK
  <2>3. CronTypeOK'
    BY <1>0, <1>n, <2>1, <2>2 DEF CronTypeOK
  <2>4. DueThen' /\ Registered'
    BY <1>0, <2>1 DEF CronTypeOK, DueThen, Registered, NoSweep
  <2> QED  BY <1>0, <2>1, <2>3, <2>4 DEF CronTasksOK
<1>4. ASSUME NEW p \in Servers, Skip(p) PROVE CronInv'
  <2>1. /\ UNCHANGED <<minute, started, scan, sweep, cronTasks, flag, stops, errors>>
        /\ timers' \in [Servers -> SUBSET Jobs]
    BY <1>0, <1>4 DEF Skip, Expired, CronTypeOK
  <2> QED  BY <1>0, <2>1 DEF CronTypeOK, CronTasksOK, DueThen, Registered
<1>5. ASSUME NEW p \in Servers, NEW j \in Jobs, EnqueueJob(p, j) PROVE CronInv'
  <2>1. /\ UNCHANGED <<minute, started, scan, sweep, flag, stops>>
        /\ timers' \in [Servers -> SUBSET Jobs] /\ j # Scan
    BY <1>0, <1>5 DEF EnqueueJob, Expired, CronTypeOK
  <2>2. errors' \in 0..MaxErrors
    BY <1>0, <1>5, CronAssumption DEF EnqueueJob, Fails, CronTypeOK
  <2>3. CronTasksOK'
    <3>1. j \in Windowed => Suffix(j, p) = <<minute \div Every(j)>>
      BY <2>1 DEF Windowed, Suffix, Every, WindowKey, DateKey, Sweep, Scan
    <3>2. CASE cronTasks' = Inserted(CronTask(j, Suffix(j, p), minute))
      BY <1>0, <3>1, <3>2, InsertKeeps
    <3>3. CASE cronTasks' = cronTasks
      BY <1>0, <3>3 DEF CronTasksOK
    <3> QED  BY <1>5, <3>2, <3>3 DEF EnqueueJob
  <2>4. CronTypeOK'
    BY <1>0, <1>b, <2>1, <2>2, <2>3 DEF CronTypeOK
  <2> QED  BY <1>0, <2>1, <2>3, <2>4 DEF DueThen, Registered
<1>6. ASSUME NEW p \in Servers, BeginScan(p) PROVE CronInv'
  <2>1. /\ UNCHANGED <<minute, started, sweep, cronTasks, flag, stops, errors>>
        /\ timers' \in [Servers -> SUBSET Jobs] /\ scan' = [scan EXCEPT ![p] = minute] /\ Scan \in Jobs
    BY <1>0, <1>6 DEF BeginScan, Expired, CronTypeOK
  <2>2. CronTypeOK'
    BY <1>0, <2>1 DEF CronTypeOK
  <2>3. Registered'
    BY <1>0, <2>1 DEF Registered, CronTypeOK
  <2> QED  BY <1>0, <2>1, <2>2, <2>3 DEF CronTasksOK, DueThen
<1>7. ASSUME NEW p \in Servers, EndScan(p) PROVE CronInv'
  <2>1. /\ UNCHANGED <<minute, started, timers, sweep, flag, stops>>
        /\ scan' = [scan EXCEPT ![p] = NoDate] /\ Scan \in Jobs
    BY <1>0, <1>7 DEF EndScan, Registered
  <2>2. errors' \in 0..MaxErrors
    BY <1>0, <1>7, CronAssumption DEF EndScan, Fails, CronTypeOK
  <2>3. CronTasksOK'
    <3>1. <<scan[p] \div Day>> = <<scan[p] \div Every(Scan)>>
      BY DEF Every, Sweep, Scan
    <3>2. CASE cronTasks' = Inserted(CronTask(Scan, <<scan[p] \div Day>>, scan[p]))
      BY <1>0, <2>1, <3>1, <3>2, InsertKeeps
    <3>3. CASE cronTasks' = cronTasks
      BY <1>0, <3>3 DEF CronTasksOK
    <3> QED  BY <1>7, <3>2, <3>3 DEF EndScan
  <2>4. CronTypeOK'
    BY <1>0, <1>b, <2>1, <2>2, <2>3 DEF CronTypeOK
  <2>5. Registered'
    BY <1>0, <2>1 DEF Registered, CronTypeOK
  <2> QED  BY <1>0, <2>1, <2>3, <2>4, <2>5 DEF DueThen
<1>8. ASSUME NEW p \in Servers, BeginSweep(p) PROVE CronInv'
  <2>1. /\ UNCHANGED <<minute, started, scan, cronTasks, flag, stops, errors>> /\ Sweep \in Jobs
        /\ timers' \in [Servers -> SUBSET Jobs]
        /\ sweep' = [sweep EXCEPT ![p] = [on |-> TRUE, left |-> DueFlags(minute)]]
    BY <1>0, <1>8 DEF BeginSweep, Expired, CronTypeOK
  <2>2. DueFlags(minute) \subseteq Flags /\ \A f \in DueFlags(minute) : DisableAt[f] <= minute
    BY DEF DueFlags
  <2> HIDE DEF CronInv
  <2>3. CronTypeOK'
    BY <1>0, <2>1, <2>2 DEF CronTypeOK
  <2>4. DueThen' /\ Registered'
    <3>1. \A q \in Servers : q # p => sweep'[q] = sweep[q]
      BY <1>0, <2>1 DEF CronTypeOK
    <3>2. sweep'[p].left = DueFlags(minute) /\ sweep'[p].on
      BY <1>0, <2>1 DEF CronTypeOK
    <3> QED  BY <1>0, <2>1, <2>2, <3>1, <3>2 DEF DueThen, Registered
  <2> QED  BY <1>0, <2>1, <2>3, <2>4 DEF CronTasksOK, CronInv
<1>9. ASSUME NEW p \in Servers, DisableFlag(p) PROVE CronInv'
  <2>1. PICK f \in sweep[p].left :
          /\ flag' = [flag EXCEPT ![f] = "disabled"]
          /\ sweep' = [sweep EXCEPT ![p].left = @ \ {f}]
    BY <1>9 DEF DisableFlag
  <2>2. f \in Flags /\ DisableAt[f] <= minute
    BY <1>0, <1>s DEF DueThen
  <2>3. UNCHANGED <<minute, started, timers, scan, cronTasks, stops, errors>>
    BY <1>9 DEF DisableFlag
  <2>4. /\ \A q \in Servers : q # p => sweep'[q] = sweep[q]
        /\ sweep'[p].left \subseteq sweep[p].left /\ sweep'[p].on = sweep[p].on
        /\ sweep' \in [Servers -> [on : BOOLEAN, left : SUBSET Flags]]
    BY <1>0, <1>s, <2>1 DEF CronTypeOK
  <2>5. CronTypeOK'
    BY <1>0, <2>1, <2>3, <2>4 DEF CronTypeOK
  <2>6. DueThen'
    BY <1>0, <2>1, <2>2, <2>3, <2>4 DEF DueThen, CronTypeOK
  <2>7. Registered'
    BY <1>0, <2>3, <2>4 DEF Registered
  <2> QED  BY <1>0, <2>3, <2>5, <2>6, <2>7 DEF CronTasksOK
<1>10. ASSUME NEW p \in Servers, EndSweep(p) \/ SweepFails(p) PROVE CronInv'
  <2>1. /\ UNCHANGED <<minute, started, timers, scan, flag, stops>>
        /\ sweep' = [sweep EXCEPT ![p] = NoSweep] /\ Sweep \in Jobs
    BY <1>0, <1>10 DEF EndSweep, SweepFails, Registered
  <2>2. errors' \in 0..MaxErrors
    BY <1>0, <1>10, CronAssumption DEF EndSweep, SweepFails, Fails, CronTypeOK
  <2>3. CronTasksOK'
    <3>1. Sweep \notin Windowed
      BY DEF Windowed, Sweep, Scan
    <3>2. CASE cronTasks' = Inserted(CronTask(Sweep, Suffix(Sweep, p), minute))
      BY <1>0, <2>1, <3>1, <3>2, InsertKeeps
    <3>3. CASE cronTasks' = cronTasks
      BY <1>0, <3>3 DEF CronTasksOK
    <3> QED  BY <1>10, <3>2, <3>3 DEF EndSweep, SweepFails
  <2>4. CronTypeOK'
    BY <1>0, <1>b, <1>n, <2>1, <2>2, <2>3 DEF CronTypeOK
  <2>5. DueThen' /\ Registered'
    BY <1>0, <2>1 DEF DueThen, Registered, CronTypeOK, NoSweep
  <2> QED  BY <2>3, <2>4, <2>5
<1> QED  BY <1>1, <1>2, <1>3, <1>4, <1>5, <1>6, <1>7, <1>8, <1>9, <1>10 DEF CronNext

\* Overlapping servers, late timers, failures and restarts leave one task of a gardening
\* window, one of a cleanup day and one of a scan date; and a sweep disables no flag before
\* its date.
LEMMA CronCorrect == CronRuns => [](CronTypeOK /\ CronSound)
<1>1. CronInv /\ [CronNext]_cronVars => CronInv'
  <2> SUFFICES ASSUME CronInv, [CronNext]_cronVars PROVE CronInv'
    OBVIOUS
  <2>1. CASE UNCHANGED cronVars
    BY <2>1 DEF cronVars, CronInv, CronTypeOK, CronTasksOK, DueThen, Registered
  <2> QED  BY <2>1, CronStep
<1>2. CronInv => CronTypeOK /\ CronSound
  <2> SUFFICES ASSUME CronInv PROVE CronTypeOK /\ CronSound
    OBVIOUS
  <2>1. ASSUME NEW t \in cronTasks, NEW u \in cronTasks, t.job = u.job, t.window = u.window,
               t.job \in {"autolearn-gardening", "code-cleanup", Scan}
        PROVE  t = u
    BY <2>1 DEF CronInv, CronTasksOK, Windowed
  <2> QED  BY <2>1 DEF CronInv, CronSound, DueThen
<1> QED  BY <1>1, <1>2, CronStarts, PTL DEF CronRuns

-----------------------------------------------------------------------------
(* The components together.                                                *)

\* A behaviour of the whole is one of each component: nothing that one does touches the
\* state of another.
LEMMA QueueRuns == QueueSpec => Spec /\ FeedRuns /\ CronRuns
<1>1. QueueInit => Init /\ FeedInit /\ CronInit
  BY DEF QueueInit
<1>2. [QueueNext]_queueVars => [Next]_vars /\ [FeedNext]_feedVars /\ [CronNext]_cronVars
  BY DEF QueueNext, queueVars
<1> QED
  BY <1>1, <1>2, PTL DEF QueueSpec, Spec, FeedRuns, CronRuns

\* Every variable of the feed and of the scheduled jobs keeps to its type, for any value of the
\* constants; the page never keeps more rows than it may.
THEOREM TimersTypes == QueueSpec => []TimersTypeOK
  BY QueueRuns, FeedCorrect, CronCorrect, PTL DEF TimersTypeOK

\* Overlapping servers, late timers, failures and restarts leave one task of a gardening
\* window, one of a cleanup day and one of a scan date; and a sweep disables no flag before
\* its date.
THEOREM CronKept == QueueSpec => []CronSound
  BY QueueRuns, CronCorrect, PTL
=============================================================================
