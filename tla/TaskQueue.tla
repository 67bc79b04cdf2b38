----------------------------- MODULE TaskQueue -----------------------------
(***************************************************************************)
(* The single-table task queue: the rows of task_queue, the workers that   *)
(* claim and execute them, the HTTP handler that accepts a result for a    *)
(* delegated token, stale-claim recovery and the dead-letter requeue.      *)
(*                                                                         *)
(* Code: packages/db/task-queue.ts, apps/worker/src/runner.ts,             *)
(* apps/server/src/api/task-queue.ts, apps/server/src/auth/                *)
(* delegated-token.ts, packages/db/schema.sql.                             *)
(*                                                                         *)
(* One SQL statement is one step.  Everything between two awaits of the    *)
(* same handler interleaves with everything else.  Time is kept as what    *)
(* is left of a claim and of a retry delay, both counted down by Tick, so  *)
(* that no clock has to be bounded.                                        *)
(***************************************************************************)
EXTENDS Integers, FiniteSets

CONSTANTS
  Tasks,           \* rows the producers may insert (one idempotency key each)
  Workers,         \* processes that claim tasks
  Runners,         \* the workers that run apps/worker/src/runner.ts; the others
                   \* are clients of POST /api/tasks-queue/claim
  Tokens,          \* delegated tokens (the jti of a signed JWT)
  TokenTask,       \* the task_id claim of each token
  None,            \* SQL NULL
  Operator,        \* who writes through the unguarded /api/tasks-queue routes
  Priority,        \* the priority column of each task
  MaxAttempts,     \* max_attempts
  ClaimTTL,        \* claim_ttl_seconds, in ticks
  BackoffTicks,    \* 2^attempt seconds, in ticks, for each attempt
  ManualStatuses,  \* the statuses an operator writes with PATCH
  MaxRequeues,     \* bound on dead-letter requeues
  RecoveryRuns     \* TRUE when a process has called startStaleClaimRecovery

ASSUME TasksAssumption   == IsFiniteSet(Tasks) /\ None \notin Tasks
ASSUME WorkersAssumption == Runners \subseteq Workers /\ None \notin Workers
                            /\ Operator \notin Workers
ASSUME TokensAssumption  == None \notin Tokens /\ TokenTask \in [Tokens -> Tasks]
ASSUME AttemptAssumption == MaxAttempts \in Nat \ {0}
ASSUME TimeAssumption    == /\ ClaimTTL \in Nat \ {0}
                            /\ BackoffTicks \in [1..MaxAttempts -> Nat]
ASSUME PriorityAssumption == Priority \in [Tasks -> Nat]
ASSUME RequeueAssumption  == MaxRequeues \in Nat /\ RecoveryRuns \in BOOLEAN

Statuses == {"pending", "claimed", "running", "submitting", "completed",
             "failed", "dead"}

ASSUME ManualAssumption == ManualStatuses \subseteq Statuses

VARIABLES
  task,      \* the rows of task_queue; status "absent" before the insert
  job,       \* what each worker process is doing, with its copy of the row
  lease,     \* ticks left of the claim each worker was granted (history)
  requests,  \* POST /api/tasks/:id/result handlers under way on the server
  revoked,   \* the jti's in revoked_tokens
  requeues   \* dead-letter requeues so far

vars == <<task, job, lease, requests, revoked, requeues>>

Row == [status     : Statuses \cup {"absent"},
        claimed_by : Workers \cup {None},
        left       : Nat,     \* claim_expires_at - NOW(), 0 when it has passed
        token      : Tokens \cup {None},
        attempt    : Nat,
        wait       : Nat,     \* next_retry_at - NOW(), 0 when NULL or passed
        created    : Nat,     \* rank of created_at
        result     : Workers \cup {Operator, None}]

NoRow == [status |-> "absent", claimed_by |-> None, left |-> 0, token |-> None,
          attempt |-> 0, wait |-> 0, created |-> 0, result |-> None]

Job == [pc : {"idle", "working", "awaiting", "failing"},
        task : Tasks \cup {None}, token : Tokens \cup {None}]
Idle == [pc |-> "idle", task |-> None, token |-> None]

Request == [from : Workers, task : Tasks, token : Tokens,
            stage : {"verify", "consume", "store"}]

Init ==
  /\ task = [t \in Tasks |-> NoRow]
  /\ job = [w \in Workers |-> Idle]
  /\ lease = [w \in Workers |-> 0]
  /\ requests = {}
  /\ revoked = {}
  /\ requeues = 0

-----------------------------------------------------------------------------
(* The rows: enqueue, claim, recovery, requeue.  An operator whose name    *)
(* ends in Wrong is a mistaken variant of the one that follows it; no      *)
(* action uses it, the mutation runs substitute it.                        *)

Exists(t) == task[t].status # "absent"

\* enqueueTask.  A second insert with the same idempotency key returns the row
\* unchanged, which is a stuttering step.
Enqueue(t) ==
  /\ ~Exists(t)
  /\ task' = [task EXCEPT ![t] =
       [NoRow EXCEPT !.status = "pending",
                     !.created = Cardinality({u \in Tasks : Exists(u)})]]
  /\ UNCHANGED <<job, lease, requests, revoked, requeues>>

Claimable(t) == task[t].status = "pending" /\ task[t].wait = 0

\* ORDER BY priority ASC, created_at ASC
Precedes(t, u) ==
  \/ Priority[t] < Priority[u]
  \/ Priority[t] = Priority[u] /\ task[t].created <= task[u].created

\* The runner never passes a delegated token; a client of the claim route may
\* pass any it holds.
ClaimTokens(w) == IF w \in Runners THEN {None} ELSE Tokens \cup {None}

Claimed(row, w, tok) ==
  [row EXCEPT !.status = "claimed", !.claimed_by = w, !.left = ClaimTTL,
              !.token = tok, !.attempt = @ + 1]

\* claimNextTask: one UPDATE over a FOR UPDATE SKIP LOCKED subselect.
Claim(w, tok) ==
  /\ job[w].pc = "idle"
  /\ tok \in ClaimTokens(w)
  /\ \E t \in Tasks :
       /\ Claimable(t)
       /\ \A u \in Tasks : Claimable(u) => Precedes(t, u)
       /\ task' = [task EXCEPT ![t] = Claimed(@, w, tok)]
       /\ job' = [job EXCEPT ![w] = [pc |-> "working", task |-> t, token |-> tok]]
       /\ lease' = [lease EXCEPT ![w] = ClaimTTL]
  /\ UNCHANGED <<requests, revoked, requeues>>

\* A live claim is taken for a stale one.
StaleWrong(t) == task[t].status = "claimed" /\ task[t].claimed_by # None

\* claim_expires_at < NOW(), which a NULL deadline never satisfies: claimed_by and
\* claim_expires_at are set and cleared together.
Stale(t) ==
  task[t].status = "claimed" /\ task[t].claimed_by # None /\ task[t].left = 0

\* One attempt too many.
RecoveredWrong(row) ==
  LET again == row.attempt <= MaxAttempts IN
  [row EXCEPT !.status = IF again THEN "pending" ELSE "dead",
              !.claimed_by = None, !.left = 0, !.token = None, !.wait = 0]

Recovered(row) ==
  LET again == row.attempt < MaxAttempts IN
  [row EXCEPT !.status = IF again THEN "pending" ELSE "dead",
              !.claimed_by = None,
              !.left = 0,
              !.token = None,
              !.wait = IF again THEN BackoffTicks[row.attempt] ELSE 0]

\* recoverStaleClaims: one UPDATE over every stale row.
RecoverStaleClaims ==
  /\ RecoveryRuns
  /\ \E t \in Tasks : Stale(t)
  /\ task' = [t \in Tasks |-> IF Stale(t) THEN Recovered(task[t]) ELSE task[t]]
  /\ UNCHANGED <<job, lease, requests, revoked, requeues>>

Requeued(row) ==
  [row EXCEPT !.status = "pending", !.attempt = 0, !.claimed_by = None,
              !.left = 0, !.token = None, !.wait = 0]

\* requeueDlqTask: dead -> pending with the attempts forgiven; the result
\* column is left alone.
RequeueDlqTask(t) ==
  /\ task[t].status = "dead"
  /\ requeues < MaxRequeues
  /\ task' = [task EXCEPT ![t] = Requeued(@)]
  /\ requeues' = requeues + 1
  /\ UNCHANGED <<job, lease, requests, revoked>>

\* updateTaskStatus has no guard on the current status or on the claim, and
\* writes NULL to next_retry_at when the caller gives none.
WithStatus(row, status) == [row EXCEPT !.status = status, !.wait = 0]

\* Both writers of a result, submitTaskResult and the handler of the worker's
\* request, update the row by id alone.
Completed(row, who) == [row EXCEPT !.status = "completed", !.result = who]

-----------------------------------------------------------------------------
(* The worker: tryClaimAndExecute.                                         *)

Goes(w, pc) == job' = [job EXCEPT ![w].pc = pc]

\* The execution threw or ran into its hard timeout, or it succeeded and the
\* claim carries no delegated token to submit the result with.
ExecutionFails(w) ==
  /\ job[w].pc = "working"
  /\ Goes(w, "failing")
  /\ UNCHANGED <<task, lease, requests, revoked, requeues>>

\* submitResultViaApi: the request leaves, the worker awaits the response.
SubmitResult(w) ==
  /\ job[w].pc = "working"
  /\ job[w].token # None
  /\ Goes(w, "awaiting")
  /\ requests' = requests \cup {[from |-> w, task |-> job[w].task,
                                 token |-> job[w].token, stage |-> "verify"]}
  /\ UNCHANGED <<task, lease, revoked, requeues>>

\* fetch rejects although the server may have handled, or still handle, it.
ResponseLost(w) ==
  /\ job[w].pc = "awaiting"
  /\ Goes(w, "failing")
  /\ UNCHANGED <<task, lease, requests, revoked, requeues>>

\* The catch clause: updateTaskStatus(failed) for the task of the worker's
\* copy of the row, its own errors swallowed.
MarkFailed(w) ==
  /\ job[w].pc = "failing"
  /\ LET t == job[w].task IN
       \/ task' = [task EXCEPT ![t] = WithStatus(@, "failed")]
       \/ UNCHANGED task
  /\ job' = [job EXCEPT ![w] = Idle]
  /\ lease' = [lease EXCEPT ![w] = 0]
  /\ UNCHANGED <<requests, revoked, requeues>>

\* The process dies and is started again; its claim stays in the table.
WorkerCrash(w) ==
  /\ job[w].pc # "idle"
  /\ job' = [job EXCEPT ![w] = Idle]
  /\ lease' = [lease EXCEPT ![w] = 0]
  /\ UNCHANGED <<task, requests, revoked, requeues>>

-----------------------------------------------------------------------------
(* The server: handleTaskQueueResultRequest and verifyDelegatedToken.      *)

Awaits(w, r) ==
  /\ job[w].pc = "awaiting" /\ w = r.from
  /\ job[w].task = r.task /\ job[w].token = r.token

Advance(r, stage) ==
  requests' = (requests \ {r}) \cup {[r EXCEPT !.stage = stage]}

\* The task_id of the token is not compared.
VerifyPassesWrong(r) ==
  /\ r \in requests /\ r.stage = "verify"
  /\ r.token \notin revoked
  /\ Advance(r, "consume")
  /\ UNCHANGED <<task, job, lease, revoked, requeues>>

\* The SELECT on revoked_tokens and the comparisons of the claims of the token.
VerifyPasses(r) ==
  /\ r \in requests /\ r.stage = "verify"
  /\ r.token \notin revoked
  /\ TokenTask[r.token] = r.task
  /\ Advance(r, "consume")
  /\ UNCHANGED <<task, job, lease, revoked, requeues>>

\* 401, which the worker turns into an error.
VerifyRejects(r) ==
  /\ r \in requests /\ r.stage = "verify"
  /\ r.token \in revoked \/ TokenTask[r.token] # r.task
  /\ requests' = requests \ {r}
  /\ job' = [w \in Workers |-> IF Awaits(w, r) THEN [job[w] EXCEPT !.pc = "failing"]
                                               ELSE job[w]]
  /\ UNCHANGED <<task, lease, revoked, requeues>>

\* INSERT INTO revoked_tokens ... ON CONFLICT (jti) DO NOTHING
ConsumeToken(r) ==
  /\ r \in requests /\ r.stage = "consume"
  /\ revoked' = revoked \cup {r.token}
  /\ Advance(r, "store")
  /\ UNCHANGED <<task, job, lease, requeues>>

\* The UPDATE by id alone; the response reaches the worker that still waits.
StoreResult(r) ==
  /\ r \in requests /\ r.stage = "store"
  /\ task' = [task EXCEPT ![r.task] = Completed(@, r.from)]
  /\ requests' = requests \ {r}
  /\ job' = [w \in Workers |-> IF Awaits(w, r) THEN Idle ELSE job[w]]
  /\ lease' = [w \in Workers |-> IF Awaits(w, r) THEN 0 ELSE lease[w]]
  /\ UNCHANGED <<revoked, requeues>>

\* The server restarts, loses its database connection or cannot parse the body
\* (which it reads after the token is consumed): the request is gone.
RequestDropped(r) ==
  /\ r \in requests
  /\ requests' = requests \ {r}
  /\ UNCHANGED <<task, job, lease, revoked, requeues>>

\* PATCH /api/tasks-queue/:id writes any allowed status.
PatchStatus(t, status) ==
  /\ Exists(t) /\ status \in ManualStatuses
  /\ task' = [task EXCEPT ![t] = WithStatus(@, status)]
  /\ UNCHANGED <<job, lease, requests, revoked, requeues>>

\* POST /api/tasks-queue/:id/result (submitTaskResult).
PostResult(t) ==
  /\ Exists(t) /\ "completed" \in ManualStatuses
  /\ task' = [task EXCEPT ![t] = Completed(@, Operator)]
  /\ UNCHANGED <<job, lease, requests, revoked, requeues>>

-----------------------------------------------------------------------------
LessWrong(n) == n - 1
Less(n) == IF n > 0 THEN n - 1 ELSE 0

Aged(row) == [row EXCEPT !.left = Less(@), !.wait = Less(@)]

\* One tick of wall-clock time, for every deadline at once.
Tick ==
  /\ \/ \E t \in Tasks : task[t].left > 0 \/ task[t].wait > 0
     \/ \E w \in Workers : lease[w] > 0
  /\ task' = [t \in Tasks |-> Aged(task[t])]
  /\ lease' = [w \in Workers |-> Less(lease[w])]
  /\ UNCHANGED <<job, requests, revoked, requeues>>

Worker(w) ==
  \/ \E tok \in Tokens \cup {None} : Claim(w, tok)
  \/ ExecutionFails(w) \/ SubmitResult(w) \/ ResponseLost(w) \/ MarkFailed(w)

Handler(r) ==
  VerifyPasses(r) \/ VerifyRejects(r) \/ ConsumeToken(r) \/ StoreResult(r)

Next ==
  \/ \E t \in Tasks : Enqueue(t) \/ RequeueDlqTask(t) \/ PostResult(t)
  \/ \E t \in Tasks, s \in ManualStatuses : PatchStatus(t, s)
  \/ \E w \in Workers : Worker(w) \/ WorkerCrash(w)
  \/ \E r \in Request : Handler(r) \/ RequestDropped(r)
  \/ RecoverStaleClaims
  \/ Tick

Spec == Init /\ [][Next]_vars

-----------------------------------------------------------------------------
(* Properties.                                                             *)

\* Every variable keeps to its type; in particular no countdown of a claim or a retry
\* delay goes below zero.
TypeOK ==
  /\ task \in [Tasks -> Row]
  /\ job \in [Workers -> Job]
  /\ lease \in [Workers -> Nat]
  /\ requests \subseteq Request
  /\ revoked \subseteq Tokens
  /\ requeues \in Nat

\* Two workers never hold an unexpired claim on the same task, whatever crashes,
\* is recovered late, or is failed by a worker that had lost its claim
\* ("concurrent workers never double-claim the same row").
OneLiveClaim ==
  \A v, w \in Workers :
    v # w /\ lease[v] > 0 /\ lease[w] > 0 => job[v].task # job[w].task

\* The worker that holds an unexpired claim is the one the row names, with the
\* same deadline: nothing hands the row to another or requeues it meanwhile.
LiveClaimOwnsRow ==
  \A w \in Workers : lease[w] > 0 =>
    LET row == task[job[w].task] IN row.claimed_by = w /\ row.left = lease[w]

\* max_attempts bounds the claims of a task between two requeues, the task is
\* dead-lettered exactly when they are used up, and a row back in the queue or in
\* the dead-letter queue has lost its claim.
AttemptBudget ==
  \A t \in Tasks :
    LET row == task[t] IN
      /\ row.attempt \in 0..MaxAttempts
      /\ row.status = "pending" => row.attempt < MaxAttempts /\ row.claimed_by = None
      /\ row.status = "claimed" => row.attempt > 0 /\ row.claimed_by # None
      /\ row.status = "dead" => row.attempt = MaxAttempts /\ row.claimed_by = None

\* A result is in a row only if a token issued for that task has been consumed,
\* however the steps of concurrent submissions interleave.
ResultAuthorised ==
  \A t \in Tasks : task[t].result \in Workers =>
    \E tok \in revoked : TokenTask[tok] = t

\* "Mark the task as failed so stale-claim recovery can retry or dead-letter it":
\* a failed task is pending or dead again later.
FailedIsRecovered ==
  \A t \in Tasks : task[t].status = "failed" ~> task[t].status \in {"pending", "dead"}

-----------------------------------------------------------------------------
(* The queue as an abstract lease: a task is held by the workers whose     *)
(* claim on it has not expired, and attempt counts how often it was        *)
(* claimed since it was enqueued or requeued.                              *)
Holding(t) == {w \in Workers : lease[w] > 0 /\ job[w].task = t}

Leases == INSTANCE Lease WITH
  Items <- Tasks, Holders <- Workers, Budget <- MaxAttempts,
  holders <- [t \in Tasks |-> Holding(t)],
  granted <- [t \in Tasks |-> task[t].attempt]

\* Whatever crashes, expires, is recovered late or failed by a worker that had lost its
\* claim, the queue hands out leases and nothing else ("FOR UPDATE SKIP LOCKED so
\* concurrent workers never double-claim the same row").
HandsOutLeases == Leases!Spec
=============================================================================
