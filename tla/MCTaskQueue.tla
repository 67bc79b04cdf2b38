---------------------------- MODULE MCTaskQueue -----------------------------
(***************************************************************************)
(* Instances of TaskQueue, TaskFeed and Cron for TLC.  The components      *)
(* share no state here: `part' says which of them moves in a behaviour, so *)
(* that one run explores each of them and not their product.               *)
(***************************************************************************)
EXTENDS TaskQueue, TaskFeed, Cron, TLC

CONSTANTS
  Parts,                   \* the components a run is about
  t1, t2, w1, w2, k1, k2,  \* TaskQueue
  f1, p1, p2               \* Cron

\* k2, where there is a second token, was issued for t2 if there is a t2.
MCTokenTask == [k \in Tokens |-> IF k = k2 /\ t2 \in Tasks THEN t2 ELSE t1]
\* t1 is the more urgent one, whichever is inserted first.
MCPriority == [t \in Tasks |-> IF t = t1 THEN 1 ELSE 5]
\* 2^attempt seconds, where a tick is longer than that.
MCOneTick == [a \in 1..MaxAttempts |-> 1]
\* What an operator writes: nothing, or a task closed by hand (never one put back to
\* pending, which discards every guarantee).
MCNoStatuses == {}
MCClose == {"completed"}
\* The flag is to be disabled in the second minute.
MCDisableAt == f1 :> 1

VARIABLE part  \* the component that moves in this behaviour

queueVars == <<part, vars, feedVars, cronVars>>

QueueInit ==
  /\ part \in Parts
  /\ Init
  /\ FeedInit
  /\ CronInit

QueueNext ==
  \/ /\ part = "queue" /\ Next
     /\ UNCHANGED <<part, feedVars, cronVars>>
  \/ /\ part = "feed" /\ FeedNext
     /\ UNCHANGED <<part, vars, cronVars>>
  \/ /\ part = "cron" /\ CronNext
     /\ UNCHANGED <<part, vars, feedVars>>

QueueSpec == QueueInit /\ [][QueueNext]_queueVars

\* The fairness of each component while it is the one that moves.  Time passes; a worker
\* polls every five seconds and every await of it settles (the hard timeout bounds the
\* execution); the server answers what it holds; the loop's own steps and the poll timer
\* go on; the clock ticks, and a server is started again and runs its sweep.  Nothing
\* obliges a producer, an operator, a notification or a crash, and nothing obliges the
\* stale-claim recovery: index.ts:143 counts it among what the scheduler does, but no
\* process calls startStaleClaimRecovery, so it may run and need not.
InQueue(step) == part = "queue" /\ step /\ UNCHANGED <<part, feedVars, cronVars>>
InFeed(step)  == part = "feed" /\ step /\ UNCHANGED <<part, vars, cronVars>>
InCron(step)  == part = "cron" /\ step /\ UNCHANGED <<part, vars, feedVars>>

QueueFairSpec ==
  /\ QueueSpec
  /\ WF_queueVars(InQueue(Tick))
  /\ \A w \in Workers : WF_queueVars(InQueue(Worker(w)))
  /\ WF_queueVars(InQueue(\E r \in Request : Handler(r)))
  /\ WF_queueVars(InFeed(LoopStep))
  /\ WF_queueVars(InCron(Minute))
  /\ \A p \in Servers : WF_queueVars(InCron(ServerStep(p)))

\* The same where some process did call it and its interval timer fires.
QueueRecoveringSpec == QueueFairSpec /\ WF_queueVars(InQueue(RecoverStaleClaims))

\* Every variable of the feed and of the scheduler keeps to its type (the rows, the
\* workers and the requests of the queue are TypeOK's).
TimersTypeOK == FeedTypeOK /\ CronTypeOK

\* The i-th thing that may be waited for where `part' moves: a task in the queue; the
\* worker loop's pending task, then its stop; a flag whose date has come.
Task == <<t1, t2>>

IsBegun(i) ==
  \/ part = "queue" /\ task[Task[i]].status = "pending"
  \/ part = "feed"  /\ IF i = 1 THEN \E t \in FeedTasks : row[t] = "pending" ELSE stopping
  \/ part = "cron"  /\ i = 1 /\ \E f \in Flags : flag[f] = "enabled" /\ DisableAt[f] <= minute

\* Claimed, and nobody works on it: its worker stopped, or could not mark it failed.
IsStranded(t) == task[t].status = "claimed" /\ \A w \in Workers : job[w].task # t

IsOver(i) ==
  \/ part = "queue" /\ \/ task[Task[i]].status \in {"completed", "failed", "dead"}
                        \/ IsStranded(Task[i])
  \/ part = "feed"  /\ \/ loop = "stopped"
                       \/ i = 1 /\ \A t \in FeedTasks : row[t] # "pending"
  \/ part = "cron"  /\ i = 1 /\ \A f \in Flags : flag[f] = "disabled"

\* What waits is served.  Every pending task is claimed, and the claim ends: the task is
\* completed, failed or dead-lettered, or it is left claimed by a worker that is gone, which
\* is where it stays unless somebody runs the recovery.  A worker whose every
\* notification may be lost, or come when it does not wait, still takes the pending task or
\* stops, and once told to stop it does.  A flag whose date has come is disabled, whatever
\* restarts the sweeps meet (feature-flag-scheduler.ts:4).
Served == \A i \in 1..2 : IsBegun(i) ~> IsOver(i)
=============================================================================
