-------------------------------- MODULE Cron --------------------------------
(***************************************************************************)
(* The scheduled jobs of the server                                        *)
(*                                                                         *)
(*   apps/server/src/cron/{scheduler,boot}.ts, cron/jobs/*.ts              *)
(*   packages/db/feature-flags.ts                                          *)
(*                                                                         *)
(* Every server process runs a scheduler of its own, and two overlap while *)
(* a release rolls out.  A timer that expires late runs its job then, once *)
(* for all the minutes it missed, and is skipped while the job still runs. *)
(* A job that does nothing but enqueue is one step; the flag sweep and the *)
(* retention scan take several.  The jobs that keep no state (fixture      *)
(* refresh, evidence capture) are left out.                                *)
(***************************************************************************)
EXTENDS Naturals, FiniteSets

CONSTANTS
  Servers,      \* server processes
  Jobs,         \* the registered jobs
  Quarter, Day, \* minutes in a short and in a long period
  Flags,        \* rows of feature_flags
  DisableAt,    \* scheduled_disable_at of each flag
  LastMinute,   \* bound: the clock stops there, the timers do not
  MaxStops,     \* bound: server processes ended
  MaxErrors,    \* bound: statements that fail
  NoDate

ASSUME CronAssumption ==
  /\ Quarter \in Nat \ {0} /\ Day \in Nat \ {0} /\ LastMinute \in Nat
  /\ MaxStops \in Nat /\ MaxErrors \in Nat
  /\ DisableAt \in [Flags -> Nat] /\ NoDate \notin Nat

VARIABLES
  minute,    \* the wall clock
  started,   \* servers whose scheduler runs
  timers,    \* expired timers whose callback has not run
  scan,      \* of each server: the date of the retention scan under way
  sweep,     \* of each server: what is left of the flag sweep, or not sweeping
  cronTasks, \* rows of task_queue written by the jobs
  flag,      \* state of each flag
  stops, errors

cronVars == <<minute, started, timers, scan, sweep, cronTasks, flag, stops, errors>>

Sweep == "feature-flag-scheduler"
Scan  == "retention-scheduler"

NoSweep == [on |-> FALSE, left |-> {}]

\* The cron expression of a job, as the minutes between two ticks.
Every(j) ==
  CASE j = Sweep -> 1
    [] j \in {"autolearn-gardening", "dlq-monitor", "runtime-tracer"} -> Quarter
    [] OTHER -> Day

\* The idempotency keys: by window, by date, by minute, or by the instant of the run.
WindowKey == <<minute \div Quarter>>
DateKey   == <<minute \div Day>>
MinuteKey == <<minute>>
RunKey(p) == <<minute, p>>

SuffixWrong(j, p) ==
  CASE j \in {"code-cleanup", Scan} -> DateKey
    [] j = "soc-compliance-review" -> MinuteKey
    [] OTHER -> RunKey(p)

Suffix(j, p) ==
  CASE j = "autolearn-gardening" -> WindowKey
    [] j \in {"code-cleanup", Scan} -> DateKey
    [] j = "soc-compliance-review" -> MinuteKey
    [] OTHER -> RunKey(p)

\* enqueueCronTask queues everything for the cron agent; only autolearn names another.
Agent(j) == IF j = "autolearn-gardening" THEN "autolearn" ELSE "cron"

CronTask(j, key, at) == [job |-> j, key |-> key, agent |-> Agent(j), window |-> at \div Every(j)]

\* ON CONFLICT (idempotency_key) DO NOTHING.
Inserted(t) ==
  IF \E u \in cronTasks : u.job = t.job /\ u.key = t.key THEN cronTasks ELSE cronTasks \cup {t}

DueFlags(t) == {f \in Flags : flag[f] = "enabled" /\ DisableAt[f] <= t}

CronInit ==
  /\ minute = 0 /\ started = {}
  /\ timers = [p \in Servers |-> {}]
  /\ scan = [p \in Servers |-> NoDate]
  /\ sweep = [p \in Servers |-> NoSweep]
  /\ cronTasks = {}
  /\ flag = [f \in Flags |-> "enabled"]
  /\ stops = 0 /\ errors = 0

-----------------------------------------------------------------------------
(***************************************************************************)
(* The schedulers and the clock.                                           *)
(***************************************************************************)
StartScheduler(p) ==
  /\ p \notin started
  /\ started' = started \cup {p}
  /\ UNCHANGED <<minute, timers, scan, sweep, cronTasks, flag, stops, errors>>

\* The process ends: timers and whatever its jobs were at are gone.
StopServer(p) ==
  /\ p \in started /\ stops < MaxStops
  /\ started' = started \ {p}
  /\ timers' = [timers EXCEPT ![p] = {}]
  /\ scan' = [scan EXCEPT ![p] = NoDate]
  /\ sweep' = [sweep EXCEPT ![p] = NoSweep]
  /\ stops' = stops + 1
  /\ UNCHANGED <<minute, cronTasks, flag, errors>>

\* In the last minute the clock stands and its ticks recur.
Minute ==
  LET t == IF minute < LastMinute THEN minute + 1 ELSE minute
  IN  /\ minute' = t
      /\ timers' = [p \in Servers |->
           IF p \in started THEN timers[p] \cup {j \in Jobs : t % Every(j) = 0} ELSE {}]
      /\ UNCHANGED <<started, scan, sweep, cronTasks, flag, stops, errors>>

-----------------------------------------------------------------------------
(***************************************************************************)
(* The jobs.                                                               *)
(***************************************************************************)
Expired(p, j) == j \in timers[p] /\ timers' = [timers EXCEPT ![p] = @ \ {j}]

Fails == errors < MaxErrors /\ errors' = errors + 1

EnqueueJob(p, j) ==
  /\ j \notin {Sweep, Scan} /\ Expired(p, j)
  /\ \/ cronTasks' = Inserted(CronTask(j, Suffix(j, p), minute)) /\ UNCHANGED errors
     \/ Fails /\ UNCHANGED cronTasks
  /\ UNCHANGED <<minute, started, scan, sweep, flag, stops>>

\* protect: the tick of a job that still runs is dropped.
Skip(p) ==
  /\ \/ scan[p] # NoDate /\ Expired(p, Scan)
     \/ sweep[p].on /\ Expired(p, Sweep)
  /\ UNCHANGED <<minute, started, scan, sweep, cronTasks, flag, stops, errors>>

\* The date is taken before the scan and makes the key after it.
BeginScan(p) ==
  /\ Scan \in Jobs /\ scan[p] = NoDate /\ Expired(p, Scan)
  /\ scan' = [scan EXCEPT ![p] = minute]
  /\ UNCHANGED <<minute, started, sweep, cronTasks, flag, stops, errors>>

EndScan(p) ==
  /\ scan[p] # NoDate
  /\ scan' = [scan EXCEPT ![p] = NoDate]
  /\ \/ /\ cronTasks' = Inserted(CronTask(Scan, <<scan[p] \div Day>>, scan[p]))
        /\ UNCHANGED errors
     \/ Fails /\ UNCHANGED cronTasks
  /\ UNCHANGED <<minute, started, timers, sweep, flag, stops>>

BeginSweep(p) ==
  /\ Sweep \in Jobs /\ ~sweep[p].on /\ Expired(p, Sweep)
  /\ sweep' = [sweep EXCEPT ![p] = [on |-> TRUE, left |-> DueFlags(minute)]]
  /\ UNCHANGED <<minute, started, scan, cronTasks, flag, stops, errors>>

DisableFlag(p) ==
  /\ \E f \in sweep[p].left :
        /\ flag' = [flag EXCEPT ![f] = "disabled"]
        /\ sweep' = [sweep EXCEPT ![p].left = @ \ {f}]
  /\ UNCHANGED <<minute, started, timers, scan, cronTasks, stops, errors>>

EndSweep(p) ==
  /\ sweep[p].on /\ sweep[p].left = {}
  /\ sweep' = [sweep EXCEPT ![p] = NoSweep]
  /\ \/ /\ cronTasks' = Inserted(CronTask(Sweep, Suffix(Sweep, p), minute))
        /\ UNCHANGED errors
     \/ Fails /\ UNCHANGED cronTasks
  /\ UNCHANGED <<minute, started, timers, scan, flag, stops>>

\* catch: the error is logged, the rest of this sweep is left to the next tick.
SweepFails(p) ==
  /\ sweep[p].on /\ Fails
  /\ sweep' = [sweep EXCEPT ![p] = NoSweep]
  /\ UNCHANGED <<minute, started, timers, scan, cronTasks, flag, stops>>

CronNext ==
  \/ Minute
  \/ \E p \in Servers :
       \/ StartScheduler(p) \/ StopServer(p) \/ Skip(p)
       \/ \E j \in Jobs : EnqueueJob(p, j)
       \/ BeginScan(p) \/ EndScan(p)
       \/ BeginSweep(p) \/ DisableFlag(p) \/ EndSweep(p) \/ SweepFails(p)

\* Time passes, an ended server is started again, and an event loop runs the timer of the
\* sweep and its statements in the end.
ServerStep(p) == StartScheduler(p) \/ BeginSweep(p) \/ DisableFlag(p) \/ EndSweep(p)

-----------------------------------------------------------------------------
CronTypeOK ==
  /\ minute \in 0..LastMinute /\ started \subseteq Servers
  /\ timers \in [Servers -> SUBSET Jobs]
  /\ scan \in [Servers -> (0..LastMinute) \cup {NoDate}]
  /\ sweep \in [Servers -> [on : BOOLEAN, left : SUBSET Flags]]
  /\ \A t \in cronTasks : t.job \in Jobs /\ t.agent \in {"cron", "autolearn"}
  /\ flag \in [Flags -> {"enabled", "disabled"}]
  /\ stops \in 0..MaxStops /\ errors \in 0..MaxErrors

\* Overlapping servers, late timers, failures and restarts leave one task of a
\* gardening window, one of a cleanup day and one of a scan date; and a sweep
\* disables no flag before its date, however late or often it runs.
CronSound ==
  /\ \A t, u \in cronTasks :
       t.job = u.job /\ t.window = u.window
         /\ t.job \in {"autolearn-gardening", "code-cleanup", Scan} => t = u
  /\ \A f \in Flags : flag[f] = "disabled" => DisableAt[f] <= minute
=============================================================================
