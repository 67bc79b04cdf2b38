------------------------------ MODULE TaskFeed ------------------------------
(***************************************************************************)
(* What the triggers on task_queue tell: the worker that waits for work,   *)
(* and the superadmin's live view of the queue.                            *)
(*                                                                         *)
(*   packages/db/schema.sql                 the two notification triggers  *)
(*   packages/db/task-queue-worker.ts       waker, worker loop, listener   *)
(*   apps/server/src/task-queue-listener.ts, websocket.ts                  *)
(*   apps/web/src/hooks/use-task-queue-feed.ts                             *)
(*                                                                         *)
(* A row is claimed, finished and returned to the queue as in TaskQueue;   *)
(* here only its being pending, claimed or done is told apart.  One worker *)
(* loop of one agent type, one server and one page.                        *)
(***************************************************************************)
EXTENDS Naturals, Sequences

CONSTANTS
  FeedTasks,   \* tasks of the worker's agent type
  Listed,      \* rows a listing returns at most (50)
  MaxShown,    \* rows the page keeps when it adds one (200)
  MaxReturns,  \* bound: claims that are lost and recovered
  MaxCloses,   \* bound: closures of the socket
  Blank        \* an undefined field

\* A listing is shorter than what the page keeps.
ASSUME FeedAssumption == Listed \in Nat /\ MaxShown \in Nat /\ Listed <= MaxShown

VARIABLES
  row,       \* status of each task's row, "none" before it is inserted
  age,       \* the tasks in the order of their rows
  knocks,    \* notifications on the worker's channel, not yet heard
  loop,      \* the worker: "claim", "work", "idle", "wait" or "stopped"
  waiter,    \* whether a resolver is among the waker's pending ones
  stopping,  \* ~running
  wire,      \* notifications on task_queue_admin, not yet at a page
  page,      \* the page's connection
  shown,     \* the page's rows
  missed,    \* history: a change was told while the page, already listed, was not connected
  returns, closes

workerVars == <<knocks, loop, waiter, stopping>>
pageVars   == <<page, shown, missed, closes>>
feedVars   == <<row, age, wire, returns, workerVars, pageVars>>

FeedInit ==
  /\ row = [t \in FeedTasks |-> "none"] /\ age = <<>>
  /\ knocks = 0 /\ loop = "claim" /\ waiter = FALSE /\ stopping = FALSE
  /\ wire = <<>>
  /\ page = "idle" /\ shown = <<>> /\ missed = FALSE
  /\ returns = 0 /\ closes = 0

-----------------------------------------------------------------------------
(* The table and its triggers.                                             *)

\* The flat object of either trigger.
Notice(event, t, status) == [event |-> event, id |-> t, status |-> status]

\* Nobody will read what is told to a page that is gone.
Tell(notice) == wire' = IF page \in {"error", "gone"} THEN <<>> ELSE Append(wire, notice)

\* trg_task_queue_notify: the worker's channel and the admin channel.
NotifyInsert(t) ==
  /\ knocks' = knocks + 1
  /\ Tell(Notice("task_queue.created", t, "pending"))

EnqueueTask(t) ==
  /\ row[t] = "none"
  /\ row' = [row EXCEPT ![t] = "pending"] /\ age' = Append(age, t)
  /\ NotifyInsert(t)
  /\ UNCHANGED <<loop, waiter, stopping, returns, pageVars>>

\* trg_task_queue_admin_notify: the admin channel alone.
NotifyUpdate(t, status) ==
  /\ row' = [row EXCEPT ![t] = status]
  /\ Tell(Notice("task_queue.updated", t, status))
  /\ UNCHANGED <<age, pageVars>>

\* The stale-claim recovery returns a row the worker gave up: no one is woken.
Return(t) ==
  /\ row[t] = "lost"
  /\ NotifyUpdate(t, "pending")
  /\ UNCHANGED <<returns, workerVars>>

-----------------------------------------------------------------------------
(* The worker: while (running) { tryClaimAndExecute; waitForWork }.        *)

TryClaim(t) ==
  /\ loop = "claim" /\ row[t] = "pending"
  /\ NotifyUpdate(t, "claimed")
  /\ loop' = "work"
  /\ UNCHANGED <<knocks, waiter, stopping, returns>>

FindsNothing ==
  /\ loop = "claim" /\ \A t \in FeedTasks : row[t] # "pending"
  /\ loop' = "idle"
  /\ UNCHANGED <<row, age, wire, returns, knocks, waiter, stopping, pageVars>>

Execute(t) ==
  /\ loop = "work" /\ row[t] = "claimed"
  /\ NotifyUpdate(t, "done")
  /\ loop' = "idle"
  /\ UNCHANGED <<knocks, waiter, stopping, returns>>

\* The error is caught; the claim is left to expire.
ExecuteFails(t) ==
  /\ loop = "work" /\ row[t] = "claimed" /\ returns < MaxReturns
  /\ row' = [row EXCEPT ![t] = "lost"]
  /\ returns' = returns + 1 /\ loop' = "idle"
  /\ UNCHANGED <<age, wire, knocks, waiter, stopping, pageVars>>

\* `if (!running) break`, or a new resolver among the pending ones and its timer.
WaitForWork ==
  /\ loop = "idle"
  /\ IF stopping THEN loop' = "stopped" /\ UNCHANGED waiter
                 ELSE loop' = "wait" /\ waiter' = TRUE
  /\ UNCHANGED <<row, age, wire, returns, knocks, stopping, pageVars>>

Resume == IF stopping THEN "stopped" ELSE "claim"

\* A notification wakes whoever waits, and nobody if none does.
Wake ==
  /\ knocks > 0
  /\ knocks' = knocks - 1
  /\ waiter' = FALSE
  /\ loop' = IF waiter THEN Resume ELSE loop
  /\ UNCHANGED <<row, age, wire, returns, stopping, pageVars>>

\* The poll interval is over.
ElapseWrong ==
  /\ waiter
  /\ waiter' = FALSE
  /\ UNCHANGED <<loop, row, age, wire, returns, knocks, stopping, pageVars>>
Elapse ==
  /\ waiter
  /\ waiter' = FALSE
  /\ loop' = Resume
  /\ UNCHANGED <<row, age, wire, returns, knocks, stopping, pageVars>>

\* SIGTERM or SIGINT.
Stop ==
  /\ ~stopping
  /\ stopping' = TRUE
  /\ UNCHANGED <<row, age, wire, returns, knocks, loop, waiter, pageVars>>

-----------------------------------------------------------------------------
(* The server passes the notifications on to the superadmins' sockets, and *)
(* the page reads them there.                                              *)

\* `const { event, ...data } = parsed`.
Data(notice) == [id |-> notice.id, status |-> notice.status]

\* broadcastToAdmins: {event, data}.
Message(notice) == [event |-> notice.event, data |-> Data(notice)]

Entry(t, status) == [id |-> t, status |-> status]

\* UPSERT_TASK; the first variant adds without cutting.
UpsertWrong(rows, new) ==
  LET same == {k \in DOMAIN rows : rows[k].id = new.id} IN
  IF same # {} THEN [k \in DOMAIN rows |-> IF k \in same THEN new ELSE rows[k]]
               ELSE <<new>> \o rows
Upsert(rows, new) ==
  LET same == {k \in DOMAIN rows : rows[k].id = new.id} IN
  IF same # {} THEN [k \in DOMAIN rows |-> IF k \in same THEN new ELSE rows[k]]
               ELSE SubSeq(<<new>> \o rows, 1, IF Len(rows) < MaxShown THEN Len(rows) + 1 ELSE MaxShown)

\* The fields are read off the message itself, whose only ones are event and data.
Field(message, f) == IF f \in DOMAIN message THEN message[f] ELSE Blank

\* What was on a socket that closes is lost, as what is told while there is none.
Broadcast ==
  /\ wire # <<>>
  /\ wire' = Tail(wire)
  /\ LET message == Message(Head(wire)) IN
       shown' = IF page = "connected"
                  THEN Upsert(shown, Entry(Field(message, "id"), Field(message, "status"))) ELSE shown
  /\ missed' = (missed \/ page \in {"connecting", "disconnected"})
  /\ UNCHANGED <<row, age, returns, workerVars, page, closes>>

-----------------------------------------------------------------------------
(* The page.                                                               *)

PageStays == UNCHANGED <<row, age, wire, returns, workerVars>>

Newest(n) == [k \in 1 .. (IF Len(age) < n THEN Len(age) ELSE n) |-> age[Len(age) + 1 - k]]

Stored(t) == IF row[t] = "lost" THEN "claimed" ELSE row[t]

\* GET /api/tasks-queue, then LOAD_TASKS and the first connect.
LoadTasks ==
  /\ page = "idle"
  /\ shown' = [k \in DOMAIN Newest(Listed) |-> Entry(Newest(Listed)[k], Stored(Newest(Listed)[k]))]
  /\ page' = "connecting"
  /\ PageStays /\ UNCHANGED <<missed, closes>>

LoadFails ==
  /\ page = "idle"
  /\ page' = "error"
  /\ PageStays /\ UNCHANGED <<shown, missed, closes>>

\* The upgrade: the server adds the socket to its clients.
Opened ==
  /\ page = "connecting"
  /\ page' = "connected"
  /\ PageStays /\ UNCHANGED <<shown, missed, closes>>

Closed ==
  /\ page = "connected" /\ closes < MaxCloses
  /\ page' = "disconnected" /\ closes' = closes + 1
  /\ PageStays /\ UNCHANGED <<shown, missed>>

\* After the backoff; the rows are not fetched again.
Reconnect ==
  /\ page = "disconnected"
  /\ page' = "connecting"
  /\ PageStays /\ UNCHANGED <<shown, missed, closes>>

\* The page is left: the socket is closed and stays so.
Unmount ==
  /\ page \notin {"idle", "gone"}
  /\ page' = "gone" /\ shown' = <<>>
  /\ PageStays /\ UNCHANGED <<missed, closes>>

-----------------------------------------------------------------------------
FeedNext ==
  \/ \E t \in FeedTasks : EnqueueTask(t) \/ Return(t) \/ TryClaim(t) \/ Execute(t) \/ ExecuteFails(t)
  \/ FindsNothing \/ WaitForWork \/ Wake \/ Elapse \/ Stop
  \/ Broadcast
  \/ LoadTasks \/ LoadFails \/ Opened \/ Closed \/ Reconnect \/ Unmount

\* The worker's own steps: a claim that finds work or does not, an execution that ends one
\* way or the other, and the timer of the poll interval.  It is for these to be fair, the
\* notifications promise nothing.
LoopStep ==
  \/ \E t \in FeedTasks : TryClaim(t) \/ Execute(t) \/ ExecuteFails(t)
  \/ FindsNothing \/ WaitForWork \/ Elapse

-----------------------------------------------------------------------------
FeedTypeOK ==
  /\ row \in [FeedTasks -> {"none", "pending", "claimed", "lost", "done"}]
  /\ loop \in {"claim", "work", "idle", "wait", "stopped"}
  /\ waiter \in BOOLEAN /\ stopping \in BOOLEAN
  /\ page \in {"idle", "connecting", "connected", "disconnected", "error", "gone"}
  /\ Len(shown) <= MaxShown
=============================================================================
