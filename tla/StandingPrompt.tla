--------------------------- MODULE StandingPrompt ---------------------------
(***************************************************************************)
(* The versions of one standing prompt: the workers that distil them, the  *)
(* transaction that activates a version, and the researcher who pins the   *)
(* active one.                                                             *)
(*                                                                         *)
(* Code: packages/db/standing-prompt-store.ts, apps/server/src/api/        *)
(* standing-prompt-distill-api.ts, apps/worker/src/                        *)
(* standing-prompt-distill-job.ts.                                         *)
(*                                                                         *)
(* activateStandingPromptVersion runs at READ COMMITTED: a statement sees  *)
(* what was committed when it started, an UPDATE waits for the rows that   *)
(* another transaction has changed and then looks at these rows again, at  *)
(* no others.  The variables hold committed rows; what an open transaction *)
(* has written is in the state of its worker.  Prompts share nothing: one  *)
(* is enough.                                                              *)
(***************************************************************************)
EXTENDS Integers, FiniteSets

CONSTANTS
  Workers,   \* processes that run distillation tasks
  Windows,   \* wiki_version_window keys, one version each
  NoWindow,      \* SQL NULL
  MaxPins,   \* bound on pin and unpin requests
  MaxStops   \* bound on crashes and failed calls

ASSUME PromptBoundsAssumption == MaxPins \in Nat /\ MaxStops \in Nat
ASSUME NoWindowAssumption == NoWindow \notin Windows

VARIABLES
  version,  \* rows of standing_prompt_versions, by window
  pointer,  \* standing_prompts.currently_active_version_id
  worker,   \* the task of each worker, with its open transaction
  pins, stops

promptVars == <<version, pointer, worker, pins, stops>>

Version == [status : {"absent", "draft", "active", "superseded"}, pinned : BOOLEAN]
NoVersion == [status |-> "absent", pinned |-> FALSE]

\* seen is the snapshot of the UPDATE that supersedes, locked the rows it changed.
Worker == [pc : {"idle", "distil", "check", "snapshot", "supersede", "activate",
                 "point", "commit"},
           window : Windows \cup {NoWindow}, seen : SUBSET Windows, locked : SUBSET Windows]
Idle == [pc |-> "idle", window |-> NoWindow, seen |-> {}, locked |-> {}]

PromptInit ==
  /\ version = [v \in Windows |-> NoVersion]
  /\ pointer = NoWindow
  /\ worker = [w \in Workers |-> Idle]
  /\ pins = 0 /\ stops = 0

PromptAt(w, pc) == worker[w].pc = pc
Goes(w, pc) == worker' = [worker EXCEPT ![w].pc = pc]
Active == {v \in Windows : version[v].status = "active"}
Locked(w, v) == \E u \in Workers \ {w} : v \in worker[u].locked

-----------------------------------------------------------------------------
(* executeStandingPromptDistillTask.  The definitions named ...Wrong are   *)
(* plausible slips in the one that follows; no action uses them.           *)

\* upsertStandingPrompt, then insertStandingPromptVersion; when the window has a
\* version the task is done.
InsertVersion(w, v) ==
  /\ PromptAt(w, "idle")
  /\ version[v].status = "absent"
  /\ version' = [version EXCEPT ![v].status = "draft"]
  /\ worker' = [worker EXCEPT ![w] = [Idle EXCEPT !.pc = "distil", !.window = v]]
  /\ UNCHANGED <<pointer, pins, stops>>

\* GET wiki-pages and distilToStandingPrompt, within the word bound.
Distil(w) ==
  /\ PromptAt(w, "distil")
  /\ Goes(w, "check")
  /\ UNCHANGED <<version, pointer, pins, stops>>

-----------------------------------------------------------------------------
(* activateStandingPromptVersion, statement by statement.                  *)

\* The SELECT of an active row, LIMIT 1: when that one is pinned the transaction ends
\* and the version stays a draft.
CheckPinned(w) ==
  /\ PromptAt(w, "check")
  /\ \/ /\ \E v \in Active : version[v].pinned
        /\ worker' = [worker EXCEPT ![w] = Idle]
     \/ /\ Active = {} \/ \E v \in Active : ~version[v].pinned
        /\ Goes(w, "snapshot")
  /\ UNCHANGED <<version, pointer, pins, stops>>

\* The UPDATE that supersedes starts: it sees the rows active now ...
Snapshot(w) ==
  /\ PromptAt(w, "snapshot")
  /\ worker' = [worker EXCEPT ![w].pc = "supersede", ![w].seen = Active]
  /\ UNCHANGED <<version, pointer, pins, stops>>

\* ... and once no other transaction holds them it changes those that still are.
Supersede(w) ==
  /\ PromptAt(w, "supersede")
  /\ \A v \in worker[w].seen : ~Locked(w, v)
  /\ worker' = [worker EXCEPT ![w].pc = "activate",
                              ![w].locked = worker[w].seen \cap Active]
  /\ UNCHANGED <<version, pointer, pins, stops>>

\* The UPDATE of the own draft, which no other transaction touches.
Activate(w) ==
  /\ PromptAt(w, "activate")
  /\ Goes(w, "point")
  /\ UNCHANGED <<version, pointer, pins, stops>>

\* The UPDATE of the row in standing_prompts waits for a transaction that has updated
\* it and not committed.
Point(w) ==
  /\ PromptAt(w, "point")
  /\ \A u \in Workers : ~PromptAt(u, "commit")
  /\ Goes(w, "commit")
  /\ UNCHANGED <<version, pointer, pins, stops>>

\* The superseded rows are committed, the draft is not activated.
CommittedWrong(w, v) ==
  IF v \in worker[w].locked THEN [version[v] EXCEPT !.status = "superseded"]
                            ELSE version[v]

\* The rows as the transaction of w leaves them.
Committed(w, v) ==
  IF v \in worker[w].locked THEN [version[v] EXCEPT !.status = "superseded"]
  ELSE IF v = worker[w].window /\ version[v].status = "draft"
       THEN [version[v] EXCEPT !.status = "active"]
       ELSE version[v]

Commit(w) ==
  /\ PromptAt(w, "commit")
  /\ version' = [v \in Windows |-> Committed(w, v)]
  /\ pointer' = worker[w].window
  /\ worker' = [worker EXCEPT ![w] = Idle]
  /\ UNCHANGED <<pins, stops>>

\* The pod or the server crashes or a call fails, an open transaction is rolled back,
\* and the task ends.
Stop(w) ==
  /\ ~PromptAt(w, "idle")
  /\ stops < MaxStops
  /\ stops' = stops + 1
  /\ worker' = [worker EXCEPT ![w] = Idle]
  /\ UNCHANGED <<version, pointer, pins>>

-----------------------------------------------------------------------------
(* The researcher: pinActiveStandingPromptVersion and its inverse, one     *)
(* UPDATE that waits for locked rows.                                      *)

SetPinned(pinned) ==
  /\ pins < MaxPins
  /\ Active # {}
  /\ \A v \in Active, w \in Workers : v \notin worker[w].locked
  /\ version' = [v \in Windows |-> IF v \in Active THEN [version[v] EXCEPT !.pinned = pinned]
                                                   ELSE version[v]]
  /\ pins' = pins + 1
  /\ UNCHANGED <<pointer, worker, stops>>

Transaction(w) ==
  \/ CheckPinned(w) \/ Snapshot(w) \/ Supersede(w) \/ Activate(w) \/ Point(w) \/ Commit(w)

PromptNext ==
  \/ \E w \in Workers : \/ \E v \in Windows : InsertVersion(w, v)
                        \/ Distil(w) \/ Transaction(w) \/ Stop(w)
  \/ \E pinned \in BOOLEAN : SetPinned(pinned)

PromptSpec == PromptInit /\ [][PromptNext]_promptVars

-----------------------------------------------------------------------------
(* Properties.                                                             *)

\* Every variable keeps to its type.
PromptTypeOK ==
  /\ version \in [Windows -> Version]
  /\ pointer \in Windows \cup {NoWindow}
  /\ worker \in [Workers -> Worker]
  /\ pins \in 0..MaxPins /\ stops \in 0..MaxStops

\* The pointer is at an active version, and from the first activation on a reader
\* finds one: no interleaving of activations, and no rollback, leaves the prompt
\* with superseded versions only.
PointerActive ==
  /\ pointer # NoWindow => pointer \in Active
  /\ pointer = NoWindow => Active = {} /\ \A v \in Windows : version[v].status # "superseded"
=============================================================================
