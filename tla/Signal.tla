------------------------------- MODULE Signal -------------------------------
(***************************************************************************)
(* Signals: an evaluation worker turns a market event into a signal under  *)
(* the standing prompt active for its subject, reviewers triage the queued *)
(* ones, researchers dismiss the delivered ones, and the routing endpoint  *)
(* resolves the prompt an event is judged by.                              *)
(*                                                                         *)
(*   apps/worker/src/event-eval-job.ts        apps/server/src/api/         *)
(*   packages/db/signal-store.ts                event-eval-api.ts          *)
(*   packages/db/signal-reviewer-store.ts       reviewer-api.ts            *)
(*   packages/db/signal-routing.ts              signal-feed-api.ts         *)
(*   packages/db/demo-seed.ts                   signal-routing-api.ts      *)
(*                                              event-replay-api.ts        *)
(*                                                                         *)
(* A version of a prompt is its number; StandingPrompt models how versions *)
(* come to be active, here an activation is one step.  Rationales are kept *)
(* to whether a reviewer rewrote them, confidences are left out: no caller *)
(* acts on a routing decision.                                             *)
(***************************************************************************)
EXTENDS Naturals, Sequences, SequencesExt

CONSTANTS
  Events,      \* market events evaluated by the worker, all of one entity
  Owned,       \* events whose row names its tenant and researcher
  Workers,     \* event-evaluation workers
  Reviewers,   \* reviewers with a request in flight
  Sessions,    \* sessions of the researcher that owns the signals
  Delivered,   \* seeded signals in status Delivered
  Queued,      \* seeded signals in status Queued
  MaxVersion,  \* bound: versions the entity's prompt may get; the others get one
  MaxRuns,     \* bound: evaluations the workers may start
  None         \* SQL null

ASSUME SignalAssumption ==
  /\ Owned \subseteq Events
  /\ MaxVersion \in Nat \ {0} /\ MaxRuns \in Nat
  /\ None \notin Events \cup Delivered \cup Queued \cup Reviewers \cup (Events \X (1..MaxVersion))
  /\ None \notin {"Generated", "Queued", "Delivered", "Suppressed"}
  /\ Delivered \cap Queued = {}
  /\ (Delivered \cup Queued) \cap (Events \X (1..MaxVersion)) = {}

\* Subjects of a prompt from the most to the least specific.
Levels == <<"entity", "thesis", "portfolio">>

Versions == 1..MaxVersion

\* The idempotency key of an evaluation.  A seeded row has a key of its own:
\* the seed abbreviates the identifiers that an evaluation writes in full.
Keys == Events \X Versions
Ids  == Delivered \cup Queued \cup Keys

VARIABLES
  active,    \* per level: the active version, or 0
  status,    \* signals.status, None where there is no row
  edited,    \* signals whose rationale a reviewer has rewritten
  cites,     \* signal_cites: <<signal, standing_prompt_version>>
  journal,   \* business_journal: the event types written for a signal
  lock,      \* the reviewer whose transaction has locked the row, or None
  eval,      \* per worker: the evaluation it is in
  runs,      \* evaluations started
  review,    \* per reviewer: the transaction it is in
  tab,       \* per session: the signal it read as Delivered, or None
  lookup     \* the resolution in progress

vars == <<active, status, edited, cites, journal, lock, eval, runs, review, tab, lookup>>

Statuses == {"Generated", "Queued", "Delivered", "Suppressed"}

VALID_SIGNAL_TRANSITIONS ==
  {<<"Generated", "Delivered">>, <<"Generated", "Queued">>, <<"Queued", "Delivered">>,
   <<"Queued", "Suppressed">>, <<"Delivered", "Suppressed">>}

Idle      == [pc |-> "idle", event |-> None, version |-> 0, created |-> FALSE]
NoReview  == [id |-> None, op |-> None]
NoLookup  == [at |-> 0, best |-> 0, found |-> 0]

Init ==
  /\ active  = [l \in ToSet(Levels) |-> 0]
  /\ status  = [i \in Ids |-> IF i \in Delivered THEN "Delivered"
                              ELSE IF i \in Queued THEN "Queued" ELSE None]
  /\ edited  = {}
  /\ cites   = {}
  /\ journal = [i \in Ids |-> <<>>]
  /\ lock    = [i \in Ids |-> None]
  /\ eval    = [w \in Workers |-> Idle]
  /\ runs    = 0
  /\ review  = [r \in Reviewers |-> NoReview]
  /\ tab     = [s \in Sessions |-> None]
  /\ lookup  = NoLookup

-----------------------------------------------------------------------------
(* Standing prompts, as this component sees them.                          *)

Activate(l) ==
  /\ active[l] < (IF l = "entity" THEN MaxVersion ELSE 1)
  /\ active' = [active EXCEPT ![l] = @ + 1]
  /\ UNCHANGED <<status, edited, cites, journal, lock, eval, runs, review, tab, lookup>>

-----------------------------------------------------------------------------
(* executeEventEvalTask, one step per request.  A worker that crashes or   *)
(* gets an error from the API abandons the evaluation; the task queue      *)
(* hands the task to a worker again.                                       *)

At(w, pc) == eval[w].pc = pc
Key(w)    == <<eval[w].event, eval[w].version>>

Goto(w, pc) == eval' = [eval EXCEPT ![w].pc = pc]

Start(w, e) ==
  /\ eval[w].pc \in {"idle", "done"} /\ runs < MaxRuns
  /\ runs' = runs + 1
  /\ eval' = [eval EXCEPT ![w] = [Idle EXCEPT !.pc = "prompt", !.event = e]]
  /\ UNCHANGED <<active, status, edited, cites, journal, lock, review, tab, lookup>>

\* The prompt is looked up for the owner the event row names; a row without
\* the columns names the owner "undefined", who has no prompt.
ReadPrompt(w) ==
  /\ At(w, "prompt")
  /\ IF eval[w].event \in Owned /\ active["entity"] # 0
     THEN eval' = [eval EXCEPT ![w].pc = "check", ![w].version = active["entity"]]
     ELSE Goto(w, "done")
  /\ UNCHANGED <<active, status, edited, cites, journal, lock, runs, review, tab, lookup>>

\* A failed check is not an error: the job goes on to create the signal.
CheckSignal(w) ==
  /\ At(w, "check")
  /\ \/ status[Key(w)] # None /\ Goto(w, "done")
     \/ Goto(w, "create")
  /\ UNCHANGED <<active, status, edited, cites, journal, lock, runs, review, tab, lookup>>

InsertSignal(w) ==
  /\ At(w, "create")
  /\ IF status[Key(w)] = None
     THEN /\ status' = [status EXCEPT ![Key(w)] = "Generated"]
          /\ eval' = [eval EXCEPT ![w].pc = "cite", ![w].created = TRUE]
     ELSE Goto(w, "done") /\ UNCHANGED status
  /\ UNCHANGED <<active, edited, cites, journal, lock, runs, review, tab, lookup>>

\* A failed cite is only a warning.
InsertCite(w) ==
  /\ At(w, "cite")
  /\ \/ cites' = cites \cup {<<Key(w), eval[w].version>>}
     \/ UNCHANGED cites
  /\ Goto(w, "done")
  /\ UNCHANGED <<active, status, edited, journal, lock, runs, review, tab, lookup>>

Fail(w) ==
  /\ eval[w].pc \notin {"idle", "done"}
  /\ Goto(w, "done")
  /\ UNCHANGED <<active, status, edited, cites, journal, lock, runs, review, tab, lookup>>

-----------------------------------------------------------------------------
(* Triage.  A transaction's first UPDATE takes the row lock if the signal  *)
(* is Queued (and waits for the lock, then looks again, while another      *)
(* transaction has it); what it wrote shows when it commits.               *)

Ops == {"approved", "edited", "suppressed"}

\* As BeginReview below, had the UPDATE not asked for the status it leaves.
BeginReviewWrong(r, i, op) ==
  /\ review[r] = NoReview
  /\ status[i] # None /\ lock[i] = None
  /\ lock'   = [lock EXCEPT ![i] = r]
  /\ review' = [review EXCEPT ![r] = [id |-> i, op |-> op]]
  /\ UNCHANGED <<active, status, edited, cites, journal, eval, runs, tab, lookup>>

BeginReview(r, i, op) ==
  /\ review[r] = NoReview
  /\ status[i] = "Queued" /\ lock[i] = None
  /\ lock'   = [lock EXCEPT ![i] = r]
  /\ review' = [review EXCEPT ![r] = [id |-> i, op |-> op]]
  /\ UNCHANGED <<active, status, edited, cites, journal, eval, runs, tab, lookup>>

\* transitionSignalStatus, the rationale patched before it, and the journal row.
Commit(r) ==
  LET i == review[r].id  op == review[r].op
  IN  /\ i # None
      /\ status'  = [status EXCEPT ![i] = IF op = "suppressed" THEN "Suppressed" ELSE "Delivered"]
      /\ edited'  = IF op = "edited" THEN edited \cup {i} ELSE edited
      /\ journal' = [journal EXCEPT ![i] = Append(@, op)]
      /\ lock'    = [lock EXCEPT ![i] = None]
      /\ review'  = [review EXCEPT ![r] = NoReview]
      /\ UNCHANGED <<active, cites, eval, runs, tab, lookup>>

\* As Rollback below, had the journal row been written outside the transaction.
RollbackWrong(r) ==
  LET i == review[r].id
  IN  /\ i # None
      /\ journal' = [journal EXCEPT ![i] = Append(@, review[r].op)]
      /\ lock'    = [lock EXCEPT ![i] = None]
      /\ review'  = [review EXCEPT ![r] = NoReview]
      /\ UNCHANGED <<active, status, edited, cites, eval, runs, tab, lookup>>

\* The connection is lost, or the journal row cannot be written.
Rollback(r) ==
  LET i == review[r].id
  IN  /\ i # None
      /\ lock'    = [lock EXCEPT ![i] = None]
      /\ review'  = [review EXCEPT ![r] = NoReview]
      /\ UNCHANGED <<active, status, edited, cites, journal, eval, runs, tab, lookup>>

-----------------------------------------------------------------------------
(* PATCH /api/signals/:id/status.  Only "dismiss" of a signal read as      *)
(* Delivered writes anything; the UPDATE asks for the status again.        *)

ReadSignal(s, i) ==
  /\ tab[s] = None
  /\ status[i] = "Delivered"
  /\ tab' = [tab EXCEPT ![s] = i]
  /\ UNCHANGED <<active, status, edited, cites, journal, lock, eval, runs, review, lookup>>

\* As Dismiss below, had the feed its own name for the state.
DismissWrong(s) ==
  /\ tab[s] # None
  /\ status' = [status EXCEPT ![tab[s]] = "Dismissed"]
  /\ tab' = [tab EXCEPT ![s] = None]
  /\ UNCHANGED <<active, edited, cites, journal, lock, eval, runs, review, lookup>>

Dismiss(s) ==
  /\ tab[s] # None
  /\ lock[tab[s]] = None
  /\ status' = IF status[tab[s]] = "Delivered" THEN [status EXCEPT ![tab[s]] = "Suppressed"] ELSE status
  /\ tab' = [tab EXCEPT ![s] = None]
  /\ UNCHANGED <<active, edited, cites, journal, lock, eval, runs, review, lookup>>

-----------------------------------------------------------------------------
(* GET /internal/signal-routing/resolve-prompt: one read per level, the    *)
(* first level with an active version wins.  "best" remembers the most     *)
(* specific level that had one when the request came.                      *)

ActiveLevels == {n \in 1..Len(Levels) : active[Levels[n]] # 0}
MostSpecific == IF ActiveLevels = {} THEN 0 ELSE CHOOSE n \in ActiveLevels : \A k \in ActiveLevels : n <= k

BeginLookup ==
  /\ lookup.at = 0
  /\ lookup' = [at |-> 1, best |-> MostSpecific, found |-> 0]
  /\ UNCHANGED <<active, status, edited, cites, journal, lock, eval, runs, review, tab>>

\* As ReadLevel below, had the loop gone on after a level with a version.
ReadLevelWrong ==
  /\ lookup.at \in 1..Len(Levels)
  /\ lookup' = [lookup EXCEPT !.at = @ + 1, !.found = IF active[Levels[lookup.at]] # 0 THEN lookup.at ELSE @]
  /\ UNCHANGED <<active, status, edited, cites, journal, lock, eval, runs, review, tab>>

ReadLevel ==
  /\ lookup.at \in 1..Len(Levels) /\ lookup.found = 0
  /\ lookup' = IF active[Levels[lookup.at]] # 0 THEN [lookup EXCEPT !.found = lookup.at, !.at = Len(Levels) + 1]
                                               ELSE [lookup EXCEPT !.at = @ + 1]
  /\ UNCHANGED <<active, status, edited, cites, journal, lock, eval, runs, review, tab>>

Answer ==
  /\ lookup.at > Len(Levels)
  /\ lookup' = NoLookup
  /\ UNCHANGED <<active, status, edited, cites, journal, lock, eval, runs, review, tab>>

-----------------------------------------------------------------------------
Evaluate(w) ==
  \/ \E e \in Events : Start(w, e)
  \/ ReadPrompt(w) \/ CheckSignal(w) \/ InsertSignal(w) \/ InsertCite(w) \/ Fail(w)

Triage(r) ==
  \/ \E i \in Ids, op \in Ops : BeginReview(r, i, op)
  \/ Commit(r) \/ Rollback(r)

Feed(s) == (\E i \in Ids : ReadSignal(s, i)) \/ Dismiss(s)

Resolve == BeginLookup \/ ReadLevel \/ Answer

Next ==
  \/ \E l \in ToSet(Levels) : Activate(l)
  \/ \E w \in Workers : Evaluate(w)
  \/ \E r \in Reviewers : Triage(r)
  \/ \E s \in Sessions : Feed(s)
  \/ Resolve

Spec == Init /\ [][Next]_vars

-----------------------------------------------------------------------------
(* What handleSignalReplayRequest gives back: the version the signal cites,
   or the one in its row.                                                  *)
Replayed(k) ==
  LET cited == {c[2] : c \in {c \in cites : c[1] = k}}
  IN  IF cited = {} THEN {k[2]} ELSE cited

\* Every variable keeps to its type; in particular a signal's status is one
\* the CHECK constraint of the table lets through.
TypeOK ==
  /\ active \in [ToSet(Levels) -> 0..MaxVersion]
  /\ status \in [Ids -> {None} \cup Statuses]
  /\ edited \subseteq Ids
  /\ cites \subseteq Keys \X (0..MaxVersion)
  /\ journal \in [Ids -> Seq(Ops)]
  /\ lock \in [Ids -> {None} \cup Reviewers]
  /\ eval \in [Workers -> [pc : {"idle", "prompt", "check", "create", "cite", "done"},
                           event : {None} \cup Events, version : 0..MaxVersion,
                           created : BOOLEAN]]
  /\ runs \in 0..MaxRuns
  /\ review \in [Reviewers -> [id : {None} \cup Ids, op : {None} \cup Ops]]
  /\ tab \in [Sessions -> {None} \cup Ids]
  /\ lookup \in [at : 0..(Len(Levels) + 1), best : 0..Len(Levels), found : 0..Len(Levels)]

\* The journal says exactly what reviewers did: a signal that was queued has
\* one row once it has left the queue and none before, its row agrees with
\* where it went, and a rationale has changed if and only if the row says so.
\* Two reviewers act on one signal, transactions roll back, and the
\* researcher dismisses what was approved.
Journalled ==
  \A i \in Ids :
    /\ Len(journal[i]) = IF i \in Queued /\ status[i] # "Queued" THEN 1 ELSE 0
    /\ i \in edited <=> journal[i] = <<"edited">>
    /\ journal[i] = <<"suppressed">> => status[i] = "Suppressed"

\* A signal moves only along VALID_SIGNAL_TRANSITIONS; what a reviewer
\* suppressed or a researcher dismissed is never delivered again, however
\* stale the read behind a request.
ValidMoves ==
  [][\A i \in Ids : status[i] # None /\ status'[i] # status[i]
        => <<status[i], status'[i]>> \in VALID_SIGNAL_TRANSITIONS]_status

\* Of the evaluations of one event under one version, retries included, at
\* most one at a time believes it has created the signal and goes on to cite.
CreatedOnce ==
  \A v, w \in Workers :
    v # w /\ eval[v].created /\ eval[w].created => Key(v) # Key(w)

\* A replay of a signal uses the version it was evaluated under, although a
\* later one may have become active while the evaluation was under way.
ReplayFaithful ==
  \A k \in Keys : status[k] # None => Replayed(k) = {k[2]}

\* What a signal's history tells is what happened: its journal, the version it cites, and
\* who created it.
HistorySound == Journalled /\ CreatedOnce /\ ReplayFaithful

\* The prompt the routing endpoint resolves is at least as specific as every
\* prompt that was active when the request came, although the levels are
\* read one after the other while versions are activated.
ResolvedMostSpecific ==
  lookup.at > Len(Levels) /\ lookup.best # 0 => lookup.found \in 1..lookup.best
=============================================================================
