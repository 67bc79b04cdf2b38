------------------------------ MODULE Screens ------------------------------
(***************************************************************************)
(* Two lists a researcher looks at and acts on, each with loads that may   *)
(* answer in any order: the signal feed, which follows its filters, and    *)
(* the standing prompts with their pins.                                   *)
(*                                                                         *)
(*   apps/web/src/pages/signal-feed.tsx, sources-triggers.tsx              *)
(*   apps/server/src/api/signal-feed-api.ts, researcher-settings-api.ts    *)
(*                                                                         *)
(* A load is sent, read from the database, and applied or lost; an action  *)
(* is sent, carried out, and answered or lost.  The list of sources is     *)
(* loaded as the prompts are and never acted upon: it is left out.         *)
(***************************************************************************)
EXTENDS Naturals, Sequences

CONSTANTS
  FeedSignals, Prompts,
  Filters,      \* settings of the filter bar
  Matches,      \* the signals each setting selects
  FirstFilter,
  MaxLoads,     \* bound: loads of a list
  MaxActs,      \* bound: actions
  MaxOthers,    \* bound: changes by others
  NoAct

ASSUME ScreensAssumption ==
  /\ FirstFilter \in Filters /\ Matches \in [Filters -> SUBSET FeedSignals]
  /\ FeedSignals \cap Prompts = {} /\ NoAct \notin FeedSignals \cup Prompts
  /\ MaxLoads \in Nat \ {0} /\ MaxActs \in Nat

VARIABLES
  kept,       \* status of each signal, "absent" before it is written
  pinned,     \* of each prompt: whether its active version is pinned, "none" without one
  screen,     \* the page that is open: "signals" or "prompts"
  chosen,     \* the filter bar
  listed,     \* the rows on the screen
  loads,      \* the loads that are not over, in the order they were sent
  loading,    \* the spinner
  act,        \* the actions that are not over
  busyRow,    \* actionPending or pinning
  asked, others,
  muddled     \* history: something has happened since the last lone load that no load or
              \* answer brings to the screen

dataVars    == <<kept, pinned, screen>>
screensVars == <<dataVars, chosen, listed, loads, loading, act, busyRow, asked, others, muddled>>

Acts  == 1 .. MaxActs

Spare == [at |-> "none", item |-> NoAct, kind |-> "none", filter |-> FirstFilter]

-----------------------------------------------------------------------------
(* The server.                                                             *)

\* listSignals; the topic of the request is not looked at.
ListSignals(f) == {[item |-> s, as |-> kept[s]] : s \in {s \in Matches[f] : kept[s] \in {"Delivered", "Generated"}}}

\* A LEFT JOIN: a prompt without an active version is listed too.
ListStandingPrompts == {[item |-> p, as |-> pinned[p]] : p \in Prompts}

Listing(f) == IF screen = "signals" THEN ListSignals(f) ELSE ListStandingPrompts

Shows(item, as) == [item |-> item, as |-> as] \in listed

-----------------------------------------------------------------------------
(* Loads.                                                                  *)

Sent(f) == [filter |-> f, at |-> "sent", rows |-> {}]

NoActs == \A a \in Acts : act[a].at = "none"

ScreensInit ==
  /\ kept = [s \in FeedSignals |-> "absent"] /\ pinned = [p \in Prompts |-> "none"]
  /\ screen \in {"signals", "prompts"}
  /\ chosen = FirstFilter /\ listed = {}
  /\ loads = <<Sent(FirstFilter)>> /\ loading = TRUE
  /\ act = [a \in Acts |-> Spare] /\ busyRow = NoAct
  /\ asked = 1 /\ others = 0 /\ muddled = FALSE

\* load() with the filters of the render it belongs to.  A load sent with nothing else under
\* way makes up for all that was missed.
Request(f) ==
  /\ asked < MaxLoads /\ asked' = asked + 1
  /\ loads' = Append(loads, Sent(f)) /\ loading' = TRUE
  /\ muddled' = (muddled /\ ~(NoActs /\ loads = <<>>))

\* The refresh button: of the feed, it is disabled while the spinner turns.
Refresh ==
  /\ screen = "signals" => ~loading
  /\ Request(chosen)
  /\ UNCHANGED <<dataVars, chosen, listed, act, busyRow, others>>

\* The effect of the new filters.
SetFilters(f) ==
  /\ screen = "signals" /\ f # chosen
  /\ chosen' = f
  /\ Request(f)
  /\ UNCHANGED <<dataVars, listed, act, busyRow, others>>

AnswerLoad(k) ==
  /\ k \in DOMAIN loads /\ loads[k].at = "sent"
  /\ loads' = [loads EXCEPT ![k].at = "read", ![k].rows = Listing(loads[k].filter)]
  /\ UNCHANGED <<dataVars, chosen, listed, loading, act, busyRow, asked, others, muddled>>

Over(k) ==
  /\ loads' = SubSeq(loads, 1, k - 1) \o SubSeq(loads, k + 1, Len(loads))
  /\ loading' = FALSE

\* Nothing cancels an earlier load, nor tells whose answer this is.
Apply(k) ==
  /\ k \in DOMAIN loads /\ loads[k].at = "read"
  /\ listed' = loads[k].rows
  /\ Over(k)
  /\ muddled' = (muddled \/ k # 1 \/ loads[k].filter # chosen)
  /\ UNCHANGED <<dataVars, chosen, act, busyRow, asked, others>>

\* An error is shown in place of the rows, which stay.
LoadFailed(k) ==
  /\ k \in DOMAIN loads
  /\ Over(k)
  /\ muddled' = TRUE
  /\ UNCHANGED <<dataVars, chosen, listed, act, busyRow, asked, others>>

-----------------------------------------------------------------------------
(* Actions.                                                                *)

Press(a, item, kind) ==
  /\ act[a].at = "none" /\ \A b \in 1 .. (a - 1) : act[b].at # "none"
  /\ busyRow # item
  /\ act' = [act EXCEPT ![a] = [at |-> "sent", item |-> item, kind |-> kind, filter |-> chosen]]
  /\ busyRow' = item
  /\ UNCHANGED <<dataVars, chosen, listed, loads, loading, asked, others, muddled>>

\* The buttons of a row are there for a delivered signal.
HandleAction(a, s, kind) == Shows(s, "Delivered") /\ Press(a, s, kind)

\* The table is not shown while it loads, and a prompt without a version has no button.
HandlePin(a, p)   == ~loading /\ Shows(p, "no") /\ Press(a, p, "pin")
HandleUnpin(a, p) == ~loading /\ Shows(p, "yes") /\ Press(a, p, "unpin")

CarriesOut(a) ==
  /\ act[a].at = "sent"
  /\ act' = [act EXCEPT ![a].at = "done"]
  /\ UNCHANGED <<screen, chosen, listed, loads, loading, busyRow, asked, others, muddled>>

\* PATCH: only a dismissal of a delivered signal changes anything.
ActionSignal(a) ==
  /\ act[a].item \in FeedSignals /\ CarriesOut(a)
  /\ kept' = [kept EXCEPT ![act[a].item] =
                IF act[a].kind = "dismiss" /\ @ = "Delivered" THEN "Suppressed" ELSE @]
  /\ UNCHANGED pinned

\* The active version of the prompt; without one the answer is a 404.
PinStandingPrompt(a) ==
  /\ act[a].item \in Prompts /\ CarriesOut(a)
  /\ pinned' = [pinned EXCEPT ![act[a].item] = IF act[a].kind = "pin" THEN "yes" ELSE "no"]
  /\ UNCHANGED kept

\* `finally`: whichever row is busy, it no longer is.
SetFree(a) == act' = [act EXCEPT ![a] = Spare] /\ busyRow' = NoAct

\* A dismissed row is taken off the screen; what a load under way has read still holds it.
Dismissed(a) ==
  /\ act[a].at = "done" /\ act[a].kind = "dismiss"
  /\ listed' = {row \in listed : row.item # act[a].item}
  /\ SetFree(a)
  /\ muddled' = (muddled \/ loads # <<>>)
  /\ UNCHANGED <<dataVars, chosen, loads, loading, asked, others>>

\* The other actions reload: the feed with the filters there were when the button was pressed.
ReloadWrong(a) == UNCHANGED <<asked, loads, loading, muddled>>
Reload(a) == Request(act[a].filter)

Answered(a) ==
  /\ act[a].at = "done" /\ act[a].kind # "dismiss"
  /\ Reload(a)
  /\ SetFree(a)
  /\ UNCHANGED <<dataVars, chosen, listed, others>>

\* The request fails, or its answer is lost: there is no reload.
ActFailed(a) ==
  /\ act[a].at # "none"
  /\ SetFree(a)
  /\ muddled' = TRUE
  /\ UNCHANGED <<dataVars, chosen, listed, loads, loading, asked, others>>

-----------------------------------------------------------------------------
\* The pipeline writes, queues and delivers signals; a distillation activates a version.
ByOthers ==
  /\ others < MaxOthers /\ others' = others + 1
  /\ muddled' = TRUE
  /\ UNCHANGED <<screen, chosen, listed, loads, loading, act, busyRow, asked>>

SignalMoves(s, to) ==
  /\ <<kept[s], to>> \in {<<"absent", "Generated">>, <<"Generated", "Queued">>, <<"Generated", "Delivered">>,
                          <<"Queued", "Delivered">>, <<"Queued", "Suppressed">>}
  /\ kept' = [kept EXCEPT ![s] = to]
  /\ UNCHANGED pinned /\ ByOthers

VersionMoves(p) ==
  /\ pinned[p] = "none"
  /\ pinned' = [pinned EXCEPT ![p] = "no"]
  /\ UNCHANGED kept /\ ByOthers

ScreensNext ==
  \/ Refresh
  \/ \E k \in 1 .. MaxLoads : AnswerLoad(k) \/ Apply(k) \/ LoadFailed(k)
  \/ \E f \in Filters : SetFilters(f)
  \/ \E a \in Acts :
       \/ \E s \in FeedSignals, kind \in {"acknowledge", "act", "dismiss"} : HandleAction(a, s, kind)
       \/ \E p \in Prompts : HandlePin(a, p) \/ HandleUnpin(a, p)
       \/ ActionSignal(a) \/ PinStandingPrompt(a)
       \/ Dismissed(a) \/ Answered(a) \/ ActFailed(a)
  \/ \E s \in FeedSignals, to \in {"Generated", "Queued", "Delivered", "Suppressed"} : SignalMoves(s, to)
  \/ \E p \in Prompts : VersionMoves(p)

ScreensSpec == ScreensInit /\ [][ScreensNext]_screensVars

-----------------------------------------------------------------------------
ScreensTypeOK ==
  /\ kept \in [FeedSignals -> {"absent", "Generated", "Queued", "Delivered", "Suppressed"}]
  /\ pinned \in [Prompts -> {"none", "no", "yes"}]
  /\ chosen \in Filters /\ loading \in BOOLEAN
  /\ Len(loads) <= MaxLoads

\* A page with nothing under way shows what the database holds, unless since its last lone
\* load an answer was overtaken or lost, came for other filters, or told less than
\* what others, or a dismissal under way, have changed.
ScreensCurrent ==
  loads = <<>> /\ NoActs /\ ~muddled => listed = Listing(chosen)
=============================================================================
