----------------------------- MODULE MarketEvents -----------------------------
(***************************************************************************)
(* The store of filings and of the events they announce.                   *)
(*                                                                         *)
(*   packages/db/mkt-market-event-store.ts   packages/db/mkt-schema.sql    *)
(*                                                                         *)
(* Several ingesters land filings of several venues about one subject; a   *)
(* filing within the window of an event that is still open is taken for    *)
(* the same event.  Expected events whose window has passed are swept.     *)
(* Each function of the store is one statement; what a caller does with    *)
(* its answer comes later.  The callers are external: only a test calls    *)
(* the store, and they keep to the order its comments give.                *)
(***************************************************************************)
EXTENDS Integers, FiniteSets, Sequences

CONSTANTS
  Filings,      \* raw filings, all about one subject and one kind of event
  FiledAt,      \* the event date each of them gives
  Closes,       \* the end of the anticipated window of those that only expect the event; 0 for the others
  DedupWindow,  \* dedup_window_seconds
  Ingesters,    \* callers of the store
  MaxNow        \* bound: the clock of the sweep

ASSUME MarketAssumption ==
  /\ FiledAt \in [Filings -> Nat] /\ Closes \in [Filings -> 0..MaxNow]
  /\ DedupWindow \in Nat /\ MaxNow \in Nat

VARIABLES
  filing,    \* raw_filings: the status of each, or "none"
  event,     \* market_events, by the filing that made it: its status, or "none"
  caller,    \* what each ingester read and does with it
  now,       \* the clock
  told,      \* the statuses of each event that a caller was told it wrote (history)
  rivals     \* events of which one was inserted unseen by the caller that inserted the other (history)

marketVars == <<filing, event, caller, now, told, rivals>>

Abs(x) == IF x < 0 THEN -x ELSE x

\* VALID_MARKET_EVENT_TRANSITIONS.
Transitions == {<<"Expected", "Detected">>, <<"Expected", "PassedSilently">>,
                <<"Detected", "Enriched">>, <<"Detected", "Disputed">>,
                <<"Enriched", "Evaluated">>, <<"Enriched", "Disputed">>, <<"Evaluated", "Closed">>}

EventStatuses == {t[1] : t \in Transitions} \cup {t[2] : t \in Transitions}

\* missed: the events inserted since the caller found none for its filing.
Free == [pc |-> "free", filing |-> 0, event |-> 0, status |-> "none", missed |-> {}]

\* Composite identity: subject and kind are the same here, the dates within the window.
Near(e, f) == Abs(FiledAt[e] - FiledAt[f]) <= DedupWindow

\* The open events that a filing may be about, and the nearest of them.
Open         == {"Expected", "Detected", "Enriched"}
SameEvent(f) == {e \in Filings : event[e] \in Open /\ Near(e, f)}
Nearest(f)   == {e \in SameEvent(f) : \A d \in SameEvent(f) :
                   Abs(FiledAt[e] - FiledAt[f]) <= Abs(FiledAt[d] - FiledAt[f])}

-----------------------------------------------------------------------------
MarketInit ==
  /\ filing = [f \in Filings |-> "none"] /\ event = [f \in Filings |-> "none"]
  /\ caller = [c \in Ingesters |-> Free] /\ now = 0
  /\ told = [f \in Filings |-> <<>>] /\ rivals = {}

\* insertRawFiling: ON CONFLICT DO NOTHING; a filing that landed before is looked up.
InsertRawFiling(c, f) ==
  /\ caller[c].pc = "free"
  /\ filing' = [filing EXCEPT ![f] = IF @ = "none" THEN "raw" ELSE @]
  /\ caller' = [caller EXCEPT ![c] = [Free EXCEPT !.pc = "dedup", !.filing = f]]
  /\ UNCHANGED <<event, now, told, rivals>>

\* dedupMarketEventByCompositeIdentity.
DedupByIdentity(c) ==
  LET f == caller[c].filing IN
  /\ caller[c].pc = "dedup"
  /\ IF SameEvent(f) = {} THEN caller' = [caller EXCEPT ![c].pc = "insert"]
     ELSE \E e \in Nearest(f) : caller' = [caller EXCEPT ![c].pc = "mark", ![c].event = e]
  /\ UNCHANGED <<filing, event, now, told, rivals>>

\* insertMarketEvent: one event per filing, expected or detected.
InsertMarketEvent(c) ==
  LET f     == caller[c].filing
      s     == IF Closes[f] > 0 THEN "Expected" ELSE "Detected"
      fresh == event[f] = "none" IN
  /\ caller[c].pc = "insert"
  /\ event' = [event EXCEPT ![f] = IF fresh THEN s ELSE @]
  /\ told' = [told EXCEPT ![f] = IF fresh THEN <<s>> ELSE @]
  /\ rivals' = rivals \cup {{f, e} : e \in IF fresh THEN caller[c].missed ELSE {}}
  /\ caller' = [d \in Ingesters |->
       IF d = c THEN [caller[c] EXCEPT !.pc = "mark", !.event = f, !.missed = {}]
       ELSE IF fresh /\ caller[d].pc = "insert" THEN [caller[d] EXCEPT !.missed = @ \cup {f}]
       ELSE caller[d]]
  /\ UNCHANGED <<filing, now>>

\* markFilingNormalized, once the filing has an event; the event is left as it is.
MarkFilingNormalized(c) ==
  /\ caller[c].pc = "mark"
  /\ filing' = [filing EXCEPT ![caller[c].filing] = IF @ = "raw" THEN "normalized" ELSE @]
  /\ caller' = [caller EXCEPT ![c] = Free]
  /\ UNCHANGED <<event, now, told, rivals>>

\* As Transition below, had the row been updated by its id alone.
TransitionWrong(e, from, to) ==
  /\ <<from, to>> \in Transitions
  /\ event' = [event EXCEPT ![e] = to]
  /\ told' = [told EXCEPT ![e] = Append(@, to)]

\* transitionMarketEventStatus: the row changes only if it still is what the caller read,
\* and only then is the caller told of it.
Transition(e, from, to) ==
  /\ <<from, to>> \in Transitions
  /\ event' = [event EXCEPT ![e] = IF @ = from THEN to ELSE @]
  /\ told' = [told EXCEPT ![e] = IF event[e] = from THEN Append(@, to) ELSE @]

\* listExpectedEventsWithExpiredWindows.
ListExpired(c) ==
  /\ caller[c].pc = "free"
  /\ \E e \in Filings :
       /\ event[e] = "Expected" /\ Closes[e] <= now
       /\ caller' = [caller EXCEPT ![c] = [Free EXCEPT !.pc = "confirm", !.event = e]]
  /\ UNCHANGED <<filing, event, now, told, rivals>>

\* What the comments ask of the worker: no Detected event of the same identity.
ConfirmSilent(c) ==
  /\ caller[c].pc = "confirm"
  /\ caller' = [caller EXCEPT ![c] =
       IF \E d \in Filings : event[d] = "Detected" /\ Near(d, @.event) THEN Free ELSE [@ EXCEPT !.pc = "pass"]]
  /\ UNCHANGED <<filing, event, now, told, rivals>>

TransitionToPassedSilently(c) ==
  /\ caller[c].pc = "pass"
  /\ Transition(caller[c].event, "Expected", "PassedSilently")
  /\ caller' = [caller EXCEPT ![c] = Free]
  /\ UNCHANGED <<filing, now, rivals>>

\* getMarketEventById, and later a move that the status it read allows.
ReadEvent(c) ==
  /\ caller[c].pc = "free"
  /\ \E e \in Filings :
       /\ event[e] \in {t[1] : t \in Transitions}
       /\ caller' = [caller EXCEPT ![c] = [Free EXCEPT !.pc = "advance", !.event = e, !.status = event[e]]]
  /\ UNCHANGED <<filing, event, now, told, rivals>>

Advance(c) ==
  /\ caller[c].pc = "advance"
  /\ \E to \in EventStatuses \ {"PassedSilently"} : Transition(caller[c].event, caller[c].status, to)
  /\ caller' = [caller EXCEPT ![c] = Free]
  /\ UNCHANGED <<filing, now, rivals>>

\* The caller dies; the filing is delivered again.
CallerDies(c) ==
  /\ caller[c].pc # "free" /\ caller' = [caller EXCEPT ![c] = Free]
  /\ UNCHANGED <<filing, event, now, told, rivals>>

TimePasses ==
  /\ now < MaxNow /\ now' = now + 1
  /\ UNCHANGED <<filing, event, caller, told, rivals>>

MarketNext ==
  \/ \E c \in Ingesters :
       \/ \E f \in Filings : InsertRawFiling(c, f)
       \/ DedupByIdentity(c) \/ InsertMarketEvent(c) \/ MarkFilingNormalized(c)
       \/ ListExpired(c) \/ ConfirmSilent(c) \/ TransitionToPassedSilently(c)
       \/ ReadEvent(c) \/ Advance(c) \/ CallerDies(c)
  \/ TimePasses

MarketSpec == MarketInit /\ [][MarketNext]_marketVars

-----------------------------------------------------------------------------
MarketTypeOK ==
  /\ filing \in [Filings -> {"none", "raw", "normalized"}]
  /\ event \in [Filings -> EventStatuses \cup {"none"}]
  /\ told \in [Filings -> Seq(EventStatuses)]
  /\ now \in 0..MaxNow

\* However the callers that read an event and later move it interleave, what they were told
\* they wrote is one path of the status machine from the insertion to the status of the row:
\* of two that move it from the same status, one is told and the other gets null.
MovesOnce ==
  \A e \in Filings :
    /\ (event[e] = "none") = (told[e] = <<>>)
    /\ told[e] # <<>> => told[e][1] \in {"Expected", "Detected"} /\ told[e][Len(told[e])] = event[e]
    /\ \A i \in 1..Len(told[e]) - 1 : <<told[e][i], told[e][i + 1]>> \in Transitions

\* Two open events of one identity stand side by side only if each was inserted by a caller
\* that had looked before the other was: nothing but the dedup query keeps them apart.
OneOpenEvent ==
  \A d, e \in Filings :
    d # e /\ event[d] \in Open /\ event[e] \in Open /\ Near(d, e) => {d, e} \in rivals

\* An event passes in silence only once its window is over, and a filing is normalised only
\* once an event of its identity stands.
Accounted ==
  /\ \A e \in Filings : event[e] = "PassedSilently" => Closes[e] <= now
  /\ \A f \in Filings : filing[f] = "normalized" => \E e \in Filings : event[e] # "none" /\ Near(e, f)

EventsSound == MovesOnce /\ OneOpenEvent /\ Accounted
=============================================================================
