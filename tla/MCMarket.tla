------------------------------ MODULE MCMarket ------------------------------
(***************************************************************************)
(* Instances for TLC of the signals and what surrounds them: the market    *)
(* events, the journal and its archive, and the pages that show the feed.  *)
(* The components share no state here: `part' says which of them moves in  *)
(* a behaviour, so that one run explores each of them and not their        *)
(* product.                                                                *)
(***************************************************************************)
EXTENDS Signal, MarketEvents, TradeReplay, Screens, TLC

CONSTANTS e1, e2, w1, w2, r1, r2, s1, d1, q1, \* Signal
          a1, a2                              \* TradeReplay; its archivers are w1 and w2

\* A filing gives its own day; the first only expects the event, by the end of day 1.
MCFiledAt == [f \in Filings |-> f]
MCCloses  == [f \in Filings |-> IF f = 1 THEN 1 ELSE 0]
\* The other setting of the filter bar hides the only signal.
MCMatches == "all" :> FeedSignals @@ "none" :> {}

VARIABLE part  \* the component that moves in this behaviour

marketSideVars == <<part,
    vars, marketVars, replayVars, screensVars>>

MarketSideInit ==
  /\ part \in {"signal", "events", "replay", "screens"}
  /\ Init
  /\ MarketInit
  /\ ReplayInit
  /\ ScreensInit
  /\ part = "screens" \/ screen = "signals"

MarketSideNext ==
  \/ /\ part = "signal" /\ Next
     /\ UNCHANGED <<part, marketVars, replayVars, screensVars>>
  \/ /\ part = "events" /\ MarketNext
     /\ UNCHANGED <<part, vars, replayVars, screensVars>>
  \/ /\ part = "replay" /\ ReplayNext
     /\ UNCHANGED <<part, vars, marketVars, screensVars>>
  \/ /\ part = "screens" /\ ScreensNext
     /\ UNCHANGED <<part, vars, marketVars, replayVars>>

MarketSideSpec == MarketSideInit /\ [][MarketSideNext]_marketSideVars

\* Workers and reviewers are interchangeable; no property of the runs is a liveness
\* property.
Symmetry == Permutations({w1, w2}) \cup Permutations({r1, r2})

\* Every variable of the four keeps to its type.
MarketSideTypeOK == TypeOK /\ MarketTypeOK /\ ReplayTypeOK /\ ScreensTypeOK

\* What the store says of an event or an alert is so, whatever requests and deaths
\* interleave: the moves of an event are one path of its status machine and each was told to
\* one caller, a second open event of one identity comes from two callers that looked before
\* either inserted, and only an event whose window is over passes in silence (EventsSound);
\* an alert that is cold can be brought back from its upload and its manifest (ColdComplete).
RowsTruthful == EventsSound /\ ColdComplete
=============================================================================
