----------------------------- MODULE TradeReplay -----------------------------
(***************************************************************************)
(* The business journal as it is streamed and exported, and the archiving  *)
(* of old alerts.                                                          *)
(*                                                                         *)
(*   packages/db/business-journal.ts   packages/db/mkt-trade-replay.ts     *)
(*   apps/server/src/api/replay.ts                                         *)
(*                                                                         *)
(* A row of the journal has the time of its insert and a random id; a      *)
(* stream sends rows in the order of their times and remembers an id.      *)
(* Archivers may overlap, and stop between any two of their steps.         *)
(***************************************************************************)
EXTENDS Naturals, FiniteSets, Sequences, SequencesExt

CONSTANTS
  MaxRows,      \* bound: rows of the journal; the ids are 1..MaxRows in any order
  Streams,      \* clients of the stream
  PollLimit,    \* rows sent per poll
  MaxTicks,     \* polls after which a stream is closed
  Alerts,       \* alerts old enough to be archived
  Archivers     \* runs of archiveColdAlerts

ASSUME ReplayAssumption == MaxRows \in Nat /\ PollLimit \in Nat \ {0} /\ MaxTicks \in Nat

VARIABLES
  journalRows,    \* the rows' ids, in the order of their times
  stream,     \* of each client: whether it is open, the id it was sent last, its polls
  sent,       \* of each client: the ids it was sent, in order
  alert,      \* mkt_alerts: the status of each, "cold" once cold_archived
  objects,    \* the objects in the store
  manifest,   \* mkt_cold_archive
  archiver    \* of each run: the alerts it has listed and the step it is at

replayVars == <<journalRows, stream, sent, alert, objects, manifest, archiver>>

Closed == [open |-> FALSE, after |-> 0, ticks |-> 0]
Done   == [todo |-> {}, at |-> "list"]

-----------------------------------------------------------------------------
ReplayInit ==
  /\ journalRows = <<>> /\ sent = [s \in Streams |-> <<>>]
  /\ stream = [s \in Streams |-> Closed]
  /\ alert = [a \in Alerts |-> "notified"] /\ objects = {} /\ manifest = {}
  /\ archiver = [r \in Archivers |-> Done]

\* writeJournalEvent.
WriteJournalEvent ==
  /\ Len(journalRows) < MaxRows
  /\ \E id \in 1..MaxRows \ ToSet(journalRows) : journalRows' = Append(journalRows, id)
  /\ UNCHANGED <<stream, sent, alert, objects, manifest, archiver>>

\* pollLiveJournal: the first rows, by time, with an id above the one sent last.
PollLiveJournal(after) ==
  LET due   == {i \in DOMAIN journalRows : journalRows[i] > after}
      count == IF Cardinality(due) < PollLimit THEN Cardinality(due) ELSE PollLimit
  IN [n \in 1..count |-> journalRows[CHOOSE i \in due : Cardinality({j \in due : j <= i}) = n]]

Send(s, rows) ==
  /\ sent' = [sent EXCEPT ![s] = @ \o rows]
  /\ stream' = [stream EXCEPT ![s].open = TRUE,
                              ![s].after = IF rows = <<>> THEN @ ELSE rows[Len(rows)],
                              ![s].ticks = IF stream[s].open THEN @ + 1 ELSE 0]

\* The first rows of a new stream, and then a poll a second.
OpenStream(s) ==
  /\ ~stream[s].open /\ sent[s] = <<>>
  /\ Send(s, PollLiveJournal(0))
  /\ UNCHANGED <<journalRows, alert, objects, manifest, archiver>>

StreamTick(s) ==
  /\ stream[s].open /\ stream[s].ticks < MaxTicks
  /\ Send(s, PollLiveJournal(stream[s].after))
  /\ UNCHANGED <<journalRows, alert, objects, manifest, archiver>>

CloseStream(s) ==
  /\ stream[s].open
  /\ stream' = [stream EXCEPT ![s].open = FALSE]
  /\ UNCHANGED <<journalRows, sent, alert, objects, manifest, archiver>>

-----------------------------------------------------------------------------
AlertArchived(a) ==
  /\ alert[a] = "notified"
  /\ alert' = [alert EXCEPT ![a] = "archived"]
  /\ UNCHANGED <<journalRows, stream, sent, objects, manifest, archiver>>

\* archiveColdAlerts: the archived alerts that are still in the hot table.
ListCold(r) ==
  /\ archiver[r].at = "list"
  /\ archiver' = [archiver EXCEPT ![r] = [todo |-> {a \in Alerts : alert[a] = "archived"}, at |-> "put"]]
  /\ UNCHANGED <<journalRows, stream, sent, alert, objects, manifest>>

\* The alert the run is at; the order of the list does not matter.
AtAlert(r) == CHOOSE a \in archiver[r].todo : TRUE

NextAlert(r) == archiver' = [archiver EXCEPT ![r] =
  IF Cardinality(@.todo) <= 1 THEN Done ELSE [todo |-> @.todo \ {AtAlert(r)}, at |-> "put"]]

PutObject(r) ==
  /\ archiver[r].at = "put"
  /\ IF archiver[r].todo = {} THEN archiver' = [archiver EXCEPT ![r] = Done] /\ UNCHANGED objects
     ELSE /\ objects' = objects \cup {AtAlert(r)}
          /\ archiver' = [archiver EXCEPT ![r].at = "row"]
  /\ UNCHANGED <<journalRows, stream, sent, alert, manifest>>

\* INSERT ... ON CONFLICT (alert_id) DO NOTHING.
InsertManifest(r) ==
  /\ archiver[r].at = "row"
  /\ manifest' = manifest \cup {AtAlert(r)}
  /\ archiver' = [archiver EXCEPT ![r].at = "mark"]
  /\ UNCHANGED <<journalRows, stream, sent, alert, objects>>

MarkCold(r) ==
  /\ archiver[r].at = "mark"
  /\ alert' = [alert EXCEPT ![AtAlert(r)] = "cold"]
  /\ NextAlert(r)
  /\ UNCHANGED <<journalRows, stream, sent, objects, manifest>>

\* A step that fails: the alert is skipped, to be listed again by a later run.
SkipAlert(r) ==
  /\ archiver[r].at \in {"put", "row", "mark"} /\ archiver[r].todo # {}
  /\ NextAlert(r)
  /\ UNCHANGED <<journalRows, stream, sent, alert, objects, manifest>>

\* The process stops.
ArchiverDies(r) ==
  /\ archiver[r] # Done /\ archiver' = [archiver EXCEPT ![r] = Done]
  /\ UNCHANGED <<journalRows, stream, sent, alert, objects, manifest>>

ReplayNext ==
  \/ WriteJournalEvent
  \/ \E s \in Streams : OpenStream(s) \/ StreamTick(s) \/ CloseStream(s)
  \/ \E a \in Alerts : AlertArchived(a)
  \/ \E r \in Archivers : ListCold(r) \/ PutObject(r) \/ InsertManifest(r) \/ MarkCold(r)
                          \/ SkipAlert(r) \/ ArchiverDies(r)

ReplaySpec == ReplayInit /\ [][ReplayNext]_replayVars

-----------------------------------------------------------------------------
ReplayTypeOK ==
  /\ journalRows \in Seq(1..MaxRows) /\ sent \in [Streams -> Seq(1..MaxRows)]
  /\ objects \subseteq Alerts /\ manifest \subseteq Alerts
  /\ stream \in [Streams -> [open : BOOLEAN, after : 0..MaxRows, ticks : 0..MaxTicks]]
  /\ alert \in [Alerts -> {"notified", "archived", "cold"}]
  /\ archiver \in [Archivers -> [todo : SUBSET Alerts, at : {"list", "put", "row", "mark"}]]

\* An alert leaves the hot path only once its copy is in the store and in the manifest,
\* whatever steps fail, whichever runs overlap and wherever they stop.
ColdComplete == \A a \in Alerts : alert[a] = "cold" => a \in objects /\ a \in manifest
=============================================================================
