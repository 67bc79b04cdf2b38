---------------------------- MODULE EdgarIngest ----------------------------
(***************************************************************************)
(* Ingestion of EDGAR filings: a poll reads the watermark of a form type,  *)
(* asks the feed for what was filed since, posts every entry to the API,   *)
(* and moves the watermark if nothing in the batch failed.                 *)
(*                                                                         *)
(*   apps/worker/src/edgar-ingest-job.ts                                   *)
(*   apps/server/src/api/corporate-action-ingestion.ts                     *)
(*   apps/server/src/api/etl-cursor.ts                                     *)
(*   packages/db/etl-cursors.ts   packages/db/mkt-corporate-action.ts      *)
(*                                                                         *)
(* Form types do not share anything, so the module is about one of them.   *)
(* A date is a number of ticks and DayOf is the calendar: watermarks are   *)
(* kept to the tick but the feed is asked by the day.  The feed is         *)
(* external: it answers with the newest PageSize entries, newest first,    *)
(* and the poll asks for no second page.                                   *)
(***************************************************************************)
EXTENDS Naturals, FiniteSets

CONSTANTS
  Filings,    \* filings of the form type that may ever be published
  Date,       \* the date of each, in ticks from 1
  NoId,       \* filings whose entry has no accession number
  Undated,    \* filings whose entry has no <updated>
  Malformed,  \* filings whose body the API refuses
  Overlap,    \* ticks an amended form type is asked for behind its watermark
  LastTick,   \* bound: the last date
  DayOf,      \* the day of a tick
  PageSize,   \* entries in an answer of the feed
  Pollers,    \* workers that poll
  MaxPolls,   \* bound: polls started
  None        \* no filing

ASSUME EdgarAssumption ==
  /\ LastTick \in Nat
  /\ Date \in [Filings -> 1..LastTick]
  /\ NoId \subseteq Filings /\ Malformed \subseteq Filings /\ Undated \subseteq Filings
  /\ Overlap \in Nat
  /\ DayOf \in [0..LastTick -> Nat]
  /\ \A s, t \in 0..LastTick : s <= t => DayOf[s] <= DayOf[t]
  /\ PageSize \in Nat \ {0} /\ MaxPolls \in Nat
  /\ None \notin Filings

VARIABLES
  feed,      \* filings the feed has published
  stored,    \* mkt_corporate_actions, by accession number
  enqueued,  \* per filing: ALERT_ENRICH tasks enqueued
  cursor,    \* etl_cursors.watermark_value, 0 for the empty string
  poll,      \* per poller: the poll it is in
  passed,    \* filings a poll moved the watermark past unseen (history)
  polls      \* polls started

vars == <<feed, stored, enqueued, cursor, poll, passed, polls>>

Larger(a, b) == IF a > b THEN a ELSE b

\* The first day a poll asks for.
Since(mark) == DayOf[IF mark > Overlap THEN mark - Overlap ELSE 0]
Day(f)      == DayOf[Date[f]]

\* page is the answer, cut what it has no room for, batch the entries to come; stamped
\* says that the candidate is a time of day.
NoPoll == [pc |-> "idle", mark |-> 0, page |-> {}, cut |-> {}, batch |-> {}, entry |-> None,
           candidate |-> 0, stamped |-> FALSE, errors |-> FALSE]

Init ==
  /\ feed     = {}
  /\ stored   = {}
  /\ enqueued = [f \in Filings |-> 0]
  /\ cursor   = 0
  /\ poll     = [p \in Pollers |-> NoPoll]
  /\ passed   = {}
  /\ polls    = 0

At(p, pc) == poll[p].pc = pc

-----------------------------------------------------------------------------
(* The feed.  A filing appears at most Overlap ticks after a later one.    *)

Publish(f) ==
  /\ f \notin feed
  /\ \A g \in feed : Date[g] <= Date[f] + Overlap
  /\ feed' = feed \cup {f}
  /\ UNCHANGED <<stored, enqueued, cursor, poll, passed, polls>>

Asked(mark) == {f \in feed : mark = 0 \/ Day(f) >= Since(mark)}

\* The entries of an answer; filings of one date in an order of the feed's.
Pages(fs) ==
  {page \in SUBSET fs :
     /\ Cardinality(page) = IF Cardinality(fs) < PageSize THEN Cardinality(fs) ELSE PageSize
     /\ \A f \in page, g \in fs \ page : Date[f] >= Date[g]}

Newest(fs) == {f \in fs : \A g \in fs : Date[g] <= Date[f]}

-----------------------------------------------------------------------------
(* pollFormType.  What a step does to a poll is an operator on its row.    *)

Marked(row, mark)  == [row EXCEPT !.pc = "fetch", !.mark = mark, !.candidate = mark]
Answered(row, page, asked) ==
  [row EXCEPT !.pc = "entries", !.page = page, !.batch = page, !.cut = asked \ page]
Skipped(row, f)    == [row EXCEPT !.batch = @ \ {f}, !.errors = TRUE]
Written(row, f)    == [row EXCEPT !.pc = "enqueue", !.entry = f]
Ended(row)         == [row EXCEPT !.pc = "done"]

\* filing_date of an entry: its own, or the time of day, which no entry of the answer is
\* younger than.
FiledAt(row, f) == IF f \in Undated THEN {t \in 0..LastTick : \A g \in row.page : Date[g] <= t}
                                    ELSE {Date[f]}

\* What a 201 or a 200 does to the poll.
Seen(row, f, date) ==
  [row EXCEPT !.pc = "entries", !.candidate = Larger(@, date), !.batch = @ \ {f}, !.entry = None,
              !.stamped = IF date > row.candidate THEN f \in Undated ELSE @]

\* What a poll leaves behind with the watermark it writes, and did not see: what its
\* answer cut, and whatever it was not shown if the watermark is a time of day.
Overtaken(row) ==
  {f \in row.cut \cup (IF row.stamped THEN Filings \ row.page ELSE {}) : Day(f) < Since(row.candidate)}

\* An error stops the loop, and leaves the watermark alone.
Broken(row) == [row EXCEPT !.pc = "done", !.errors = TRUE]

Start(p) ==
  /\ poll[p].pc \in {"idle", "done"} /\ polls < MaxPolls
  /\ polls' = polls + 1
  /\ poll' = [poll EXCEPT ![p] = [NoPoll EXCEPT !.pc = "read"]]
  /\ UNCHANGED <<feed, stored, enqueued, cursor, passed>>

\* A read that fails counts as a first run.
ReadWatermark(p) ==
  /\ At(p, "read")
  /\ \E mark \in {cursor, 0} : poll' = [poll EXCEPT ![p] = Marked(@, mark)]
  /\ UNCHANGED <<feed, stored, enqueued, cursor, passed, polls>>

Fetch(p) ==
  /\ At(p, "fetch")
  /\ \/ LET asked == Asked(poll[p].mark) IN
        \E page \in Pages(asked) : poll' = [poll EXCEPT ![p] = Answered(@, page, asked)]
     \/ poll' = [poll EXCEPT ![p] = Ended(@)]
  /\ UNCHANGED <<feed, stored, enqueued, cursor, passed, polls>>

\* As SkipEntry below, had the loop gone back to the same entry.
SkipEntryWrong(p) ==
  /\ At(p, "entries")
  /\ \E f \in Newest(poll[p].batch) \cap NoId : poll' = [poll EXCEPT ![p].errors = TRUE]
  /\ UNCHANGED <<feed, stored, enqueued, cursor, passed, polls>>

\* An entry without an accession number is an error, and the loop goes on.
SkipEntry(p) ==
  /\ At(p, "entries")
  /\ \E f \in Newest(poll[p].batch) \cap NoId : poll' = [poll EXCEPT ![p] = Skipped(@, f)]
  /\ UNCHANGED <<feed, stored, enqueued, cursor, passed, polls>>

\* The body holds all that the API requires.
Valid(f) == f \notin Malformed

\* handleCorporateActionIngestionRequest up to the row: a refusal, a
\* duplicate, or a new row whose task is still to be enqueued.
PostEntry(p) ==
  /\ At(p, "entries")
  /\ \E f \in Newest(poll[p].batch) \ NoId :
       \/ /\ ~Valid(f)
          /\ poll' = [poll EXCEPT ![p] = Broken(@)] /\ UNCHANGED stored
       \/ /\ Valid(f) /\ f \in stored
          /\ \E date \in FiledAt(poll[p], f) : poll' = [poll EXCEPT ![p] = Seen(@, f, date)]
          /\ UNCHANGED stored
       \/ /\ Valid(f) /\ f \notin stored
          /\ poll' = [poll EXCEPT ![p] = Written(@, f)] /\ stored' = stored \cup {f}
  /\ UNCHANGED <<feed, enqueued, cursor, passed, polls>>

Enqueue(p) ==
  /\ At(p, "enqueue")
  /\ enqueued' = [enqueued EXCEPT ![poll[p].entry] = @ + 1]
  /\ \E date \in FiledAt(poll[p], poll[p].entry) :
       poll' = [poll EXCEPT ![p] = Seen(@, @.entry, date)]
  /\ UNCHANGED <<feed, stored, cursor, passed, polls>>

\* The request is lost before it had an effect, or after the row was written:
\* the worker sees an error either way.
LoseRequest(p) ==
  /\ At(p, "enqueue") \/ (At(p, "entries") /\ poll[p].batch # {})
  /\ poll' = [poll EXCEPT ![p] = Broken(@)]
  /\ UNCHANGED <<feed, stored, enqueued, cursor, passed, polls>>

\* As AdvanceWatermark below, had a batch with errors moved the watermark.
AdvanceWatermarkWrong(p) ==
  /\ At(p, "entries") /\ poll[p].batch = {}
  /\ cursor' = poll[p].candidate /\ passed' = passed \cup Overtaken(poll[p])
  /\ poll' = [poll EXCEPT ![p] = Ended(@)]
  /\ UNCHANGED <<feed, stored, enqueued, polls>>

\* The write is unconditional; it may fail, and nothing is made of that.
AdvanceWatermark(p) ==
  /\ At(p, "entries") /\ poll[p].batch = {}
  /\ \/ /\ ~poll[p].errors /\ poll[p].candidate # poll[p].mark
        /\ cursor' = poll[p].candidate /\ passed' = passed \cup Overtaken(poll[p])
     \/ UNCHANGED <<cursor, passed>>
  /\ poll' = [poll EXCEPT ![p] = Ended(@)]
  /\ UNCHANGED <<feed, stored, enqueued, polls>>

\* The worker is gone; its task will be polled again.
Crash(p) ==
  /\ poll[p].pc \notin {"idle", "done"}
  /\ poll' = [poll EXCEPT ![p] = Ended(@)]
  /\ UNCHANGED <<feed, stored, enqueued, cursor, passed, polls>>

Poll(p) ==
  \/ ReadWatermark(p) \/ Fetch(p)
  \/ SkipEntry(p) \/ PostEntry(p) \/ Enqueue(p)
  \/ AdvanceWatermark(p)

Next ==
  \/ \E f \in Filings : Publish(f)
  \/ \E p \in Pollers : Start(p) \/ Poll(p) \/ LoseRequest(p) \/ Crash(p)

Spec == Init /\ [][Next]_vars

-----------------------------------------------------------------------------
Marks == 0..LastTick

PollRows == [pc : {"idle", "read", "fetch", "entries", "enqueue", "done"},
             mark : Marks, page : SUBSET Filings, cut : SUBSET Filings, batch : SUBSET Filings,
             entry : {None} \cup Filings, candidate : Marks, stamped : BOOLEAN, errors : BOOLEAN]

\* Every variable keeps to its type; the watermark is never past the last date.
TypeOK ==
  /\ feed \subseteq Filings /\ stored \subseteq Filings
  /\ enqueued \in [Filings -> Nat]
  /\ cursor \in Marks /\ passed \subseteq Filings
  /\ polls \in 0..MaxPolls
  /\ poll \in [Pollers -> PollRows]

\* Land before advance: a published filing that no poll will ask for again,
\* because the watermark has left its day behind, has been stored.  Pollers
\* overlap, requests and answers are lost, watermarks are written out of
\* order, and amendments appear late.  The code loses a filing in two ways only:
\* the poll that moved the watermark past it had an answer with no room for it
\* (it reads one page, :376), or took now() for the date of an entry without one
\* (:396).
NothingSkipped ==
  \A f \in feed : Day(f) < Since(cursor) => f \in stored \cup passed

\* The watermark is the date of a filing that has landed, or the time of day one
\* without a date did: it is never moved by an entry whose request was refused
\* or lost.
WatermarkLanded ==
  cursor # 0 => \E f \in stored : f \in Undated \/ Date[f] = cursor

\* A filing is enqueued for enrichment at most once, however many polls post
\* it, and only when its row is there.
EnqueuedOnce ==
  \A f \in Filings : enqueued[f] <= IF f \in stored THEN 1 ELSE 0

\* What a deployment relies on: nothing skipped but what one page cuts off or a time of
\* day outruns, nothing enqueued twice, and a watermark that stands for a stored filing.
EdgarSound == NothingSkipped /\ WatermarkLanded /\ EnqueuedOnce
=============================================================================
