----------------------------- MODULE Knowledge -----------------------------
(***************************************************************************)
(* From a canonical source to its facts: the SOURCE_SCRAPE, FINDING_INGEST *)
(* and FACT_EXTRACT tasks of one source, the internal API they call, and   *)
(* the rows of source_findings, corpus_chunks, confirmed_facts and         *)
(* etl_quarantine.                                                         *)
(*                                                                         *)
(* Code: apps/worker/src/{source-scrape,finding-ingest,fact-extract}-      *)
(* job.ts, apps/server/src/api/source-scrape-api.ts, packages/db/          *)
(* mkt-knowledge-store.ts.                                                 *)
(*                                                                         *)
(* The subject of an extracted fact is the source, and facts of different  *)
(* attributes share nothing: one source and one attribute are enough.  A   *)
(* payload is its content hash; of its text the number of chunks matters.  *)
(***************************************************************************)
EXTENDS Integers, FiniteSets

CONSTANTS
  Workers,     \* workers that run tasks of this source
  Contents,    \* payloads the venue may serve, named by their hash
  Pieces,      \* chunks that chunkText makes of each payload
  None,        \* SQL NULL
  MaxCopies,   \* bound on the rows of one chunk
  MaxFacts,    \* bound on the rows of confirmed_facts
  MaxCrashes,  \* bound on crashes and calls that end a task with an error
  MaxErrors    \* bound on lookups answered with an error

ASSUME PiecesAssumption == Pieces \in [Contents -> Nat]
ASSUME BoundsAssumption == /\ MaxCopies \in Nat /\ MaxFacts \in Nat
                           /\ MaxCrashes \in Nat /\ MaxErrors \in Nat
ASSUME NoneAssumption == None \notin Contents /\ None \notin Nat

VARIABLES
  finding,   \* source_findings.status per content hash
  copies,    \* number of corpus_chunks rows per finding and chunk_index
  traced,    \* findings with a row in etl_quarantine
  facts,     \* facts inserted so far; a fact's number is its age
  fact,      \* rows of confirmed_facts for the attribute
  worker,    \* the task each worker runs and its next call
  crashes, errors

vars == <<finding, copies, traced, facts, fact, worker, crashes, errors>>

Indexes(c) == 1..Pieces[c]
FactIds == 1..MaxFacts

\* A fact knows the payload it was extracted from.
Fact == [content : Contents \cup {None},
         supersedes : {None} \cup FactIds, superseded_by : {None} \cup FactIds]
NoFact == [content |-> None, supersedes |-> None, superseded_by |-> None]

\* content is the payload, finding or chunk in hand; index the chunk posted next;
\* supersedes what the lookup answered.
Worker == [pc : {"idle", "register", "post", "mark", "reject", "trace", "lookup", "insert"},
           content : Contents \cup {None}, index : Nat, supersedes : {None} \cup FactIds]
Idle == [pc |-> "idle", content |-> None, index |-> 0, supersedes |-> None]

Init ==
  /\ finding = [c \in Contents |-> "absent"]
  /\ copies = [c \in Contents |-> [i \in Indexes(c) |-> 0]]
  /\ traced = {}
  /\ facts = 0 /\ fact = [n \in FactIds |-> NoFact]
  /\ worker = [w \in Workers |-> Idle]
  /\ crashes = 0 /\ errors = 0

At(w, pc) == worker[w].pc = pc
Becomes(w, r) == worker' = [worker EXCEPT ![w] = r]

-----------------------------------------------------------------------------
(* executeSourceScrapeTask.  The definitions named ...Wrong are plausible  *)
(* slips in the one that follows; no action uses them.                     *)

\* The venue serves some payload.
Scrape(w, c) ==
  /\ At(w, "idle")
  /\ Becomes(w, [Idle EXCEPT !.pc = "register", !.content = c])
  /\ UNCHANGED <<finding, copies, traced, facts, fact, crashes, errors>>

\* insertSourceFinding: ON CONFLICT (source, content hash) DO NOTHING.
Register(w) ==
  LET c == worker[w].content IN
  /\ At(w, "register")
  /\ finding' = [finding EXCEPT ![c] = IF @ = "absent" THEN "raw" ELSE @]
  /\ Becomes(w, Idle)
  /\ UNCHANGED <<copies, traced, facts, fact, crashes, errors>>

-----------------------------------------------------------------------------
(* executeFindingIngestTask.                                               *)

\* A task for a finding that is not yet ingested; one without text is rejected.
StartIngest(w, c) ==
  /\ At(w, "idle")
  /\ finding[c] \in {"raw", "quarantined"}
  /\ Becomes(w, [Idle EXCEPT !.pc = IF Pieces[c] = 0 THEN "reject" ELSE "post",
                             !.content = c, !.index = 1])
  /\ UNCHANGED <<finding, copies, traced, facts, fact, crashes, errors>>

\* The finding is marked one chunk too early.
PostChunkWrong(w) ==
  LET c == worker[w].content  i == worker[w].index IN
  /\ At(w, "post")
  /\ copies[c][i] < MaxCopies
  /\ copies' = [copies EXCEPT ![c][i] = @ + 1]
  /\ Becomes(w, [worker[w] EXCEPT !.index = i + 1,
                                  !.pc = IF i < Pieces[c] - 1 THEN "post" ELSE "mark"])
  /\ UNCHANGED <<finding, traced, facts, fact, crashes, errors>>

\* insertCorpusChunk has no conflict clause: every post is a new row.
PostChunk(w) ==
  LET c == worker[w].content  i == worker[w].index IN
  /\ At(w, "post")
  /\ copies[c][i] < MaxCopies
  /\ copies' = [copies EXCEPT ![c][i] = @ + 1]
  /\ Becomes(w, [worker[w] EXCEPT !.index = i + 1,
                                  !.pc = IF i < Pieces[c] THEN "post" ELSE "mark"])
  /\ UNCHANGED <<finding, traced, facts, fact, crashes, errors>>

\* markFindingIngested
MarkIngested(w) ==
  LET c == worker[w].content IN
  /\ At(w, "mark")
  /\ finding' = [finding EXCEPT ![c] = IF @ \in {"raw", "ingested"} THEN "ingested" ELSE @]
  /\ Becomes(w, Idle)
  /\ UNCHANGED <<copies, traced, facts, fact, crashes, errors>>

\* The status written is none of those of source_findings.
RejectWrong(w) ==
  LET c == worker[w].content IN
  /\ At(w, "reject")
  /\ finding' = [finding EXCEPT ![c] = IF @ = "raw" THEN "rejected" ELSE @]
  /\ Becomes(w, [worker[w] EXCEPT !.pc = "trace"])
  /\ UNCHANGED <<copies, traced, facts, fact, crashes, errors>>

\* quarantineFinding: markFindingQuarantined, whose answer is ignored, ...
Reject(w) ==
  LET c == worker[w].content IN
  /\ At(w, "reject")
  /\ finding' = [finding EXCEPT ![c] = IF @ = "raw" THEN "quarantined" ELSE @]
  /\ Becomes(w, [worker[w] EXCEPT !.pc = "trace"])
  /\ UNCHANGED <<copies, traced, facts, fact, crashes, errors>>

\* ... then quarantinePayload.
Trace(w) ==
  /\ At(w, "trace")
  /\ traced' = traced \cup {worker[w].content}
  /\ Becomes(w, Idle)
  /\ UNCHANGED <<finding, copies, facts, fact, crashes, errors>>

-----------------------------------------------------------------------------
(* executeFactExtractTask for a chunk that states the attribute.           *)

StartExtract(w, c) ==
  /\ At(w, "idle")
  /\ \E i \in Indexes(c) : copies[c][i] > 0
  /\ Becomes(w, [Idle EXCEPT !.pc = "lookup", !.content = c])
  /\ UNCHANGED <<finding, copies, traced, facts, fact, crashes, errors>>

Inserted(n) == n \in 1..facts
Current(n) == Inserted(n) /\ fact[n].superseded_by = None

\* listCurrentFacts, newest first.  When the lookup is answered with an error the
\* task goes on as if there were no fact.
Lookup(w) ==
  /\ At(w, "lookup")
  /\ \E s \in {None} \cup FactIds :
       /\ Becomes(w, [worker[w] EXCEPT !.pc = "insert", !.supersedes = s])
       /\ \/ /\ IF s = None THEN \A n \in FactIds : ~Current(n)
                ELSE Current(s) /\ \A n \in FactIds : Current(n) => n <= s
             /\ UNCHANGED errors
          \/ /\ s = None
             /\ errors < MaxErrors
             /\ errors' = errors + 1
  /\ UNCHANGED <<finding, copies, traced, facts, fact, crashes>>

\* The guarded UPDATE of insertConfirmedFact on the fact that n supersedes.
Superseded(row, n) == IF row.superseded_by = None THEN [row EXCEPT !.superseded_by = n]
                                                  ELSE row

\* insertConfirmedFact: one transaction.
InsertFact(w) ==
  LET n == facts + 1
      s == worker[w].supersedes
      row == [content |-> worker[w].content, supersedes |-> s, superseded_by |-> None] IN
  /\ At(w, "insert")
  /\ facts < MaxFacts
  /\ facts' = n
  /\ fact' = [m \in FactIds |-> IF m = n THEN row
                                ELSE IF m = s THEN Superseded(fact[m], n) ELSE fact[m]]
  /\ Becomes(w, Idle)
  /\ UNCHANGED <<finding, copies, traced, crashes, errors>>

-----------------------------------------------------------------------------
\* The pod crashes, or a call fails and the task ends with an error result: the rows
\* stay as they are.
Stop(w) ==
  /\ ~At(w, "idle")
  /\ crashes < MaxCrashes
  /\ crashes' = crashes + 1
  /\ Becomes(w, Idle)
  /\ UNCHANGED <<finding, copies, traced, facts, fact, errors>>

Ingest(w) == (\E c \in Contents : StartIngest(w, c)) \/ PostChunk(w) \/ MarkIngested(w)
                \/ Reject(w) \/ Trace(w)

Extract(w) == (\E c \in Contents : StartExtract(w, c)) \/ Lookup(w) \/ InsertFact(w)

Next == \E w \in Workers :
  \/ \E c \in Contents : Scrape(w, c)
  \/ Register(w)
  \/ Ingest(w) \/ Extract(w)
  \/ Stop(w)

Spec == Init /\ [][Next]_vars

-----------------------------------------------------------------------------
(* Properties.                                                             *)

\* Every variable keeps to its type.
TypeOK ==
  /\ finding \in [Contents -> {"absent", "raw", "ingested", "quarantined"}]
  /\ DOMAIN copies = Contents
  /\ \A c \in Contents : copies[c] \in [Indexes(c) -> 0..MaxCopies]
  /\ traced \subseteq Contents
  /\ facts \in 0..MaxFacts /\ fact \in [FactIds -> Fact]
  /\ worker \in [Workers -> Worker]
  /\ crashes \in 0..MaxCrashes /\ errors \in 0..MaxErrors

\* A finding marked ingested has a row for each of its chunks: crashes and concurrent
\* tasks never leave an ingested finding with a hole, although the rows and the mark
\* are written by separate calls.
IngestedComplete ==
  \A c \in Contents : finding[c] = "ingested" =>
    Pieces[c] > 0 /\ \A i \in Indexes(c) : copies[c][i] > 0

\* "Preserves the audit chain by construction": both links of a supersession agree,
\* a fact only ever supersedes an older one, and the newest fact is current, whatever
\* stale lookups the inserting tasks acted on.
ChainSound ==
  /\ \A n \in 1..facts :
       /\ fact[n].supersedes # None => fact[n].supersedes < n
       /\ fact[n].superseded_by # None =>
            /\ n < fact[n].superseded_by /\ fact[n].superseded_by <= facts
            /\ fact[fact[n].superseded_by].supersedes = n
  /\ facts > 0 => Current(facts)
=============================================================================
