--------------------------- MODULE KnowledgeProofs ---------------------------
(***************************************************************************)
(* What makes, reviews and annotates knowledge, for any contents,          *)
(* documents, drafts, notes, people, workers and any values of the numeric *)
(* constants: the inductive invariant of each component, what it implies,  *)
(* and that it holds of the component wherever the others run; and what    *)
(* the two diffs compute, for any two texts.                               *)
(***************************************************************************)
EXTENDS MCKnowledge, FiniteSetTheorems, SequenceTheorems, WellFoundedInduction, TLAPS

-----------------------------------------------------------------------------
(* Ingestion of knowledge.                                                 *)

\* Where a worker is in its task: the chunks before the one it posts next have rows, and
\* all have before it marks the finding.
Posted(c, n) == \A i \in Indexes(c) : i < n => copies[c][i] > 0

TaskAt(w) ==
  /\ ~At(w, "idle") => worker[w].content \in Contents
  /\ At(w, "post") => /\ worker[w].index \in Indexes(worker[w].content)
                      /\ Posted(worker[w].content, worker[w].index)
  /\ At(w, "mark") => Pieces[worker[w].content] > 0 /\ Posted(worker[w].content, Pieces[worker[w].content] + 1)
  /\ At(w, "insert") => worker[w].supersedes = None \/ worker[w].supersedes \in 1..facts

TasksInv == \A w \in Workers : TaskAt(w)

\* What the tasks of the workers and the two tables keep to.
KnowledgeInv == TypeOK /\ TasksInv /\ IngestedComplete /\ ChainSound

-----------------------------------------------------------------------------
\* At the start there is neither finding nor fact.
LEMMA KnowledgeStarts == Init => KnowledgeInv
<1> SUFFICES ASSUME Init PROVE KnowledgeInv  OBVIOUS
<1> USE BoundsAssumption, PiecesAssumption DEF Init, Idle, NoFact
<1>1. TypeOK  BY DEF TypeOK, Fact, Worker, FactIds, Indexes
<1>2. TasksInv  BY DEF TasksInv, TaskAt, At
<1>3. IngestedComplete  BY DEF IngestedComplete
<1>4. ChainSound  BY DEF ChainSound
<1> QED  BY <1>1, <1>2, <1>3, <1>4 DEF KnowledgeInv

\* One call of the task that worker w runs.
WorkerStep(w) ==
  \/ \E c \in Contents : Scrape(w, c)
  \/ Register(w)
  \/ Ingest(w) \/ Extract(w)
  \/ Stop(w)

\* No call of a task takes a variable out of its type.
LEMMA KnowledgeTypeStep ==
  ASSUME KnowledgeInv, NEW w \in Workers, WorkerStep(w)
  PROVE  TypeOK'
<1>0. /\ TypeOK /\ TaskAt(w)
      /\ worker[w] \in Worker /\ worker \in [Workers -> Worker]
      /\ \A c \in Contents : Pieces[c] \in Nat
  BY PiecesAssumption DEF KnowledgeInv, TypeOK, TasksInv
<1>w. ASSUME NEW r \in Worker, Becomes(w, r) PROVE worker' \in [Workers -> Worker]
  BY <1>0, <1>w DEF Becomes
<1>1. ASSUME NEW c \in Contents, Scrape(w, c) PROVE TypeOK'
  <2>1. [Idle EXCEPT !.pc = "register", !.content = c] \in Worker  BY DEF Idle, Worker
  <2> QED  BY <1>0, <1>w, <1>1, <2>1 DEF Scrape, TypeOK
<1>i. Idle \in Worker  BY DEF Idle, Worker
<1>2. CASE Register(w)
  <2>1. finding' \in [Contents -> {"absent", "raw", "ingested", "quarantined"}]
    BY <1>0, <1>2 DEF Register, TypeOK
  <2> QED  BY <1>0, <1>w, <1>i, <1>2, <2>1 DEF Register, TypeOK
<1>3. ASSUME NEW c \in Contents, StartIngest(w, c) PROVE TypeOK'
  <2>1. [Idle EXCEPT !.pc = IF Pieces[c] = 0 THEN "reject" ELSE "post",
                     !.content = c, !.index = 1] \in Worker
    BY DEF Idle, Worker
  <2> QED  BY <1>0, <1>w, <1>3, <2>1 DEF StartIngest, TypeOK
<1>4. CASE PostChunk(w)
  <2> DEFINE c == worker[w].content
             i == worker[w].index
  <2>1. c \in Contents /\ i \in Indexes(c) /\ i \in Nat
    BY <1>0, <1>4 DEF PostChunk, TaskAt, At, Worker
  <2>2. [worker[w] EXCEPT !.index = i + 1, !.pc = IF i < Pieces[c] THEN "post" ELSE "mark"] \in Worker
    <3>1. i + 1 \in Nat  BY <2>1
    <3>2. (IF i < Pieces[c] THEN "post" ELSE "mark") \in {"post", "mark"}  OBVIOUS
    <3> HIDE DEF c, i
    <3> QED  BY <1>0, <3>1, <3>2 DEF Worker
  <2>3. copies[c][i] \in 0..MaxCopies /\ copies[c][i] < MaxCopies /\ copies[c] \in [Indexes(c) -> 0..MaxCopies]
    BY <1>0, <1>4, <2>1 DEF PostChunk, TypeOK
  <2>4. copies[c][i] + 1 \in 0..MaxCopies  BY <2>3, BoundsAssumption
  <2>5. copies' = [copies EXCEPT ![c][i] = copies[c][i] + 1]  BY <1>4 DEF PostChunk
  <2>6. DOMAIN copies' = Contents /\ \A d \in Contents : copies'[d] \in [Indexes(d) -> 0..MaxCopies]
    BY <1>0, <2>1, <2>3, <2>4, <2>5 DEF TypeOK
  <2> QED  BY <1>0, <1>w, <1>4, <2>2, <2>6 DEF PostChunk, TypeOK
<1>5. CASE MarkIngested(w)
  <2>1. finding' \in [Contents -> {"absent", "raw", "ingested", "quarantined"}]
    BY <1>0, <1>5 DEF MarkIngested, TypeOK
  <2> QED  BY <1>0, <1>w, <1>i, <1>5, <2>1 DEF MarkIngested, TypeOK
<1>6. CASE Reject(w)
  <2>1. finding' \in [Contents -> {"absent", "raw", "ingested", "quarantined"}]
    BY <1>0, <1>6 DEF Reject, TypeOK
  <2>2. [worker[w] EXCEPT !.pc = "trace"] \in Worker  BY <1>0 DEF Worker
  <2> QED  BY <1>0, <1>w, <1>6, <2>1, <2>2 DEF Reject, TypeOK
<1>7. CASE Trace(w)
  BY <1>0, <1>w, <1>i, <1>7 DEF Trace, TypeOK, TaskAt, At
<1>8. ASSUME NEW c \in Contents, StartExtract(w, c) PROVE TypeOK'
  <2>1. [Idle EXCEPT !.pc = "lookup", !.content = c] \in Worker  BY DEF Idle, Worker
  <2> QED  BY <1>0, <1>w, <1>8, <2>1 DEF StartExtract, TypeOK
<1>9. CASE Lookup(w)
  <2>1. PICK s \in {None} \cup FactIds : Becomes(w, [worker[w] EXCEPT !.pc = "insert", !.supersedes = s])
    BY <1>9 DEF Lookup
  <2>2. [worker[w] EXCEPT !.pc = "insert", !.supersedes = s] \in Worker  BY <1>0 DEF Worker
  <2>3. errors' \in 0..MaxErrors  BY <1>0, <1>9, BoundsAssumption DEF Lookup, TypeOK
  <2> QED  BY <1>0, <1>w, <1>9, <2>1, <2>2, <2>3 DEF Lookup, TypeOK
<1>10. CASE InsertFact(w)
  <2>1. facts + 1 \in FactIds /\ facts' = facts + 1 /\ facts' \in 0..MaxFacts
    BY <1>0, <1>10, BoundsAssumption DEF InsertFact, TypeOK, FactIds
  <2>2. [content |-> worker[w].content, supersedes |-> worker[w].supersedes, superseded_by |-> None] \in Fact
    BY <1>0 DEF Fact, Worker
  <2>3. \A m \in FactIds : Superseded(fact[m], facts + 1) \in Fact
    BY <1>0, <2>1 DEF Superseded, Fact, TypeOK
  <2>4. fact' \in [FactIds -> Fact]  BY <1>0, <1>10, <2>2, <2>3 DEF InsertFact, TypeOK
  <2> QED  BY <1>0, <1>w, <1>i, <1>10, <2>1, <2>4 DEF InsertFact, TypeOK
<1>11. CASE Stop(w)
  BY <1>0, <1>w, <1>i, <1>11, BoundsAssumption DEF Stop, TypeOK
<1> QED
  BY <1>1, <1>2, <1>3, <1>4, <1>5, <1>6, <1>7, <1>8, <1>9, <1>10, <1>11 DEF WorkerStep, Ingest, Extract

\* Rows of chunks and facts are only added, and only the worker that moves changes.
LEMMA RowsGrow ==
  ASSUME KnowledgeInv, NEW w \in Workers, WorkerStep(w)
  PROVE  /\ \A c \in Contents, i \in Nat : i \in Indexes(c) /\ copies[c][i] > 0 => copies'[c][i] > 0
         /\ facts' = facts \/ (facts' = facts + 1 /\ InsertFact(w))
         /\ \A u \in Workers : u # w => worker'[u] = worker[u]
<1>0. /\ \A c \in Contents : copies[c] \in [Indexes(c) -> 0..MaxCopies]
      /\ DOMAIN copies = Contents /\ worker \in [Workers -> Worker]
  BY DEF KnowledgeInv, TypeOK
<1>1. \A u \in Workers : u # w => worker'[u] = worker[u]
  BY <1>0 DEF WorkerStep, Ingest, Extract, Scrape, Register, StartIngest, PostChunk, MarkIngested, Reject,
     Trace, StartExtract, Lookup, InsertFact, Stop, Becomes
<1>2. CASE PostChunk(w)
  <2>1. copies' = [copies EXCEPT ![worker[w].content][worker[w].index] = @ + 1] /\ facts' = facts
    BY <1>2 DEF PostChunk
  <2> QED  BY <1>0, <1>1, <2>1, BoundsAssumption
<1>3. CASE InsertFact(w)  BY <1>1, <1>3 DEF InsertFact
<1>4. CASE UNCHANGED <<copies, facts>>  BY <1>1, <1>4
<1> QED
  BY <1>2, <1>3, <1>4 DEF WorkerStep, Ingest, Extract, Scrape, Register, StartIngest, MarkIngested, Reject,
     Trace, StartExtract, Lookup, Stop

\* What a task knows stays so while others run, and the task's own calls keep it.
LEMMA TasksStep ==
  ASSUME KnowledgeInv, NEW w \in Workers, WorkerStep(w)
  PROVE  TasksInv'
<1>0. /\ \A u \in Workers : TaskAt(u) /\ worker[u] \in Worker
      /\ worker \in [Workers -> Worker]
      /\ facts \in 0..MaxFacts /\ DOMAIN copies = Contents
      /\ \A c \in Contents : Pieces[c] \in Nat /\ copies[c] \in [Indexes(c) -> 0..MaxCopies]
      /\ MaxFacts \in Nat
  BY PiecesAssumption, BoundsAssumption DEF KnowledgeInv, TypeOK, TasksInv
<1>1. ASSUME NEW u \in Workers, worker'[u] = worker[u] PROVE TaskAt(u)'
  <2>1. TaskAt(u) /\ worker[u] \in Worker  BY <1>0
  <2>2. \A c \in Contents, n \in Nat : Posted(c, n) => Posted(c, n)'
    BY RowsGrow DEF Posted, Indexes
  <2>3. worker[u].supersedes \in 1..facts => worker[u].supersedes \in 1..facts'
    BY <1>0, RowsGrow
  <2>4. At(u, "post") => worker[u].index \in Nat  BY <2>1 DEF TaskAt, Indexes
  <2>5. worker[u].content \in Contents => Pieces[worker[u].content] + 1 \in Nat  BY <1>0
  <2> QED  BY <1>1, <2>1, <2>2, <2>3, <2>4, <2>5 DEF TaskAt, At, Indexes
<1>i. Becomes(w, Idle) => TaskAt(w)'
  BY <1>0 DEF Becomes, Idle, TaskAt, At
<1>2. ASSUME NEW c \in Contents, Scrape(w, c) PROVE TaskAt(w)'
  BY <1>0, <1>2 DEF Scrape, Becomes, Idle, TaskAt, At
<1>3. ASSUME Register(w) \/ MarkIngested(w) \/ Trace(w) \/ InsertFact(w) \/ Stop(w) PROVE TaskAt(w)'
  <2>1. Becomes(w, Idle)  BY <1>3 DEF Register, MarkIngested, Trace, InsertFact, Stop
  <2> QED  BY <1>i, <2>1
<1>4. ASSUME NEW c \in Contents, StartIngest(w, c) PROVE TaskAt(w)'
  <2>1. worker'[w] = [Idle EXCEPT !.pc = IF Pieces[c] = 0 THEN "reject" ELSE "post",
                                  !.content = c, !.index = 1]
    BY <1>0, <1>4 DEF StartIngest, Becomes
  <2>2. Pieces[c] # 0 => 1 \in Indexes(c)  BY <1>0 DEF Indexes
  <2>3. Posted(c, 1)'  BY DEF Posted, Indexes
  <2> QED  BY <2>1, <2>2, <2>3 DEF Idle, TaskAt, At, Indexes, Posted
<1>5. ASSUME PostChunk(w) PROVE TaskAt(w)'
  <2>0. PICK c \in Contents, i \in Nat : c = worker[w].content /\ i = worker[w].index
    BY <1>0, <1>5 DEF PostChunk, TaskAt, At, Worker
  <2>1. i \in Indexes(c) /\ Posted(c, i)
    BY <1>0, <1>5, <2>0 DEF PostChunk, TaskAt, At
  <2>2. /\ worker'[w].content = c /\ worker'[w].index = i + 1
        /\ worker'[w].pc = IF i < Pieces[c] THEN "post" ELSE "mark"
    BY <1>0, <1>5, <2>0 DEF PostChunk, Becomes, Worker
  <2>3. copies'[c][i] > 0
    BY <1>0, <1>5, <2>0, <2>1, BoundsAssumption DEF PostChunk
  <2>4. Posted(c, i)'  BY <2>1, RowsGrow DEF Posted, Indexes
  <2>5. Posted(c, i + 1)'  BY <2>1, <2>3, <2>4 DEF Posted, Indexes
  <2>6. i < Pieces[c] => i + 1 \in Indexes(c)  BY <1>0, <2>1 DEF Indexes
  <2>7. ~(i < Pieces[c]) => i + 1 = Pieces[c] + 1 /\ Pieces[c] > 0  BY <1>0, <2>1 DEF Indexes
  <2>8. CASE i < Pieces[c]
    BY <2>2, <2>5, <2>6, <2>8 DEF TaskAt, At, Indexes, Posted
  <2>9. CASE ~(i < Pieces[c])
    BY <2>2, <2>5, <2>7, <2>9 DEF TaskAt, At, Indexes, Posted
  <2> QED  BY <2>8, <2>9
<1>6. ASSUME Reject(w) PROVE TaskAt(w)'
  <2>1. worker'[w].pc = "trace" /\ worker'[w].content = worker[w].content /\ ~At(w, "idle")
    BY <1>0, <1>6 DEF Reject, Becomes, At, Worker
  <2> QED  BY <1>0, <2>1 DEF TaskAt, At
<1>7. ASSUME NEW c \in Contents, StartExtract(w, c) PROVE TaskAt(w)'
  BY <1>0, <1>7 DEF StartExtract, Becomes, Idle, TaskAt, At
<1>8. ASSUME Lookup(w) PROVE TaskAt(w)'
  <2>1. PICK s \in {None} \cup FactIds :
          /\ worker' = [worker EXCEPT ![w] = [worker[w] EXCEPT !.pc = "insert", !.supersedes = s]]
          /\ s = None \/ Current(s)
    BY <1>8 DEF Lookup, Becomes
  <2>2. worker'[w].content = worker[w].content /\ worker'[w].pc = "insert" /\ worker'[w].supersedes = s
    BY <1>0, <2>1 DEF Worker
  <2>3. UNCHANGED facts /\ ~At(w, "idle")  BY <1>8 DEF Lookup, At
  <2>4. s = None \/ s \in 1..facts'  BY <2>1, <2>3 DEF Current, Inserted
  <2> QED  BY <1>0, <2>2, <2>3, <2>4 DEF TaskAt, At
<1>9. TaskAt(w)'
  BY <1>2, <1>3, <1>4, <1>5, <1>6, <1>7, <1>8 DEF WorkerStep, Ingest, Extract
<1> QED  BY <1>1, <1>9, RowsGrow DEF TasksInv

\* A finding is marked by a worker that has posted every chunk.
LEMMA CompleteStep ==
  ASSUME KnowledgeInv, NEW w \in Workers, WorkerStep(w)
  PROVE  IngestedComplete'
<1> SUFFICES ASSUME NEW c \in Contents, finding'[c] = "ingested"
             PROVE  Pieces[c] > 0 /\ \A i \in Indexes(c) : copies'[c][i] > 0
  BY DEF IngestedComplete, Indexes
<1>1. CASE finding[c] = "ingested"
  BY <1>1, RowsGrow DEF KnowledgeInv, IngestedComplete, Indexes
<1>2. CASE MarkIngested(w) /\ c = worker[w].content
  <2>1. Pieces[c] > 0 /\ Posted(c, Pieces[c] + 1)
    BY <1>2 DEF KnowledgeInv, TasksInv, TaskAt, MarkIngested
  <2>2. \A i \in Indexes(c) : copies[c][i] > 0
    BY <2>1, PiecesAssumption DEF Posted, Indexes
  <2> QED  BY <2>1, <2>2, RowsGrow DEF Indexes
<1>3. finding[c] = "ingested" \/ (MarkIngested(w) /\ c = worker[w].content)
  <2> USE DEF KnowledgeInv, TypeOK
  <2>1. CASE Register(w)  BY <2>1 DEF Register
  <2>2. CASE MarkIngested(w)  BY <2>2 DEF MarkIngested
  <2>3. CASE Reject(w)  BY <2>3 DEF Reject
  <2>4. CASE UNCHANGED finding  BY <2>4
  <2> QED
    BY <2>1, <2>2, <2>3, <2>4 DEF WorkerStep, Ingest, Extract, Scrape, StartIngest, PostChunk, Trace,
       StartExtract, Lookup, InsertFact, Stop
<1> QED  BY <1>1, <1>2, <1>3

\* A new fact supersedes an older one, which it is linked from unless that one was
\* superseded before, and nothing links to it yet.
LEMMA ChainStep ==
  ASSUME KnowledgeInv, NEW w \in Workers, WorkerStep(w)
  PROVE  ChainSound'
<1>0. /\ facts \in Nat /\ facts \in 0..MaxFacts /\ MaxFacts \in Nat
      /\ fact \in [FactIds -> Fact]
      /\ ChainSound
  BY BoundsAssumption DEF KnowledgeInv, TypeOK
<1>1. CASE InsertFact(w)
  <2>0. PICK s, k : s = worker[w].supersedes /\ k = facts + 1  OBVIOUS
  <2>1. facts' = k /\ k \in FactIds /\ k = facts + 1
    BY <1>0, <1>1, <2>0 DEF InsertFact, FactIds
  <2>2. s = None \/ s \in 1..facts  BY <1>1, <2>0 DEF KnowledgeInv, TasksInv, TaskAt, InsertFact
  <2>3. fact'[k].supersedes = s /\ fact'[k].superseded_by = None
    BY <1>1, <2>0, <2>1 DEF InsertFact
  <2>4. ASSUME NEW n \in 1..facts
        PROVE  /\ fact'[n].supersedes = fact[n].supersedes
               /\ \/ fact'[n].superseded_by = fact[n].superseded_by
                  \/ n = s /\ fact'[n].superseded_by = k
    <3>1. n \in FactIds /\ n # k  BY <1>0, <2>1 DEF FactIds
    <3> QED  BY <1>0, <1>1, <2>0, <3>1 DEF InsertFact, Superseded, Fact
  <2>5. ASSUME NEW n \in 1..facts
        PROVE  /\ fact'[n].supersedes # None => fact'[n].supersedes < n
               /\ fact'[n].superseded_by # None =>
                    /\ n < fact'[n].superseded_by /\ fact'[n].superseded_by <= k
                    /\ fact'[fact'[n].superseded_by].supersedes = n
    <3>1. CASE n = s /\ fact'[n].superseded_by = k
      BY <1>0, <2>1, <2>3, <2>4, <3>1 DEF ChainSound
    <3>2. CASE fact'[n].superseded_by = fact[n].superseded_by
      <4>1. ASSUME fact[n].superseded_by # None
            PROVE  /\ n < fact[n].superseded_by /\ fact[n].superseded_by \in 1..facts
                   /\ fact[fact[n].superseded_by].supersedes = n
        <5>1. n \in FactIds /\ fact[n].superseded_by \in FactIds
          BY <1>0, <4>1 DEF FactIds, Fact
        <5> QED  BY <1>0, <4>1, <5>1 DEF ChainSound, FactIds
      <4> QED  BY <1>0, <2>1, <2>4, <3>2, <4>1 DEF ChainSound
    <3> QED  BY <2>4, <3>1, <3>2
  <2>6. s # None => s < k  BY <1>0, <2>1, <2>2
  <2>7. Current(k)'  BY <1>0, <2>1, <2>3 DEF Current, Inserted
  <2>8. \A n \in 1..k : n \in 1..facts \/ n = k  BY <1>0, <2>1
  <2> QED  BY <2>1, <2>3, <2>5, <2>6, <2>7, <2>8 DEF ChainSound
<1>2. CASE UNCHANGED <<facts, fact>>  BY <1>0, <1>2 DEF ChainSound, Current, Inserted
<1> QED
  BY <1>1, <1>2 DEF WorkerStep, Ingest, Extract, Scrape, Register, StartIngest, PostChunk, MarkIngested,
     Reject, Trace, StartExtract, Lookup, Stop

-----------------------------------------------------------------------------
\* Tasks stay where they are, findings whole and the chain in order, whatever calls stop.
THEOREM KnowledgeInductive == Spec => []KnowledgeInv
<1>1. ASSUME KnowledgeInv, UNCHANGED vars PROVE KnowledgeInv'
  <2>1. TypeOK'  BY <1>1 DEF KnowledgeInv, vars, TypeOK
  <2>2. TasksInv'  BY <1>1 DEF KnowledgeInv, vars, TasksInv, TaskAt, At, Posted, Indexes
  <2>3. IngestedComplete'  BY <1>1 DEF KnowledgeInv, vars, IngestedComplete, Indexes
  <2>4. ChainSound'  BY <1>1 DEF KnowledgeInv, vars, ChainSound, Current, Inserted
  <2> QED  BY <2>1, <2>2, <2>3, <2>4 DEF KnowledgeInv
<1>2. KnowledgeInv /\ [Next]_vars => KnowledgeInv'
  BY <1>1, KnowledgeTypeStep, TasksStep, CompleteStep, ChainStep DEF KnowledgeInv, Next, WorkerStep
<1> QED  BY <1>2, KnowledgeStarts, PTL DEF Spec

\* For any contents, pieces and workers: a finding marked ingested has all its chunks, and
\* the facts that supersede each other form one chain.
THEOREM IngestionCorrect == Spec => [](IngestedComplete /\ ChainSound)
<1>1. KnowledgeInv => IngestedComplete /\ ChainSound  BY DEF KnowledgeInv
<1> QED  BY <1>1, KnowledgeInductive, PTL

-----------------------------------------------------------------------------
(* Golden documents.                                                       *)

PageOps == {"none", "create", "activate", "retire"}
PageSteps == {"idle", "journal", "look", "begin", "retire others", "set", "commit"}

\* Every variable keeps to its type; what a transaction has written are states of documents.
GoldenTypeInv ==
  /\ GoldenTypeOK
  /\ page \in [Pages -> [op : PageOps, d : Docs \cup {NoDoc}, at : PageSteps, began : 0..MaxAsked]]
  /\ raced \in BOOLEAN
  /\ \A p \in Pages : /\ page[p].at = "idle" <=> page[p].op = "none"
                      /\ page[p].op # "none" => page[p].d \in Docs
  /\ DOMAIN draft = Pages
  /\ \A p \in Pages : /\ DOMAIN draft[p] \subseteq Docs
                      /\ \A x \in DOMAIN draft[p] : draft[p][x] \in {"active", "retired"}
  /\ target \in [Pages -> SUBSET Docs]

\* No row is in two transactions' hands.
DraftsDisjoint == \A p, q \in Pages : p # q => DOMAIN draft[p] \cap DOMAIN draft[q] = {}

\* What an open transaction has written: it activates its own document only, and that
\* one is not retired; a document that is to be journalled is in the state told.
Transaction(p) ==
  /\ page[p].at \notin {"set", "commit"} => DOMAIN draft[p] = {}
  /\ \A x \in DOMAIN draft[p] : draft[p][x] = "active" =>
       page[p].op = "activate" /\ x = page[p].d /\ doc[x] \in Activatable
  /\ page[p].op = "activate" /\ page[p].d \in DOMAIN draft[p] => draft[p][page[p].d] = "active"
  /\ page[p].op = "activate" => page[p].d \notin target[p]
  /\ page[p].at # "retire others" => target[p] = {}
  /\ page[p].op = "activate" /\ page[p].at = "journal" => doc[page[p].d] \in {"active", "retired"}
  /\ page[p].op = "retire" /\ page[p].at = "journal" => doc[page[p].d] = "retired"
  /\ page[p].at = "retire others" \/ page[p].at = "set" => page[p].op = "activate"

TransactionInv == \A p \in Pages : Transaction(p)

\* Retired is for ever, and the journal tells of what has happened.
PastInv ==
  /\ \A d \in gone : doc[d] = "retired"
  /\ \A d \in Docs : /\ <<"retire", d>> \in journal => doc[d] = "retired"
                     /\ <<"activate", d>> \in journal => doc[d] \in {"active", "retired"}

\* While activations of a kind do not overlap: there is one of a kind at a time, what it
\* will not retire is not active, and at most one document of a kind is.
SingleInv ==
  ~raced =>
    /\ \A p, q \in Pages : p # q /\ page[p].op = "activate" /\ page[q].op = "activate"
                           => page[q].d \notin Alike(page[p].d)
    /\ \A p \in Pages : page[p].op = "activate" =>
         /\ page[p].at = "retire others" =>
              \A x \in Alike(page[p].d) \ {page[p].d} : doc[x] = "active" => x \in target[p]
         /\ page[p].at \in {"set", "commit"} =>
              \A x \in Alike(page[p].d) \ {page[p].d} :
                doc[x] = "active" => x \in DOMAIN draft[p]
    /\ \A x, y \in Docs : doc[x] = "active" /\ doc[y] = "active" /\ KindOf[x] = KindOf[y] => x = y

GoldenInv == GoldenTypeInv /\ DraftsDisjoint /\ TransactionInv /\ PastInv /\ SingleInv

\* One operation of one page.
PageStep(p) ==
  \/ CreateGoldenDocument(p) \/ AskState(p) \/ UpsertSection(p) \/ LookUp(p)
  \/ SeeOthers(p) \/ RetireOthers(p) \/ Activate(p) \/ RetireGoldenDocument(p)
  \/ Commit(p) \/ WriteJournal(p) \/ GoldenFails(p) \/ RefuseWorker(p)

-----------------------------------------------------------------------------
\* A transaction that has written nothing.
LEMMA NothingWritten == DOMAIN <<>> = {}
  OBVIOUS

\* At the start no page works and no document exists.
LEMMA GoldenStarts == GoldenInit => GoldenInv
<1> SUFFICES ASSUME GoldenInit PROVE GoldenInv  OBVIOUS
<1> USE GoldenAssumption DEF GoldenInit, NoOp
<1>1. GoldenTypeInv
  <2>1. GoldenTypeOK  BY DEF GoldenTypeOK, States
  <2>2. page \in [Pages -> [op : PageOps, d : Docs \cup {NoDoc}, at : PageSteps, began : 0..MaxAsked]]
    BY DEF PageOps, PageSteps
  <2> QED  BY <2>1, <2>2, NothingWritten DEF GoldenTypeInv
<1>2. DraftsDisjoint  BY DEF DraftsDisjoint
<1>3. TransactionInv  BY NothingWritten DEF TransactionInv, Transaction
<1>4. PastInv  BY DEF PastInv
<1>5. SingleInv  BY DEF SingleInv
<1> QED  BY <1>1, <1>2, <1>3, <1>4, <1>5 DEF GoldenInv

\* The pages that do not move keep what they have.
LEMMA OthersStay ==
  ASSUME GoldenInv, NEW p \in Pages, PageStep(p), NEW q \in Pages, q # p
  PROVE  page'[q] = page[q] /\ target'[q] = target[q] /\ draft'[q] = draft[q]
<1> USE DEF GoldenInv, GoldenTypeInv
<1>1. CASE CreateGoldenDocument(p)  BY <1>1 DEF CreateGoldenDocument
<1>2. CASE AskState(p)  BY <1>2 DEF AskState
<1>3. CASE UpsertSection(p) \/ RefuseWorker(p)  BY <1>3 DEF UpsertSection, RefuseWorker
<1>4. CASE LookUp(p)  BY <1>4 DEF LookUp
<1>5. CASE SeeOthers(p)  BY <1>5 DEF SeeOthers
<1>6. CASE RetireOthers(p)  BY <1>6 DEF RetireOthers
<1>7. CASE Activate(p)  BY <1>7 DEF Activate
<1>8. CASE RetireGoldenDocument(p)  BY <1>8 DEF RetireGoldenDocument
<1>9. CASE Commit(p)  BY <1>9 DEF Commit
<1>10. CASE WriteJournal(p)  BY <1>10 DEF WriteJournal
<1>11. CASE GoldenFails(p)  BY <1>11 DEF GoldenFails
<1> QED  BY <1>1, <1>2, <1>3, <1>4, <1>5, <1>6, <1>7, <1>8, <1>9, <1>10, <1>11 DEF PageStep

\* A document changes when it is created, and by the transaction that has written it.
LEMMA DocStep ==
  ASSUME GoldenInv, NEW p \in Pages, PageStep(p), NEW x \in Docs
  PROVE  \/ doc'[x] = doc[x]
         \/ doc[x] = "none" /\ doc'[x] = "authored" /\ CreateGoldenDocument(p)
         \/ x \in DOMAIN draft[p] /\ doc'[x] = draft[p][x] /\ Commit(p)
<1> USE DEF GoldenInv, GoldenTypeInv, GoldenTypeOK
<1>1. CASE CreateGoldenDocument(p)  BY ZenonT(40), <1>1 DEF CreateGoldenDocument
<1>2. CASE Commit(p)  BY <1>2 DEF Commit
<1>3. CASE UNCHANGED doc  BY <1>3
<1> QED
  BY <1>1, <1>2, <1>3 DEF PageStep, AskState, UpsertSection, LookUp, SeeOthers, RetireOthers, Activate,
     RetireGoldenDocument, WriteJournal, GoldenFails, RefuseWorker

\* Retired stays, and what is active is retired at most.
LEMMA RetiredStays ==
  ASSUME GoldenInv, NEW p \in Pages, PageStep(p), NEW x \in Docs
  PROVE  /\ doc[x] = "retired" => doc'[x] = "retired"
         /\ doc[x] = "active" => doc'[x] \in {"active", "retired"}
<1>1. x \in DOMAIN draft[p] => /\ draft[p][x] \in {"active", "retired"}
                               /\ draft[p][x] = "active" => doc[x] \in Activatable
  BY DEF GoldenInv, GoldenTypeInv, TransactionInv, Transaction
<1> QED  BY <1>1, DocStep DEF Activatable

-----------------------------------------------------------------------------
\* No operation of a page takes a variable out of its type.
LEMMA GoldenTypeStep ==
  ASSUME GoldenInv, NEW p \in Pages, PageStep(p)
  PROVE  GoldenTypeInv'
<1> USE GoldenAssumption DEF GoldenInv, GoldenTypeInv, GoldenTypeOK, PageOps, PageSteps
<1>1. asked' \in 0..MaxAsked
  <2>1. asked' = asked \/ Press(p)
    BY DEF PageStep, CreateGoldenDocument, AskState, UpsertSection, LookUp, SeeOthers, RetireOthers,
       Activate, RetireGoldenDocument, Commit, WriteJournal, GoldenFails, RefuseWorker
  <2>2. asked \in 0..MaxAsked /\ MaxAsked \in Nat  OBVIOUS
  <2> HIDE DEF GoldenInv
  <2> QED  BY <2>1, <2>2 DEF Press
<1>2. GoldenTypeOK'
  <2>1. CASE CreateGoldenDocument(p)
    <3>1. PICK d \in Docs : /\ doc' = [doc EXCEPT ![d] = "authored"]
                            /\ stamp' = [stamp EXCEPT ![d] = asked'] /\ asked' = asked + 1
      BY <2>1 DEF CreateGoldenDocument, Press
    <3>2. doc \in [Docs -> States \cup {"none"}] /\ stamp \in [Docs -> 0..MaxAsked]  OBVIOUS
    <3>3. doc' \in [Docs -> States \cup {"none"}] /\ stamp' \in [Docs -> 0..MaxAsked]
      <4> HIDE DEF GoldenInv
      <4>1. "authored" \in States \cup {"none"}  BY DEF States
      <4> QED  BY <1>1, <3>1, <3>2, <4>1
    <3> QED  BY <1>1, <2>1, <3>3 DEF CreateGoldenDocument
  <2>2. CASE Commit(p)
    <3>1. doc' \in [Docs -> States \cup {"none"}]  BY <2>2 DEF Commit, States
    <3>2. stamp' \in [Docs -> 0..MaxAsked]  BY <2>2 DEF Commit
    <3>3. gone' \subseteq Docs  BY <2>2 DEF Commit
    <3> QED  BY <2>2, <3>1, <3>2, <3>3 DEF Commit
  <2>3. CASE UpsertSection(p)  BY <1>1, <2>3 DEF UpsertSection
  <2>4. CASE UNCHANGED <<doc, stamp, gone, sections>>  BY <1>1, <2>4
  <2> QED
    BY <2>1, <2>2, <2>3, <2>4 DEF PageStep, AskState, LookUp, SeeOthers, RetireOthers, Activate,
       RetireGoldenDocument, WriteJournal, GoldenFails, RefuseWorker
<1> DEFINE PageRow == [op : PageOps, d : Docs \cup {NoDoc}, at : PageSteps, began : 0..MaxAsked]
           Fine(r) == /\ r \in PageRow
                      /\ r.at = "idle" <=> r.op = "none"
                      /\ r.op # "none" => r.d \in Docs
<1>3. \E r : Fine(r) /\ page' = [page EXCEPT ![p] = r]
  <2>0. Fine(page[p]) /\ Fine(NoOp) /\ page = [page EXCEPT ![p] = page[p]]
    <3>1. Fine(page[p])  OBVIOUS
    <3>2. Fine(NoOp)
      <4> HIDE DEF GoldenInv
      <4> QED  BY DEF NoOp
    <3>3. page = [page EXCEPT ![p] = page[p]]  OBVIOUS
    <3> QED  BY <3>1, <3>2, <3>3
  <2>1. CASE CreateGoldenDocument(p)
    <3>1. PICK d \in Docs : page' = [page EXCEPT ![p] = Send("create", d, "journal")]
      BY <2>1 DEF CreateGoldenDocument
    <3>2. Fine(Send("create", d, "journal"))  BY ZenonT(40), <1>1, <2>1 DEF Send, CreateGoldenDocument, Press
    <3> QED  BY <3>1, <3>2
  <2>2. CASE AskState(p)
    <3>1. PICK d \in Docs, op \in {"activate", "retire"} : page' = [page EXCEPT ![p] = Send(op, d, "look")]
      BY <2>2 DEF AskState
    <3>2. Fine(Send(op, d, "look"))  BY <1>1, <2>2 DEF Send, AskState, Press
    <3> QED  BY <3>1, <3>2
  <2>3. CASE LookUp(p)  BY <2>0, <2>3 DEF LookUp
  <2>4. CASE SeeOthers(p)  BY <2>0, <2>4 DEF SeeOthers
  <2>5. CASE RetireOthers(p)  BY <2>0, <2>5 DEF RetireOthers
  <2>6. CASE Activate(p)  BY <2>0, <2>6 DEF Activate
  <2>7. CASE RetireGoldenDocument(p)  BY <2>0, <2>7 DEF RetireGoldenDocument
  <2>8. CASE Commit(p)  BY <2>0, <2>8 DEF Commit
  <2>9. CASE WriteJournal(p) \/ GoldenFails(p)  BY <2>0, <2>9 DEF WriteJournal, GoldenFails
  <2>10. CASE UpsertSection(p) \/ RefuseWorker(p)
    <3>1. page' = page  BY <2>10 DEF UpsertSection, RefuseWorker
    <3> HIDE DEF GoldenInv, Fine
    <3> QED  BY <2>0, <3>1
  <2> QED
    BY <2>1, <2>2, <2>3, <2>4, <2>5, <2>6, <2>7, <2>8, <2>9, <2>10 DEF PageStep
<1>4. target' \in [Pages -> SUBSET Docs]
  <2>1. CASE SeeOthers(p)  BY <2>1 DEF SeeOthers, Alike
  <2>2. CASE RetireOthers(p) \/ GoldenFails(p)  BY <2>2 DEF RetireOthers, GoldenFails
  <2>3. CASE UNCHANGED target  BY <2>3
  <2> QED
    BY <2>1, <2>2, <2>3 DEF PageStep, CreateGoldenDocument, AskState, UpsertSection, LookUp, Activate,
       RetireGoldenDocument, Commit, WriteJournal, RefuseWorker
<1>5. /\ DOMAIN draft' = Pages
      /\ DOMAIN draft'[p] \subseteq Docs
      /\ \A x \in DOMAIN draft'[p] : draft'[p][x] \in {"active", "retired"}
  <2>1. CASE RetireOthers(p)  BY <2>1 DEF RetireOthers, Written
  <2>2. CASE Activate(p)
    <3>1. page[p].d \in Docs  BY <2>2 DEF Activate
    <3> QED  BY <2>2, <3>1 DEF Activate, Written
  <2>3. CASE RetireGoldenDocument(p)
    <3>1. page[p].d \in Docs  BY <2>3 DEF RetireGoldenDocument
    <3> QED  BY <2>3, <3>1 DEF RetireGoldenDocument, Written
  <2>4. CASE Commit(p) \/ GoldenFails(p)  BY <2>4, NothingWritten DEF Commit, GoldenFails
  <2>5. CASE UNCHANGED draft  BY <2>5
  <2> QED
    BY <2>1, <2>2, <2>3, <2>4, <2>5 DEF PageStep, CreateGoldenDocument, AskState, UpsertSection, LookUp,
       SeeOthers, WriteJournal, RefuseWorker
<1>6. ASSUME NEW q \in Pages
      PROVE  /\ DOMAIN draft'[q] \subseteq Docs
             /\ \A x \in DOMAIN draft'[q] : draft'[q][x] \in {"active", "retired"}
  <2>1. CASE q = p  BY <1>5, <2>1
  <2>2. CASE q # p
    <3>1. draft'[q] = draft[q]
      <4> HIDE DEF GoldenInv
      <4> QED  BY <2>2, OthersStay
    <3>2. DOMAIN draft[q] \subseteq Docs /\ \A x \in DOMAIN draft[q] : draft[q][x] \in {"active", "retired"}
      OBVIOUS
    <3> HIDE DEF GoldenInv
    <3> QED  BY <3>1, <3>2
  <2> QED  BY <2>1, <2>2
<1>7. page' \in [Pages -> PageRow] /\ \A q \in Pages : Fine(page'[q])
  <2>1. PICK r : Fine(r) /\ page' = [page EXCEPT ![p] = r]  BY <1>3
  <2>2. page \in [Pages -> PageRow] /\ \A q \in Pages : Fine(page[q])  OBVIOUS
  <2> HIDE DEF PageRow
  <2> QED  BY <2>1, <2>2
<1>8. raced' \in BOOLEAN
  BY DEF PageStep, CreateGoldenDocument, AskState, UpsertSection, LookUp, SeeOthers, RetireOthers,
     Activate, RetireGoldenDocument, Commit, WriteJournal, GoldenFails, RefuseWorker
<1> QED  BY <1>2, <1>4, <1>5, <1>6, <1>7, <1>8

\* A row that another page holds is waited for.
LEMMA DisjointStep ==
  ASSUME GoldenInv, NEW p \in Pages, PageStep(p)
  PROVE  DraftsDisjoint'
<1> USE DEF GoldenInv, GoldenTypeInv
<1>1. ASSUME NEW q \in Pages \ {p} PROVE DOMAIN draft'[p] \cap DOMAIN draft[q] = {}
  <2>0. DOMAIN draft[p] \cap DOMAIN draft[q] = {}  BY DEF DraftsDisjoint
  <2>1. CASE RetireOthers(p)
    <3>1. DOMAIN draft'[p] \subseteq DOMAIN draft[p] \cup target[p]
      BY <2>1 DEF RetireOthers, Written
    <3>2. DOMAIN draft[q] \subseteq Locked(p)  BY DEF Locked
    <3> QED  BY <2>0, <2>1, <3>1, <3>2 DEF RetireOthers
  <2>2. CASE Activate(p)  BY <2>0, <2>2 DEF Activate, Written, Locked
  <2>3. CASE RetireGoldenDocument(p)  BY <2>0, <2>3 DEF RetireGoldenDocument, Written, Locked
  <2>4. CASE Commit(p) \/ GoldenFails(p)  BY <2>4, NothingWritten DEF Commit, GoldenFails
  <2>5. CASE UNCHANGED draft  BY <2>0, <2>5
  <2> QED
    BY <2>1, <2>2, <2>3, <2>4, <2>5 DEF PageStep, CreateGoldenDocument, AskState, UpsertSection, LookUp,
       SeeOthers, WriteJournal, RefuseWorker
<1> QED  BY <1>1, OthersStay DEF DraftsDisjoint

\* The steps of other pages take nothing away from what a transaction knows.
LEMMA OthersTransaction ==
  ASSUME GoldenInv, NEW p \in Pages, PageStep(p), NEW q \in Pages, q # p
  PROVE  Transaction(q)'
<1>1. Transaction(q)  BY DEF GoldenInv, TransactionInv, Transaction
<1>2. ASSUME NEW x \in DOMAIN draft[q], draft[q][x] = "active" PROVE doc'[x] \in Activatable
  <2>1. x \in Docs /\ doc[x] \in Activatable  BY <1>1, <1>2 DEF Transaction, GoldenInv, GoldenTypeInv
  <2>2. x \notin DOMAIN draft[p]  BY <1>2 DEF GoldenInv, DraftsDisjoint
  <2> QED  BY <2>1, <2>2, DocStep DEF Activatable
<1>3. page[q].at = "journal" => page[q].d \in Docs  BY DEF GoldenInv, GoldenTypeInv
<1> QED  BY ZenonT(40), <1>1, <1>2, <1>3, OthersStay, RetiredStays DEF Transaction

\* ... and neither does a step of its own.
LEMMA OwnTransaction ==
  ASSUME GoldenInv, NEW p \in Pages, PageStep(p)
  PROVE  Transaction(p)'
<1>0. Transaction(p)  BY DEF GoldenInv, TransactionInv
<1>a. /\ page[p].at # "idle" => page[p].op # "none" /\ page[p].d \in Docs
      /\ \A x \in DOMAIN draft[p] : x \in Docs /\ draft[p][x] \in {"active", "retired"}
      /\ DOMAIN draft = Pages /\ target \in [Pages -> SUBSET Docs]
      /\ page \in [Pages -> [op : PageOps, d : Docs \cup {NoDoc}, at : PageSteps, began : 0..MaxAsked]]
  BY DEF GoldenInv, GoldenTypeInv
<1>1. CASE CreateGoldenDocument(p)
  BY <1>0, <1>1, <1>a DEF CreateGoldenDocument, Press, Send, Transaction
<1>2. CASE AskState(p)
  BY <1>0, <1>2, <1>a DEF AskState, Press, Send, Transaction
<1>3. CASE UpsertSection(p) \/ RefuseWorker(p)
  BY <1>0, <1>3 DEF UpsertSection, RefuseWorker, Transaction
<1>4. CASE LookUp(p)
  BY <1>0, <1>4, <1>a DEF LookUp, NoOp, Transaction
<1>5. CASE SeeOthers(p)
  BY <1>0, <1>5, <1>a DEF SeeOthers, Transaction
<1>6. CASE RetireOthers(p)
  BY <1>0, <1>6, <1>a DEF RetireOthers, Written, Transaction
<1>7. CASE Activate(p)
  <2>1. page[p].op = "activate" /\ page[p].d \in Docs  BY <1>0, <1>7, <1>a DEF Activate, Transaction
  <2>2. Reads(p, page[p].d) \in Activatable => doc[page[p].d] \in Activatable
    BY <1>0, <1>a DEF Reads, Transaction, Activatable
  <2>3. UNCHANGED <<doc, target>> /\ page'[p] = [page[p] EXCEPT !.at = "commit"]
    BY <1>7, <1>a DEF Activate
  <2>4. draft'[p] = IF Reads(p, page[p].d) \in Activatable THEN Written(p, {page[p].d}, "active")
                                                          ELSE draft[p]
    BY <1>7, <1>a DEF Activate
  <2> QED  BY <1>0, <1>7, <1>a, <2>1, <2>2, <2>3, <2>4 DEF Transaction, Written, Activate
<1>8. CASE RetireGoldenDocument(p)
  BY <1>0, <1>8, <1>a DEF RetireGoldenDocument, Written, Transaction
<1>9. CASE Commit(p)
  BY <1>0, <1>9, <1>a, NothingWritten DEF Commit, NoOp, Transaction
<1>10. CASE WriteJournal(p)
  BY <1>0, <1>10, <1>a DEF WriteJournal, NoOp, Transaction
<1>11. CASE GoldenFails(p)
  <2>1. DOMAIN draft'[p] = {} /\ target'[p] = {} /\ page'[p] = NoOp
    BY <1>11, <1>a, NothingWritten DEF GoldenFails
  <2> QED  BY <2>1 DEF NoOp, Transaction
<1> QED  BY <1>1, <1>2, <1>3, <1>4, <1>5, <1>6, <1>7, <1>8, <1>9, <1>10, <1>11 DEF PageStep

\* A document that a commit retired is never seen active again.
LEMMA PastStep ==
  ASSUME GoldenInv, NEW p \in Pages, PageStep(p)
  PROVE  PastInv'
<1>1. \/ gone' = gone
      \/ Commit(p) /\ gone' = gone \cup {x \in DOMAIN draft[p] : draft[p][x] = "retired"}
  <2>1. CASE Commit(p)  BY <2>1 DEF Commit
  <2>2. CASE UNCHANGED gone  BY <2>2
  <2> QED
    BY <2>1, <2>2 DEF PageStep, CreateGoldenDocument, AskState, UpsertSection, LookUp, SeeOthers,
       RetireOthers, Activate, RetireGoldenDocument, WriteJournal, GoldenFails, RefuseWorker
<1>2. ASSUME NEW d \in gone' PROVE doc'[d] = "retired"
  <2>1. CASE d \in gone
    BY <2>1, RetiredStays DEF GoldenInv, PastInv, GoldenTypeInv, GoldenTypeOK
  <2>2. CASE Commit(p) /\ d \in DOMAIN draft[p] /\ draft[p][d] = "retired"
    BY <2>2 DEF Commit, GoldenInv, GoldenTypeInv
  <2> QED  BY <1>1, <2>1, <2>2
<1>3. ASSUME NEW e \in journal' \ journal
      PROVE  \/ e = <<"denied", NoDoc>>
             \/ e = <<page[p].op, page[p].d>> /\ page[p].at = "journal"
  <2>1. CASE RefuseWorker(p)  BY <2>1 DEF RefuseWorker
  <2>2. CASE WriteJournal(p)  BY <2>2 DEF WriteJournal
  <2>3. CASE UNCHANGED journal  BY <2>3
  <2> QED
    BY <2>1, <2>2, <2>3 DEF PageStep, CreateGoldenDocument, AskState, UpsertSection, LookUp, SeeOthers,
       RetireOthers, Activate, RetireGoldenDocument, Commit, GoldenFails
<1>6. Transaction(p)  BY DEF GoldenInv, TransactionInv
<1>4. ASSUME NEW d \in Docs, <<"retire", d>> \in journal' PROVE doc'[d] = "retired"
  <2>1. CASE <<"retire", d>> \in journal
    BY <2>1, RetiredStays DEF GoldenInv, PastInv
  <2>2. CASE page[p].op = "retire" /\ page[p].d = d /\ page[p].at = "journal"
    BY <1>6, <2>2, RetiredStays DEF Transaction
  <2>3. <<"retire", d>> # <<"denied", NoDoc>>  OBVIOUS
  <2>4. <<"retire", d>> = <<page[p].op, page[p].d>> => page[p].op = "retire" /\ page[p].d = d  OBVIOUS
  <2> QED  BY <1>3, <1>4, <2>1, <2>2, <2>3, <2>4
<1>5. ASSUME NEW d \in Docs, <<"activate", d>> \in journal' PROVE doc'[d] \in {"active", "retired"}
  <2>1. CASE <<"activate", d>> \in journal
    BY <2>1, RetiredStays DEF GoldenInv, PastInv
  <2>2. CASE page[p].op = "activate" /\ page[p].d = d /\ page[p].at = "journal"
    BY <1>6, <2>2, RetiredStays DEF Transaction
  <2>3. <<"activate", d>> # <<"denied", NoDoc>>  OBVIOUS
  <2>4. <<"activate", d>> = <<page[p].op, page[p].d>> => page[p].op = "activate" /\ page[p].d = d  OBVIOUS
  <2> QED  BY <1>3, <1>5, <2>1, <2>2, <2>3, <2>4
<1> QED  BY <1>2, <1>4, <1>5 DEF PastInv

\* What holds of one activation while those of a kind do not overlap.
Lone(p) ==
  page[p].op = "activate" =>
    /\ \A q \in Pages \ {p} : page[q].op = "activate" => page[q].d \notin Alike(page[p].d)
    /\ page[p].at = "retire others" =>
         \A x \in Alike(page[p].d) \ {page[p].d} : doc[x] = "active" => x \in target[p]
    /\ page[p].at \in {"set", "commit"} =>
         \A x \in Alike(page[p].d) \ {page[p].d} : doc[x] = "active" => x \in DOMAIN draft[p]

\* A document becomes active by the commit of its own activation only.
LEMMA NewlyActive ==
  ASSUME GoldenInv, NEW p \in Pages, PageStep(p), NEW x \in Docs, doc'[x] = "active"
  PROVE  \/ doc[x] = "active"
         \/ Commit(p) /\ page[p].op = "activate" /\ page[p].d = x
<1>1. x \in DOMAIN draft[p] /\ draft[p][x] = "active" => page[p].op = "activate" /\ page[p].d = x
  BY DEF GoldenInv, TransactionInv, Transaction
<1> QED  BY <1>1, DocStep

\* A page takes up an activation when it asks for one; the history remembers an overlap.
LEMMA NewActivation ==
  ASSUME GoldenInv, NEW p \in Pages, PageStep(p), ~raced'
  PROVE  /\ ~raced
         /\ page'[p].op = "activate" =>
              \/ page[p].op = "activate" /\ page'[p].d = page[p].d
              \/ /\ page'[p].at = "look"
                 /\ \A q \in Pages \ {p} : page[q].op = "activate" => page[q].d \notin Alike(page'[p].d)
<1> USE DEF GoldenInv, GoldenTypeInv
<1>1. CASE AskState(p)
  <2>1. PICK d \in Docs, op \in {"activate", "retire"} :
          /\ page' = [page EXCEPT ![p] = Send(op, d, "look")]
          /\ raced' = (raced \/ /\ op = "activate"
                                /\ \E q \in Pages \ {p} : page[q].op = "activate" /\ page[q].d \in Alike(d))
    BY <1>1 DEF AskState
  <2>2. page'[p] = Send(op, d, "look")  BY <2>1
  <2>3. ~raced /\ ~(op = "activate" /\ \E q \in Pages \ {p} : page[q].op = "activate" /\ page[q].d \in Alike(d))
    BY <2>1
  <2> QED  BY <2>2, <2>3 DEF Send
<1>2. CASE CreateGoldenDocument(p)  BY <1>2 DEF CreateGoldenDocument, Send
<1>3. CASE UpsertSection(p) \/ RefuseWorker(p)  BY <1>3 DEF UpsertSection, RefuseWorker
<1>4. CASE LookUp(p)  BY <1>4 DEF LookUp, NoOp
<1>5. CASE SeeOthers(p)  BY <1>5 DEF SeeOthers
<1>6. CASE RetireOthers(p)  BY <1>6 DEF RetireOthers
<1>7. CASE Activate(p)  BY <1>7 DEF Activate
<1>8. CASE RetireGoldenDocument(p)  BY <1>8 DEF RetireGoldenDocument
<1>9. CASE Commit(p)  BY <1>9 DEF Commit, NoOp
<1>10. CASE WriteJournal(p) \/ GoldenFails(p)  BY <1>10 DEF WriteJournal, GoldenFails, NoOp
<1> QED  BY <1>1, <1>2, <1>3, <1>4, <1>5, <1>6, <1>7, <1>8, <1>9, <1>10 DEF PageStep

\* The page that moves stays alone in activating a document of its kind.
LEMMA OwnLone ==
  ASSUME GoldenInv, NEW p \in Pages, PageStep(p), ~raced'
  PROVE  Lone(p)'
<1> SUFFICES ASSUME page'[p].op = "activate" PROVE Lone(p)'  BY DEF Lone
<1>0. /\ ~raced /\ Transaction(p)
      /\ page[p].op = "activate" => Lone(p)
  BY NewActivation DEF GoldenInv, SingleInv, Lone, TransactionInv
<1>a. /\ page[p].at # "idle" => page[p].op # "none" /\ page[p].d \in Docs
      /\ DOMAIN draft = Pages /\ target \in [Pages -> SUBSET Docs]
      /\ page \in [Pages -> [op : PageOps, d : Docs \cup {NoDoc}, at : PageSteps, began : 0..MaxAsked]]
  BY DEF GoldenInv, GoldenTypeInv
<1>b. page'[p].at = "retire others" => SeeOthers(p) \/ UpsertSection(p) \/ RefuseWorker(p)
  <2>1. CASE CreateGoldenDocument(p)  BY <1>a, <2>1 DEF CreateGoldenDocument, Send
  <2>2. CASE AskState(p)  BY <1>a, <2>2 DEF AskState, Send
  <2>3. CASE LookUp(p)  BY <1>a, <2>3 DEF LookUp, NoOp
  <2>4. CASE WriteJournal(p)  BY <1>a, <2>4 DEF WriteJournal, NoOp
  <2>5. CASE GoldenFails(p)  BY <1>a, <2>5 DEF GoldenFails, NoOp
  <2>6. CASE RetireOthers(p)  BY <1>a, <2>6 DEF RetireOthers
  <2>7. CASE Activate(p)  BY <1>a, <2>7 DEF Activate
  <2>8. CASE RetireGoldenDocument(p)  BY <1>a, <2>8 DEF RetireGoldenDocument
  <2>9. CASE Commit(p)  BY <1>a, <2>9 DEF Commit, NoOp
  <2> QED  BY <2>1, <2>2, <2>3, <2>4, <2>5, <2>6, <2>7, <2>8, <2>9 DEF PageStep
<1>1. \A q \in Pages \ {p} : page'[q].op = "activate" => page'[q].d \notin Alike(page'[p].d)
  BY <1>0, NewActivation, OthersStay DEF Lone
<1>2. ASSUME page'[p].at = "retire others",
             NEW x \in Alike(page'[p].d) \ {page'[p].d}, doc'[x] = "active"
      PROVE  x \in target'[p]
  <2>1. CASE SeeOthers(p)  BY <1>2, <1>a, <2>1 DEF SeeOthers
  <2>2. CASE UpsertSection(p) \/ RefuseWorker(p)
    BY <1>0, <1>2, <2>2 DEF UpsertSection, RefuseWorker, Lone
  <2> QED  BY <1>2, <1>b, <2>1, <2>2
<1>3. ASSUME page'[p].at \in {"set", "commit"},
             NEW x \in Alike(page'[p].d) \ {page'[p].d}, doc'[x] = "active"
      PROVE  x \in DOMAIN draft'[p]
  <2>1. CASE RetireOthers(p)
    <3> DEFINE rows == {y \in target[p] : doc[y] = "active"}
    <3>1. /\ page[p].at = "retire others" /\ doc' = doc
          /\ page' = [page EXCEPT ![p].at = "set"]
          /\ draft' = [draft EXCEPT ![p] = Written(p, rows, "retired")]
      BY <2>1 DEF RetireOthers
    <3>2. page'[p].op = page[p].op /\ page'[p].d = page[p].d  BY <3>1, <1>a
    <3>3. x \in rows  BY <1>0, <1>3, <3>1, <3>2 DEF Lone
    <3> HIDE DEF rows
    <3>4. DOMAIN draft'[p] = DOMAIN draft[p] \cup rows  BY <3>1, <1>a DEF Written
    <3> QED  BY <3>3, <3>4
  <2>2. CASE Activate(p)  BY <1>0, <1>3, <1>a, <2>2 DEF Activate, Lone, Written
  <2>3. CASE UpsertSection(p) \/ RefuseWorker(p)
    BY <1>0, <1>3, <2>3 DEF UpsertSection, RefuseWorker, Lone
  <2>4. CASE RetireGoldenDocument(p)  BY <1>a, <2>4 DEF RetireGoldenDocument
  <2>5. CASE CreateGoldenDocument(p) \/ AskState(p) \/ LookUp(p)
    BY <1>3, <1>a, <2>5 DEF CreateGoldenDocument, AskState, LookUp, Send, NoOp
  <2>6. CASE SeeOthers(p)  BY <1>3, <1>a, <2>6 DEF SeeOthers
  <2>7. CASE Commit(p)  BY <1>3, <1>a, <2>7 DEF Commit, NoOp
  <2>8. CASE WriteJournal(p) \/ GoldenFails(p)  BY <1>3, <1>a, <2>8 DEF WriteJournal, GoldenFails, NoOp
  <2> QED  BY <2>1, <2>2, <2>3, <2>4, <2>5, <2>6, <2>7, <2>8 DEF PageStep
<1> QED  BY <1>1, <1>2, <1>3 DEF Lone

\* What one page does leaves the others alone in the activations they are at.
LEMMA OthersLone ==
  ASSUME GoldenInv, NEW p \in Pages, PageStep(p), ~raced', NEW q \in Pages, q # p
  PROVE  Lone(q)'
<1> SUFFICES ASSUME page[q].op = "activate" PROVE Lone(q)'  BY OthersStay DEF Lone
<1>0. ~raced /\ Lone(q)
  BY NewActivation DEF GoldenInv, SingleInv, Lone
<1>1. UNCHANGED <<page[q], target[q], draft[q]>>  BY OthersStay
<1>2. ASSUME NEW r \in Pages \ {q}, page'[r].op = "activate" PROVE page'[r].d \notin Alike(page[q].d)
  <2>1. CASE r # p  BY <1>0, <1>2, <2>1, OthersStay DEF Lone
  <2>2. CASE r = p
    <3>1. \/ page[q].d \notin Alike(page'[p].d)
          \/ page[p].op = "activate" /\ page'[p].d = page[p].d
      BY <1>2, <2>2, NewActivation
    <3>2. page[q].d \in Docs /\ (page'[p].d \in Alike(page[q].d) => page[q].d \in Alike(page'[p].d))
      BY DEF Alike, GoldenInv, GoldenTypeInv
    <3> QED  BY <1>0, <2>2, <3>1, <3>2 DEF Lone
  <2> QED  BY <2>1, <2>2
<1>3. \A x \in Alike(page[q].d) : doc'[x] = "active" => doc[x] = "active"
  BY <1>0, NewlyActive DEF Alike, Lone
<1> QED  BY <1>0, <1>1, <1>2, <1>3 DEF Lone

\* Two active documents of a kind would be left by an activation that retires the others.
LEMMA SingleStep ==
  ASSUME GoldenInv, NEW p \in Pages, PageStep(p)
  PROVE  SingleInv'
<1> SUFFICES ASSUME ~raced'
             PROVE  /\ \A q \in Pages : Lone(q)'
                    /\ \A x, y \in Docs :
                         doc'[x] = "active" /\ doc'[y] = "active" /\ KindOf[x] = KindOf[y] => x = y
  BY DEF SingleInv, Lone
<1>1. \A q \in Pages : Lone(q)'  BY OwnLone, OthersLone
<1>2. ASSUME NEW x \in Docs, NEW y \in Docs, doc'[x] = "active", doc'[y] = "active",
             KindOf[x] = KindOf[y], doc[x] = "active", x # y
      PROVE  FALSE
  <2>1. ~raced  BY NewActivation
  <2>2. doc[y] # "active"  BY <1>2, <2>1 DEF GoldenInv, SingleInv
  <2>3. Commit(p) /\ page[p].op = "activate" /\ page[p].d = y  BY <1>2, <2>2, NewlyActive
  <2>4. x \in DOMAIN draft[p]
    BY <1>2, <2>1, <2>3 DEF GoldenInv, SingleInv, Alike, Commit
  <2>5. draft[p][x] = "active"  BY <1>2, <2>3, <2>4 DEF Commit
  <2> QED  BY <1>2, <2>3, <2>4, <2>5 DEF GoldenInv, TransactionInv, Transaction
<1>3. ASSUME NEW x \in Docs, NEW y \in Docs, doc'[x] = "active", doc'[y] = "active",
             KindOf[x] = KindOf[y]
      PROVE  x = y
  <2>1. CASE doc[x] = "active" \/ doc[y] = "active"  BY <1>2, <1>3, <2>1
  <2>2. CASE doc[x] # "active" /\ doc[y] # "active"  BY <1>3, <2>2, NewlyActive
  <2> QED  BY <2>1, <2>2
<1> QED  BY <1>1, <1>3

-----------------------------------------------------------------------------
\* The parts of the invariant hold together in every reachable state of the pages.
THEOREM GoldenInductive == GoldenSpec => []GoldenInv
<1>1. ASSUME GoldenInv, NEW p \in Pages, PageStep(p) PROVE GoldenInv'
  BY <1>1, GoldenTypeStep, DisjointStep, OthersTransaction, OwnTransaction, PastStep, SingleStep
     DEF GoldenInv, TransactionInv
<1>2. ASSUME GoldenInv, UNCHANGED goldenVars PROVE GoldenInv'
  <2>1. GoldenTypeInv'  BY <1>2 DEF GoldenInv, goldenVars, GoldenTypeInv, GoldenTypeOK
  <2>2. DraftsDisjoint'  BY <1>2 DEF GoldenInv, goldenVars, DraftsDisjoint
  <2>3. TransactionInv'  BY <1>2 DEF GoldenInv, goldenVars, TransactionInv, Transaction
  <2>4. PastInv'  BY <1>2 DEF GoldenInv, goldenVars, PastInv
  <2>5. SingleInv'  BY <1>2 DEF GoldenInv, goldenVars, SingleInv, Alike
  <2> QED  BY <2>1, <2>2, <2>3, <2>4, <2>5 DEF GoldenInv
<1>3. GoldenInv /\ [GoldenNext]_goldenVars => GoldenInv'
  BY <1>1, <1>2 DEF GoldenNext, PageStep
<1> QED  BY <1>3, GoldenStarts, PTL DEF GoldenSpec

\* One of a kind at most is active, so the one served is the active one.
LEMMA OneServed ==
  ASSUME GoldenInv, ~raced, NEW d \in Docs
  PROVE  Cardinality(Active(d)) <= 1 /\ FetchActive(d) = Active(d)
<1>1. \A x, y \in Active(d) : x = y  BY DEF GoldenInv, SingleInv, Active, Alike
<1>2. Active(d) = {} \/ \E x : Active(d) = {x}  BY <1>1
<1>3. Cardinality(Active(d)) <= 1  BY SMTT(40), <1>2, FS_EmptySet, FS_Singleton
<1>4. \A x \in Active(d) : stamp[x] <= stamp[x]
  BY GoldenAssumption DEF Active, Alike, GoldenInv, GoldenTypeInv, GoldenTypeOK
<1> QED  BY <1>1, <1>3, <1>4 DEF FetchActive

\* However activations and edits of the pages interleave, what the run checks holds for any
\* documents, kinds and pages: retired documents stay retired, and one of a kind is served.
THEOREM GoldenCorrect == GoldenSpec => []GoldenSound
<1>1. GoldenInv => GoldenSound
  BY OneServed DEF GoldenInv, PastInv, DraftsDisjoint, GoldenSound
<1> QED  BY <1>1, GoldenInductive, PTL

-----------------------------------------------------------------------------
(* Corrections and methodology commentary.                                 *)

Entries == [source : Sources, who : Researchers, status : {"open", "acknowledged", "folded_in", "archived"},
            acknowledged : BOOLEAN, folded : BOOLEAN, archived : BOOLEAN]

Pendings == [at : {"idle", "row"}, source : Sources \cup {"none"}, who : Researchers \cup {"none"},
             opened : Nat \cup {NoEntry}]

CommentaryTypeInv ==
  /\ widened \in BOOLEAN /\ edits \in 0..MaxEdits /\ cut \in Nat
  /\ entry \in Seq(Entries) /\ Len(entry) <= MaxEntries
  /\ request \in [Requests -> Pendings]

\* The requests that opened an entry and have not stored their correction.
Opening == {r \in Requests : request[r].opened # NoEntry}

\* Such an entry is theirs alone, of their source and their researcher.
OpeningInv ==
  \A r \in Opening :
    /\ request[r].at = "row" /\ request[r].source # "maintenance"
    /\ request[r].opened \in DOMAIN entry
    /\ entry[request[r].opened].source = request[r].source
    /\ entry[request[r].opened].who = request[r].who
    /\ \A x \in edit : x.entry # request[r].opened
    /\ \A q \in Opening : request[q].opened = request[r].opened => q = r

NamedInv ==
  \A x \in edit : x.entry # NoEntry =>
    /\ x.entry \in DOMAIN entry
    /\ entry[x.entry].source = x.source /\ entry[x.entry].who = x.who
    /\ \A y \in edit : y.entry = x.entry => y = x

CountInv ==
  /\ IsFiniteSet(Orphans) /\ IsFiniteSet(Opening)
  /\ Cardinality(Orphans) = cut + Cardinality(Opening)

StatusInv ==
  \A e \in DOMAIN entry :
    /\ entry[e].folded => entry[e].status = "folded_in" /\ entry[e].acknowledged
    /\ entry[e].archived => entry[e].status = "archived"
    /\ entry[e].status = "acknowledged" => entry[e].acknowledged

CommentaryInv == CommentaryTypeInv /\ OpeningInv /\ NamedInv /\ CountInv /\ StatusInv

\* The one record of a request that is not under way.
LEMMA NoRequestType == NoRequest \in Pendings /\ NoRequest.opened = NoEntry
  BY DEF NoRequest, Pendings

\* Inserting an entry: the earlier ones stay where they are, and the new one is last.
LEMMA InsertEffect ==
  ASSUME CommentaryTypeInv, NEW src \in Sources, NEW who \in Researchers,
         Insert(src, who), Len(entry) < MaxEntries
  PROVE  /\ entry' \in Seq(Entries) /\ Len(entry') = Len(entry) + 1 /\ Len(entry') <= MaxEntries
         /\ DOMAIN entry' = DOMAIN entry \cup {Len(entry) + 1} /\ Len(entry) + 1 \notin DOMAIN entry
         /\ \A e \in DOMAIN entry : entry'[e] = entry[e]
         /\ entry'[Len(entry) + 1] = Open(src, who)
<1>1. Open(src, who) \in Entries
  BY DEF Open, Entries
<1>2. entry \in Seq(Entries) /\ Len(entry) \in Nat
  BY DEF CommentaryTypeInv
<1>3. MaxEntries \in Nat
  BY CommentaryAssumption
<1> DEFINE o == Open(src, who)
<1> HIDE DEF o
<1>4. entry' = Append(entry, o) /\ o \in Entries
  BY <1>1 DEF Insert, o
<1>5. entry' \in Seq(Entries) /\ Len(entry') = Len(entry) + 1
  BY <1>2, <1>4
<1>6. \A e \in DOMAIN entry : entry'[e] = entry[e]
  BY <1>2, <1>4
<1>7. entry'[Len(entry) + 1] = o
  BY <1>2, <1>4
<1>8. DOMAIN entry' = DOMAIN entry \cup {Len(entry) + 1} /\ Len(entry) + 1 \notin DOMAIN entry
  BY <1>2, <1>5
<1> QED BY <1>2, <1>3, <1>5, <1>6, <1>7, <1>8 DEF o

\* The requests under way are the same when no request moves, and the entries without a
\* correction when none is stored and every entry keeps its source.
LEMMA OrphansSame ==
  ASSUME edit' = edit, DOMAIN entry' = DOMAIN entry,
         \A e \in DOMAIN entry : entry'[e].source = entry[e].source
  PROVE  Orphans' = Orphans
  BY DEF Orphans

\* An entry that waits for its correction has none yet.
LEMMA OpeningOrphan ==
  ASSUME CommentaryTypeInv, OpeningInv, NEW r \in Opening
  PROVE  request[r].opened \in Orphans
  BY DEF OpeningInv, Orphans

\* Opening an entry with a correction keeps the invariant.
LEMMA CorrectStep ==
  ASSUME CommentaryInv, NEW r \in Requests, NEW src \in {"chat_feedback", "wiki_inline_edit"},
         NEW shift \in BOOLEAN, Correct(r, src, shift)
  PROVE  CommentaryInv'
<1> USE DEF CommentaryInv
<1>1. PICK who \in Researchers :
        /\ request[r].at = "idle"
        /\ IF ~shift
           THEN /\ request' = [request EXCEPT ![r] = [at |-> "row", source |-> src, who |-> who, opened |-> NoEntry]]
                /\ UNCHANGED entry
           ELSE /\ Len(entry) < MaxEntries
                /\ Insert(src, who)
                /\ request' = [request EXCEPT ![r] = [at |-> "row", source |-> src, who |-> who,
                                                      opened |-> Len(entry) + 1]]
  BY DEF Correct
<1>2. UNCHANGED <<widened, edit, edits, cut>>
  BY DEF Correct
<1>3. r \notin Opening /\ request \in [Requests -> Pendings] /\ src \in Sources /\ src # "maintenance"
  BY <1>1 DEF OpeningInv, CommentaryTypeInv, Sources
<1>4. CASE ~shift
  <2>1. [at |-> "row", source |-> src, who |-> who, opened |-> NoEntry] \in Pendings
    BY <1>3 DEF Pendings
  <2>2. /\ request' \in [Requests -> Pendings] /\ request'[r].opened = NoEntry
        /\ \A q \in Requests \ {r} : request'[q] = request[q]
    BY <1>1, <1>3, <1>4, <2>1
  <2>3. Opening' = Opening
    BY <1>3, <2>2 DEF Opening
  <2>4. \A q \in Opening : request'[q] = request[q]
    BY <1>3, <2>2 DEF Opening
  <2>5. entry' = entry
    BY <1>1, <1>4
  <2>6. CommentaryTypeInv'
    BY <1>2, <2>2, <2>5 DEF CommentaryTypeInv
  <2>7. OpeningInv'
    BY <1>2, <2>3, <2>4, <2>5 DEF OpeningInv
  <2>8. Orphans' = Orphans
    BY <1>2, <2>5 DEF Orphans
  <2> QED BY <1>2, <2>3, <2>5, <2>6, <2>7, <2>8 DEF NamedInv, CountInv, StatusInv
<1>5. CASE shift
  <2> DEFINE n == Len(entry) + 1
  <2>0. n \in Nat
    BY DEF CommentaryTypeInv
  <2>1. /\ entry' \in Seq(Entries) /\ Len(entry') <= MaxEntries
        /\ DOMAIN entry' = DOMAIN entry \cup {n} /\ n \notin DOMAIN entry
        /\ \A e \in DOMAIN entry : entry'[e] = entry[e]
        /\ entry'[n] = Open(src, who)
    BY <1>1, <1>3, <1>5, InsertEffect
  <2>2. request' = [request EXCEPT ![r] = [at |-> "row", source |-> src, who |-> who, opened |-> n]]
    BY <1>1, <1>5
  <2> HIDE DEF n
  <2>3. [at |-> "row", source |-> src, who |-> who, opened |-> n] \in Pendings
    BY <1>3, <2>0 DEF Pendings
  <2>4. /\ request' \in [Requests -> Pendings]
        /\ request'[r] = [at |-> "row", source |-> src, who |-> who, opened |-> n]
        /\ \A q \in Requests \ {r} : request'[q] = request[q]
    BY <1>3, <2>2, <2>3
  <2>5. n # NoEntry
    BY <2>0, CommentaryAssumption
  <2>6. Opening' = Opening \cup {r} /\ \A q \in Opening : request'[q] = request[q]
    BY <1>3, <2>4, <2>5 DEF Opening
  <2>7. \A x \in edit : x.entry # n
    BY <2>1, <2>5 DEF NamedInv
  <2>8. entry'[n].source = src /\ entry'[n].who = who /\ ~entry'[n].folded /\ ~entry'[n].archived
        /\ entry'[n].status = "open"
    BY <2>1 DEF Open
  <2>9. Orphans' = Orphans \cup {n} /\ n \notin Orphans
    <3>1. \A e \in DOMAIN entry : entry'[e].source = entry[e].source
      BY <2>1
    <3> QED BY <1>2, <1>3, <2>1, <2>7, <2>8, <3>1 DEF Orphans
  <2>10. CommentaryTypeInv'
    BY <1>2, <2>1, <2>4 DEF CommentaryTypeInv
  <2>11. OpeningInv'
    <3>1. ASSUME NEW q \in Opening
          PROVE  /\ request'[q].at = "row" /\ request'[q].source # "maintenance"
                 /\ request'[q].opened \in DOMAIN entry' /\ request'[q].opened # n
                 /\ entry'[request'[q].opened].source = request'[q].source
                 /\ entry'[request'[q].opened].who = request'[q].who
                 /\ \A x \in edit' : x.entry # request'[q].opened
      BY <1>2, <2>1, <2>6 DEF OpeningInv
    <3>2. /\ request'[r].at = "row" /\ request'[r].source # "maintenance"
          /\ request'[r].opened \in DOMAIN entry' /\ request'[r].opened = n
          /\ entry'[request'[r].opened].source = request'[r].source
          /\ entry'[request'[r].opened].who = request'[r].who
          /\ \A x \in edit' : x.entry # request'[r].opened
      BY <1>2, <1>3, <2>1, <2>4, <2>7, <2>8
    <3>3. \A q, p \in Opening' : request'[q].opened = request'[p].opened => q = p
      BY <2>6, <3>1, <3>2 DEF OpeningInv
    <3> QED BY <2>6, <3>1, <3>2, <3>3 DEF OpeningInv
  <2>12. NamedInv'
    BY <1>2, <2>1 DEF NamedInv
  <2>13. CountInv'
    <3>1. IsFiniteSet(Orphans') /\ Cardinality(Orphans') = Cardinality(Orphans) + 1
      BY <2>9, FS_AddElement DEF CountInv
    <3>2. IsFiniteSet(Opening') /\ Cardinality(Opening') = Cardinality(Opening) + 1
      BY <1>3, <2>6, FS_AddElement DEF CountInv
    <3>3. Cardinality(Opening) \in Nat /\ cut \in Nat
      BY FS_CardinalityType DEF CountInv, CommentaryTypeInv
    <3> QED BY <1>2, <3>1, <3>2, <3>3 DEF CountInv
  <2>14. StatusInv'
    BY <2>1, <2>8 DEF StatusInv
  <2> QED BY <2>10, <2>11, <2>12, <2>13, <2>14
<1> QED BY <1>4, <1>5

\* Storing the correction takes its entry from those without one.
LEMMA InsertFeedbackStep ==
  ASSUME CommentaryInv, NEW r \in Requests, InsertFeedback(r)
  PROVE  CommentaryInv'
<1> USE DEF CommentaryInv
<1> DEFINE x == [id |-> edits + 1, source |-> request[r].source, who |-> request[r].who,
                 entry |-> request[r].opened]
<1>1. /\ edit' = edit \cup {x} /\ request' = [request EXCEPT ![r] = NoRequest] /\ edits < MaxEdits
      /\ edits' = edits + 1 /\ UNCHANGED <<widened, entry, cut>>
  BY DEF InsertFeedback
<1>2. x.source = request[r].source /\ x.who = request[r].who /\ x.entry = request[r].opened
  OBVIOUS
<1> HIDE DEF x
<1>3. /\ request' \in [Requests -> Pendings] /\ request'[r].opened = NoEntry
      /\ \A q \in Requests \ {r} : request'[q] = request[q]
  BY <1>1, NoRequestType DEF CommentaryTypeInv
<1>4. Opening' = Opening \ {r} /\ \A q \in Opening' : request'[q] = request[q] /\ q \in Opening /\ q # r
  BY <1>3 DEF Opening
<1>5. CommentaryTypeInv'
  <2>1. edits' \in 0..MaxEdits
    BY <1>1, CommentaryAssumption DEF CommentaryTypeInv
  <2> QED BY <1>1, <1>3, <2>1 DEF CommentaryTypeInv
<1>6. CASE r \notin Opening
  <2>1. x.entry = NoEntry /\ Opening' = Opening
    BY <1>2, <1>4, <1>6 DEF Opening
  <2>2. \A e \in DOMAIN entry : e # NoEntry
    BY CommentaryAssumption DEF CommentaryTypeInv
  <2>3. Orphans' = Orphans
    BY <1>1, <2>1, <2>2 DEF Orphans
  <2>4. OpeningInv'
    BY <1>1, <1>4, <2>1, <2>2 DEF OpeningInv
  <2>5. NamedInv'
    BY <1>1, <2>1 DEF NamedInv
  <2> QED BY <1>1, <1>5, <2>1, <2>3, <2>4, <2>5 DEF CountInv, StatusInv
<1>7. CASE r \in Opening
  <2>1. /\ x.entry \in DOMAIN entry /\ entry[x.entry].source = x.source /\ entry[x.entry].who = x.who
        /\ \A y \in edit : y.entry # x.entry
        /\ \A q \in Opening : request[q].opened = x.entry => q = r
        /\ x.entry \in Orphans
    BY <1>2, <1>7, OpeningOrphan DEF OpeningInv
  <2>2. Orphans' = Orphans \ {x.entry}
    BY <1>1, <2>1 DEF Orphans
  <2>3. OpeningInv'
    BY <1>1, <1>4, <2>1 DEF OpeningInv
  <2>4. NamedInv'
    BY <1>1, <2>1 DEF NamedInv
  <2>5. CountInv'
    <3>1. IsFiniteSet(Orphans') /\ Cardinality(Orphans') = Cardinality(Orphans) - 1
      BY <2>1, <2>2, FS_RemoveElement DEF CountInv
    <3>2. IsFiniteSet(Opening') /\ Cardinality(Opening') = Cardinality(Opening) - 1
      BY <1>4, <1>7, FS_RemoveElement DEF CountInv
    <3>3. Cardinality(Opening) \in Nat /\ cut \in Nat
      BY FS_CardinalityType DEF CountInv, CommentaryTypeInv
    <3> QED BY <1>1, <3>1, <3>2, <3>3 DEF CountInv
  <2> QED BY <1>1, <1>5, <2>3, <2>4, <2>5 DEF StatusInv
<1> QED BY <1>6, <1>7

\* A request that stops leaves the entry it opened without a correction, and is counted.
LEMMA StopRequestStep ==
  ASSUME CommentaryInv, NEW r \in Requests, StopRequest(r)
  PROVE  CommentaryInv'
<1> USE DEF CommentaryInv
<1>1. /\ request' = [request EXCEPT ![r] = NoRequest] /\ UNCHANGED <<widened, entry, edit, edits>>
      /\ cut' = cut + (IF request[r].opened # NoEntry THEN 1 ELSE 0)
  BY DEF StopRequest
<1>2. /\ request' \in [Requests -> Pendings] /\ request'[r].opened = NoEntry
      /\ \A q \in Requests \ {r} : request'[q] = request[q]
  BY <1>1, NoRequestType DEF CommentaryTypeInv
<1>3. Opening' = Opening \ {r} /\ \A q \in Opening' : request'[q] = request[q] /\ q \in Opening
  BY <1>2 DEF Opening
<1>4. cut' = cut + (IF r \in Opening THEN 1 ELSE 0) /\ cut \in Nat
  BY <1>1 DEF Opening, CommentaryTypeInv
<1>5. CommentaryTypeInv'
  BY <1>1, <1>2, <1>4 DEF CommentaryTypeInv
<1>6. OpeningInv'
  BY <1>1, <1>3 DEF OpeningInv
<1>7. Orphans' = Orphans
  BY <1>1 DEF Orphans
<1>8. CountInv'
  <2>0. Cardinality(Opening) \in Nat
    BY FS_CardinalityType DEF CountInv
  <2>1. CASE r \in Opening
    <3>1. IsFiniteSet(Opening') /\ Cardinality(Opening') = Cardinality(Opening) - 1
      BY <1>3, <2>1, FS_RemoveElement DEF CountInv
    <3> QED BY <1>4, <1>7, <2>0, <2>1, <3>1 DEF CountInv
  <2>2. CASE r \notin Opening
    <3>1. Opening' = Opening
      BY <1>3, <2>2
    <3> QED BY <1>4, <1>7, <2>0, <2>2, <3>1 DEF CountInv
  <2> QED BY <2>1, <2>2
<1> QED BY <1>1, <1>5, <1>6, <1>8 DEF NamedInv, StatusInv

\* An entry that moves to another status stays the entry it was.
LEMMA TransitionStep ==
  ASSUME CommentaryInv, Acknowledge \/ FoldIn \/ Archive
  PROVE  CommentaryInv'
<1> USE DEF CommentaryInv
<1>1. UNCHANGED <<widened, edit, edits, request, cut>>
  BY DEF Acknowledge, FoldIn, Archive
<1>2. PICK e \in DOMAIN entry :
        \/ /\ entry[e].status = "open"
           /\ entry' = [entry EXCEPT ![e] = [@ EXCEPT !.status = "acknowledged", !.acknowledged = TRUE]]
        \/ /\ entry[e].status = "acknowledged"
           /\ entry' = [entry EXCEPT ![e] = [@ EXCEPT !.status = "folded_in", !.folded = TRUE]]
        \/ /\ entry[e].status \in {"open", "acknowledged"}
           /\ entry' = [entry EXCEPT ![e] = [@ EXCEPT !.status = "archived", !.archived = TRUE]]
  BY DEF Acknowledge, FoldIn, Archive, Archivable, Of
<1>3. entry \in Seq(Entries) /\ entry[e] \in Entries
  BY DEF CommentaryTypeInv
<1>4. PICK m \in Entries :
        /\ entry' = [entry EXCEPT ![e] = m]
        /\ m.source = entry[e].source /\ m.who = entry[e].who
        /\ \/ /\ entry[e].status = "open" /\ m.status = "acknowledged" /\ m.acknowledged
              /\ m.folded = entry[e].folded /\ m.archived = entry[e].archived
           \/ /\ entry[e].status = "acknowledged" /\ m.status = "folded_in"
              /\ m.folded /\ m.archived = entry[e].archived /\ m.acknowledged = entry[e].acknowledged
           \/ /\ entry[e].status \in {"open", "acknowledged"} /\ m.status = "archived"
              /\ m.archived /\ m.folded = entry[e].folded /\ m.acknowledged = entry[e].acknowledged
  BY <1>2, <1>3 DEF Entries
<1>5. /\ entry' \in Seq(Entries) /\ Len(entry') = Len(entry) /\ DOMAIN entry' = DOMAIN entry
      /\ entry'[e] = m /\ \A i \in DOMAIN entry \ {e} : entry'[i] = entry[i]
  BY <1>3, <1>4
<1>6. \A i \in DOMAIN entry : entry'[i].source = entry[i].source /\ entry'[i].who = entry[i].who
  BY <1>4, <1>5
<1>7. CommentaryTypeInv'
  BY <1>1, <1>5 DEF CommentaryTypeInv
<1>8. Opening' = Opening /\ Orphans' = Orphans
  BY <1>1, <1>5, <1>6, OrphansSame DEF Opening
<1>9. OpeningInv'
  BY <1>1, <1>5, <1>6, <1>8 DEF OpeningInv
<1>10. NamedInv'
  BY <1>1, <1>5, <1>6 DEF NamedInv
<1>11. StatusInv'
  <2>1. /\ m.folded => m.status = "folded_in" /\ m.acknowledged
        /\ m.archived => m.status = "archived"
        /\ m.status = "acknowledged" => m.acknowledged
    BY <1>4 DEF StatusInv
  <2> QED BY <1>5, <2>1 DEF StatusInv
<1> QED BY <1>1, <1>7, <1>8, <1>9, <1>10, <1>11 DEF CountInv

\* An entry that no correction opened waits for none.
LEMMA OpenEntryStep ==
  ASSUME CommentaryInv, OpenEntry
  PROVE  CommentaryInv'
<1> USE DEF CommentaryInv
<1>1. PICK who \in Researchers : Len(entry) < MaxEntries /\ Insert("maintenance", who)
  BY DEF OpenEntry
<1>2. UNCHANGED <<widened, edit, edits, request, cut>>
  BY DEF OpenEntry
<1> DEFINE n == Len(entry) + 1
<1>3. /\ entry' \in Seq(Entries) /\ Len(entry') <= MaxEntries
      /\ DOMAIN entry' = DOMAIN entry \cup {n} /\ n \notin DOMAIN entry
      /\ \A e \in DOMAIN entry : entry'[e] = entry[e]
      /\ entry'[n] = Open("maintenance", who)
  <2>1. "maintenance" \in Sources
    BY DEF Sources
  <2> QED BY <1>1, <2>1, InsertEffect
<1> HIDE DEF n
<1>4. entry'[n].source = "maintenance" /\ ~entry'[n].folded /\ ~entry'[n].archived
      /\ entry'[n].status = "open"
  BY <1>3 DEF Open
<1>5. Orphans' = Orphans /\ Opening' = Opening
  <2>1. \A e \in DOMAIN entry : entry'[e].source = entry[e].source
    BY <1>3
  <2> QED BY <1>2, <1>3, <1>4, <2>1 DEF Orphans, Opening
<1>6. CommentaryTypeInv'
  BY <1>2, <1>3 DEF CommentaryTypeInv
<1>7. OpeningInv'
  BY <1>2, <1>3, <1>5 DEF OpeningInv
<1>8. NamedInv'
  BY <1>2, <1>3 DEF NamedInv
<1>9. StatusInv'
  BY <1>3, <1>4 DEF StatusInv
<1> QED BY <1>2, <1>5, <1>6, <1>7, <1>8, <1>9 DEF CountInv

\* The invariant of the corrections and the commentary they open.
THEOREM CommentaryInductive == CommentarySpec => []CommentaryInv
<1>1. CommentaryInit => CommentaryInv
  <2> SUFFICES ASSUME CommentaryInit PROVE CommentaryInv
    OBVIOUS
  <2>1. request \in [Requests -> Pendings] /\ Opening = {}
    BY NoRequestType DEF CommentaryInit, Opening
  <2>2. entry = <<>> /\ Len(entry) = 0 /\ entry \in Seq(Entries) /\ DOMAIN entry = {}
    BY DEF CommentaryInit
  <2>3. Orphans = {}
    BY <2>2 DEF Orphans
  <2>4. CommentaryTypeInv
    <3>1. 0 \in 0..MaxEdits /\ 0 <= MaxEntries
      BY CommentaryAssumption
    <3> QED BY <2>1, <2>2, <3>1, CommentaryAssumption DEF CommentaryInit, CommentaryTypeInv
  <2>5. CountInv
    BY <2>1, <2>3, FS_EmptySet DEF CommentaryInit, CountInv
  <2> QED BY <2>1, <2>2, <2>4, <2>5 DEF CommentaryInit, CommentaryInv, OpeningInv, NamedInv, StatusInv
<1>2. CommentaryInv /\ [CommentaryNext]_commentaryVars => CommentaryInv'
  <2> SUFFICES ASSUME CommentaryInv, [CommentaryNext]_commentaryVars PROVE CommentaryInv'
    OBVIOUS
  <2>1. CASE WidenSources
    BY <2>1 DEF WidenSources, CommentaryInv, CommentaryTypeInv, OpeningInv, NamedInv, CountInv, StatusInv,
                Orphans, Opening
  <2>2. CASE OpenEntry
    BY <2>2, OpenEntryStep
  <2>3. CASE Acknowledge \/ FoldIn \/ Archive
    BY <2>3, TransitionStep
  <2>4. ASSUME NEW r \in Requests, ApplyFeedback(r) \/ ApplyInlineEdit(r) PROVE CommentaryInv'
    BY <2>4, CorrectStep DEF ApplyFeedback, ApplyInlineEdit
  <2>5. ASSUME NEW r \in Requests, InsertFeedback(r) PROVE CommentaryInv'
    BY <2>5, InsertFeedbackStep
  <2>6. ASSUME NEW r \in Requests, StopRequest(r) PROVE CommentaryInv'
    BY <2>6, StopRequestStep
  <2>7. CASE UNCHANGED commentaryVars
    BY <2>7 DEF commentaryVars, CommentaryInv, CommentaryTypeInv, OpeningInv, NamedInv, CountInv, StatusInv,
                Orphans, Opening
  <2> QED BY <2>1, <2>2, <2>3, <2>4, <2>5, <2>6, <2>7 DEF CommentaryNext
<1> QED BY <1>1, <1>2, PTL DEF CommentarySpec

\* A stored correction names an entry of its own, and the entries left without a correction are
\* exactly as many as the requests in flight that opened one and those that stopped.
THEOREM CommentaryCorrect == CommentarySpec => []CommentarySound
<1>1. CommentaryInv => CommentarySound
  <2> SUFFICES ASSUME CommentaryInv PROVE CommentarySound
    OBVIOUS
  <2>1. \A e \in DOMAIN entry : ~(entry[e].folded /\ entry[e].archived) /\ (entry[e].folded => entry[e].acknowledged)
    BY DEF CommentaryInv, StatusInv
  <2> QED BY <2>1 DEF CommentaryInv, NamedInv, CountInv, Opening, CommentarySound
<1> QED BY <1>1, CommentaryInductive, PTL

-----------------------------------------------------------------------------
(* Review of wiki drafts.                                                  *)

DraftStates == {"none", "draft", "published", "archived"}

Modals == [d : Drafts \cup {NoDraft}, at : {"closed", "shown", "archive others", "publish", "archive"}]

\* A reviewer whose handler is between its audit event and its last statement.
AtDecision(r) == modal[r].at \notin {"closed", "shown"}

ReviewTypeInv ==
  /\ version \in [Drafts -> DraftStates]
  /\ modal \in [Reviewers -> Modals]
  /\ \A r \in Reviewers : modal[r].at # "closed" => modal[r].d \in Drafts
  /\ stops \in 0..MaxStops
  /\ overlapping \in BOOLEAN

\* What the audit log says of a handler under way, of a published and of an archived version.
LogInv ==
  /\ \A r \in Reviewers :
       /\ modal[r].at \in {"archive others", "publish"} => <<"approved", modal[r].d>> \in decided
       /\ modal[r].at = "archive" => <<"rejected", modal[r].d>> \in decided
  /\ \A d \in Drafts : version[d] = "published" => <<"approved", d>> \in decided
  /\ \A d \in Drafts : version[d] = "archived" =>
       \E x \in Drafts : <<"approved", x>> \in decided \/ <<"rejected", d>> \in decided

\* While decisions do not overlap one handler works alone, on a draft nobody else touches,
\* and one that is about to publish has left nothing else published.
AloneInv ==
  ~overlapping =>
    /\ \A r, q \in Reviewers : AtDecision(r) /\ AtDecision(q) => r = q
    /\ \A r \in Reviewers : AtDecision(r) => version[modal[r].d] = "draft"
    /\ \A r \in Reviewers : modal[r].at = "publish" => \A x \in Drafts : version[x] # "published"
    /\ \A x, y \in Drafts : version[x] = "published" /\ version[y] = "published" => x = y

\* When no request stopped half-way either, a rejection on the log is carried out or under way,
\* and so is an approval.
CarriedOut ==
  ~overlapping /\ stops = 0 =>
    /\ \A d \in Drafts : <<"rejected", d>> \in decided =>
         \/ version[d] = "archived"
         \/ \E r \in Reviewers : modal[r].at = "archive" /\ modal[r].d = d
    /\ (\E d \in Drafts : <<"approved", d>> \in decided) =>
         \/ \E r \in Reviewers : modal[r].at \in {"archive others", "publish"}
         \/ \E d \in Drafts : version[d] = "published"

ReviewInv == ReviewTypeInv /\ LogInv /\ AloneInv /\ CarriedOut

\* The steps of one reviewer's modal and of the handler it calls.
ReviewerStep(r) ==
  \/ OpenModal(r) \/ CloseModal(r) \/ HandleApprove(r) \/ HandleReject(r)
  \/ ArchiveOthers(r) \/ Publish(r) \/ RejectDraft(r) \/ StopReview(r)

\* The closed modal is one, and so is every modal a step leaves.
LEMMA ModalsKept ==
  ASSUME NEW m \in Modals, NEW d \in Drafts,
         NEW at \in {"closed", "shown", "archive others", "publish", "archive"}
  PROVE  /\ ClosedModal \in Modals
         /\ [d |-> d, at |-> at] \in Modals
         /\ [m EXCEPT !.at = at] \in Modals
         /\ [m EXCEPT !.at = at].d = m.d /\ [m EXCEPT !.at = at].at = at
         /\ ClosedModal.at = "closed"
  BY DEF Modals, ClosedModal

\* A step of one reviewer leaves every other modal alone.
LEMMA OtherModals ==
  ASSUME ReviewTypeInv, NEW r \in Reviewers, ReviewerStep(r), NEW q \in Reviewers, q # r
  PROVE  modal'[q] = modal[q]
<1> USE DEF ReviewTypeInv
<1>1. CASE OpenModal(r) BY <1>1 DEF OpenModal
<1>2. CASE CloseModal(r) BY <1>2 DEF CloseModal
<1>3. CASE HandleApprove(r) BY <1>3 DEF HandleApprove, Decide
<1>4. CASE HandleReject(r) BY <1>4 DEF HandleReject, Decide
<1>5. CASE ArchiveOthers(r) BY <1>5 DEF ArchiveOthers
<1>6. CASE Publish(r) BY <1>6 DEF Publish, Settle
<1>7. CASE RejectDraft(r) BY <1>7 DEF RejectDraft, Settle
<1>8. CASE StopReview(r) BY <1>8 DEF StopReview
<1> QED BY <1>1, <1>2, <1>3, <1>4, <1>5, <1>6, <1>7, <1>8 DEF ReviewerStep

\* What each step of a reviewer does to its own modal.
LEMMA OwnModal ==
  ASSUME ReviewTypeInv, NEW r \in Reviewers
  PROVE  /\ OpenModal(r) => modal'[r].at = "shown" /\ modal'[r].d \in Drafts /\ modal' \in [Reviewers -> Modals]
         /\ HandleApprove(r) => modal'[r].at = "archive others" /\ modal'[r].d = modal[r].d
                                /\ modal[r].d \in Drafts /\ modal' \in [Reviewers -> Modals]
         /\ HandleReject(r) => modal'[r].at = "archive" /\ modal'[r].d = modal[r].d
                               /\ modal[r].d \in Drafts /\ modal' \in [Reviewers -> Modals]
         /\ ArchiveOthers(r) => modal'[r].at = "publish" /\ modal'[r].d = modal[r].d
                                /\ modal[r].d \in Drafts /\ modal' \in [Reviewers -> Modals]
         /\ Publish(r) \/ RejectDraft(r) =>
              modal'[r].at = "closed" /\ modal[r].d \in Drafts /\ modal' \in [Reviewers -> Modals]
         /\ CloseModal(r) \/ StopReview(r) => modal'[r].at = "closed" /\ modal' \in [Reviewers -> Modals]
<1>0. /\ modal \in [Reviewers -> Modals] /\ modal[r] \in Modals
      /\ modal[r].at # "closed" => modal[r].d \in Drafts
  BY DEF ReviewTypeInv
<1>1. ASSUME OpenModal(r)
      PROVE  modal'[r].at = "shown" /\ modal'[r].d \in Drafts /\ modal' \in [Reviewers -> Modals]
  <2>1. PICK d \in Drafts : modal' = [modal EXCEPT ![r] = [d |-> d, at |-> "shown"]]
    BY <1>1 DEF OpenModal
  <2>2. [d |-> d, at |-> "shown"] \in Modals
    BY DEF Modals
  <2> QED BY <1>0, <2>1, <2>2
<1>2. ASSUME NEW what, NEW next \in {"archive others", "archive"}, Decide(r, what, next)
      PROVE  /\ modal'[r].at = next /\ modal'[r].d = modal[r].d
             /\ modal[r].d \in Drafts /\ modal' \in [Reviewers -> Modals]
  <2>1. modal' = [modal EXCEPT ![r] = [@ EXCEPT !.at = next]] /\ modal[r].at = "shown"
    BY <1>2 DEF Decide
  <2>2. modal[r].d \in Drafts
    BY <1>0, <2>1
  <2>3. [modal[r] EXCEPT !.at = next] \in Modals
    BY <1>0, <2>2, ModalsKept
  <2> QED BY <1>0, <2>1, <2>2, <2>3 DEF Modals
<1>3. ASSUME ArchiveOthers(r)
      PROVE  /\ modal'[r].at = "publish" /\ modal'[r].d = modal[r].d
             /\ modal[r].d \in Drafts /\ modal' \in [Reviewers -> Modals]
  <2>1. modal' = [modal EXCEPT ![r] = [@ EXCEPT !.at = "publish"]] /\ modal[r].at = "archive others"
    BY <1>3 DEF ArchiveOthers
  <2>2. modal[r].d \in Drafts
    BY <1>0, <2>1
  <2>3. [modal[r] EXCEPT !.at = "publish"] \in Modals
    BY <1>0, <2>2, ModalsKept
  <2> QED BY <1>0, <2>1, <2>2, <2>3 DEF Modals
<1>4. ClosedModal \in Modals /\ ClosedModal.at = "closed"
  BY DEF Modals, ClosedModal
<1>5. ASSUME Publish(r) \/ RejectDraft(r)
      PROVE  modal'[r].at = "closed" /\ modal[r].d \in Drafts /\ modal' \in [Reviewers -> Modals]
  BY <1>0, <1>4, <1>5 DEF Publish, RejectDraft, Settle
<1>6. ASSUME CloseModal(r) \/ StopReview(r)
      PROVE  modal'[r].at = "closed" /\ modal' \in [Reviewers -> Modals]
  BY <1>0, <1>4, <1>6 DEF CloseModal, StopReview
<1> QED BY <1>1, <1>2, <1>3, <1>5, <1>6 DEF HandleApprove, HandleReject

\* Every step of a reviewer keeps the types.
LEMMA ReviewTypeStep ==
  ASSUME ReviewTypeInv, NEW r \in Reviewers, ReviewerStep(r)
  PROVE  ReviewTypeInv'
<1>1. /\ modal' \in [Reviewers -> Modals]
      /\ modal'[r].at # "closed" => modal'[r].d \in Drafts
  BY OwnModal DEF ReviewerStep
<1>2. \A q \in Reviewers : modal'[q].at # "closed" => modal'[q].d \in Drafts
  BY <1>1, OtherModals DEF ReviewTypeInv
<1>3. version' \in [Drafts -> DraftStates]
  BY DEF ReviewerStep, ReviewTypeInv, OpenModal, CloseModal, HandleApprove, HandleReject, Decide,
         ArchiveOthers, Publish, RejectDraft, Settle, StopReview, DraftStates
<1>4. stops' \in 0..MaxStops
  <2>1. stops \in 0..MaxStops
    BY DEF ReviewTypeInv
  <2>2. CASE StopReview(r)
    BY <2>1, <2>2, ReviewAssumption DEF StopReview
  <2>3. CASE ~StopReview(r)
    BY <2>1, <2>3 DEF ReviewerStep, OpenModal, CloseModal, HandleApprove, HandleReject,
         Decide, ArchiveOthers, Publish, RejectDraft, Settle
  <2> QED BY <2>2, <2>3
<1>5. overlapping' \in BOOLEAN
  BY DEF ReviewerStep, ReviewTypeInv, OpenModal, CloseModal, HandleApprove, HandleReject,
         Decide, ArchiveOthers, Publish, RejectDraft, Settle, StopReview
<1> QED BY <1>1, <1>2, <1>3, <1>4, <1>5 DEF ReviewTypeInv

\* Every step of a reviewer keeps what the log says.
LEMMA LogStep ==
  ASSUME ReviewTypeInv, LogInv, NEW r \in Reviewers, ReviewerStep(r)
  PROVE  LogInv'
<1>0. \A q \in Reviewers \ {r} : modal'[q] = modal[q]
  BY OtherModals
<1>1. ASSUME version' = version, decided' = decided,
             modal'[r].at \in {"closed", "shown"}
      PROVE  LogInv'
  BY <1>0, <1>1 DEF LogInv
<1>2. CASE OpenModal(r) \/ CloseModal(r) \/ StopReview(r)
  BY <1>1, <1>2, OwnModal DEF OpenModal, CloseModal, StopReview
<1>3. ASSUME NEW what \in {"approved", "rejected"}, decided' = decided \cup {<<what, modal[r].d>>},
             version' = version, modal'[r].d = modal[r].d,
             modal'[r].at = IF what = "approved" THEN "archive others" ELSE "archive"
      PROVE  LogInv'
  <2>1. decided \subseteq decided' /\ <<what, modal[r].d>> \in decided'
    BY <1>3
  <2>2. \A q \in Reviewers :
          /\ modal'[q].at \in {"archive others", "publish"} => <<"approved", modal'[q].d>> \in decided'
          /\ modal'[q].at = "archive" => <<"rejected", modal'[q].d>> \in decided'
    BY <1>0, <1>3, <2>1 DEF LogInv
  <2> QED BY <1>3, <2>1, <2>2 DEF LogInv
<1>4. CASE HandleApprove(r) \/ HandleReject(r)
  <2>1. version' = version
    BY <1>4 DEF HandleApprove, HandleReject, Decide
  <2> QED BY <1>3, <1>4, <2>1, OwnModal DEF HandleApprove, HandleReject, Decide
<1>5. CASE ArchiveOthers(r)
  <2>1. /\ modal'[r].at = "publish" /\ modal'[r].d = modal[r].d /\ modal[r].d \in Drafts
        /\ modal[r].at = "archive others" /\ decided' = decided
    BY <1>5, OwnModal DEF ArchiveOthers
  <2>2. version' = [x \in Drafts |-> IF x \in Others(modal[r].d) THEN "archived" ELSE version[x]]
    BY <1>5 DEF ArchiveOthers
  <2>3. <<"approved", modal[r].d>> \in decided
    BY <2>1 DEF LogInv
  <2> QED BY <1>0, <2>1, <2>2, <2>3 DEF LogInv
<1>6. CASE Publish(r)
  <2>1. /\ modal'[r].at = "closed" /\ modal[r].d \in Drafts /\ modal[r].at = "publish"
        /\ decided' = decided /\ version' = [version EXCEPT ![modal[r].d] = "published"]
    BY <1>6, OwnModal DEF Publish, Settle
  <2> QED BY <1>0, <2>1 DEF LogInv, ReviewTypeInv
<1>7. CASE RejectDraft(r)
  <2>1. /\ modal'[r].at = "closed" /\ modal[r].d \in Drafts /\ modal[r].at = "archive"
        /\ decided' = decided /\ version' = [version EXCEPT ![modal[r].d] = "archived"]
    BY <1>7, OwnModal DEF RejectDraft, Settle
  <2> QED BY <1>0, <2>1 DEF LogInv, ReviewTypeInv
<1> QED BY <1>2, <1>4, <1>5, <1>6, <1>7 DEF ReviewerStep

\* A handler that works alone is still alone, on its draft, after any reviewer's step.
LEMMA AloneStep ==
  ASSUME ReviewTypeInv, AloneInv, CarriedOut, NEW r \in Reviewers, ReviewerStep(r)
  PROVE  AloneInv' /\ CarriedOut'
<1>0. \A q \in Reviewers \ {r} : modal'[q] = modal[q]
  BY OtherModals
<1>1. CASE OpenModal(r) \/ CloseModal(r) \/ StopReview(r)
  <2>1. modal'[r].at \in {"closed", "shown"} /\ version' = version /\ decided' = decided
        /\ overlapping' = overlapping
    BY <1>1, OwnModal DEF OpenModal, CloseModal, StopReview
  <2>2. AloneInv'
    BY <1>0, <2>1 DEF AloneInv, AtDecision
  <2>3. CASE OpenModal(r) \/ CloseModal(r)
    <3>1. modal[r].at \in {"closed", "shown"} /\ stops' = stops
      BY <2>3 DEF OpenModal, CloseModal
    <3>2. \A q \in Reviewers : modal[q].at \in {"archive", "archive others", "publish"} => modal'[q] = modal[q]
      BY <1>0, <3>1
    <3>3. CarriedOut'
      <4>1. SUFFICES ASSUME CarriedOut, ~overlapping, stops = 0 PROVE CarriedOut'
        BY <2>1, <3>1 DEF CarriedOut
      <4>2. \A d \in Drafts : <<"rejected", d>> \in decided =>
              version[d] = "archived" \/ \E q \in Reviewers : modal'[q].at = "archive" /\ modal'[q].d = d
        <5>1. \A q \in Reviewers : modal[q].at = "archive" => modal'[q].at = "archive" /\ modal'[q].d = modal[q].d
          BY <3>2
        <5>2. ASSUME NEW d \in Drafts, <<"rejected", d>> \in decided, version[d] # "archived"
              PROVE  \E q \in Reviewers : modal[q].at = "archive" /\ modal[q].d = d
          BY <4>1, <5>2 DEF CarriedOut
        <5> QED BY <5>1, <5>2
      <4>3. (\E d \in Drafts : <<"approved", d>> \in decided) =>
              \/ \E q \in Reviewers : modal'[q].at \in {"archive others", "publish"}
              \/ \E d \in Drafts : version[d] = "published"
        <5>1. \A q \in Reviewers : modal[q].at \in {"archive others", "publish"} =>
                modal'[q].at \in {"archive others", "publish"}
          BY <3>2
        <5> QED BY <4>1, <5>1 DEF CarriedOut
      <4> QED BY <2>1, <4>2, <4>3 DEF CarriedOut
    <3> QED BY <2>2, <3>3
  <2>4. CASE StopReview(r)
    <3>1. stops' # 0
      BY <2>4, ReviewAssumption DEF StopReview, ReviewTypeInv
    <3> QED BY <2>2, <3>1 DEF CarriedOut
  <2> QED BY <1>1, <2>3, <2>4
<1>2. CASE HandleApprove(r) \/ HandleReject(r)
  <2>1. PICK what \in {"approved", "rejected"} :
          /\ decided' = decided \cup {<<what, modal[r].d>>}
          /\ modal'[r].at = IF what = "approved" THEN "archive others" ELSE "archive"
    BY <1>2, OwnModal DEF HandleApprove, HandleReject, Decide
  <2>2. /\ version' = version /\ stops' = stops /\ modal[r].at = "shown" /\ version[modal[r].d] = "draft"
        /\ modal'[r].d = modal[r].d /\ modal[r].d \in Drafts
        /\ overlapping' = (overlapping \/ \E q \in Reviewers \ {r} : AtDecision(q))
    BY <1>2, OwnModal DEF HandleApprove, HandleReject, Decide, AtDecision
  <2>3. SUFFICES ASSUME ~overlapping' PROVE AloneInv' /\ CarriedOut'
    BY DEF AloneInv, CarriedOut
  <2>4. ~overlapping /\ \A q \in Reviewers \ {r} : ~AtDecision(q) /\ ~AtDecision(q)'
    BY <1>0, <2>2, <2>3 DEF AtDecision
  <2>5. AloneInv'
    BY <1>0, <2>1, <2>2, <2>4 DEF AloneInv, AtDecision
  <2>6. ASSUME stops = 0, NEW d \in Drafts, <<"rejected", d>> \in decided'
        PROVE  version[d] = "archived" \/ (modal'[r].at = "archive" /\ modal'[r].d = d)
    <3>1. CASE <<"rejected", d>> \in decided
      <4>1. \A q \in Reviewers : modal[q].at # "archive"
        BY <2>2, <2>4 DEF AtDecision
      <4> QED BY <2>4, <2>6, <3>1, <4>1 DEF CarriedOut
    <3>2. CASE <<"rejected", d>> \notin decided
      BY <2>1, <2>2, <2>6, <3>2
    <3> QED BY <3>1, <3>2
  <2>7. ASSUME stops = 0, NEW d \in Drafts, <<"approved", d>> \in decided'
        PROVE  \/ modal'[r].at = "archive others"
               \/ \E x \in Drafts : version[x] = "published"
    <3>1. CASE <<"approved", d>> \in decided
      <4>1. \A q \in Reviewers : modal[q].at \notin {"archive others", "publish"}
        BY <2>2, <2>4 DEF AtDecision
      <4> QED BY <2>4, <2>7, <3>1, <4>1 DEF CarriedOut
    <3>2. CASE <<"approved", d>> \notin decided
      BY <2>1, <2>7, <3>2
    <3> QED BY <3>1, <3>2
  <2> QED BY <2>2, <2>5, <2>6, <2>7 DEF CarriedOut
<1>3. CASE ArchiveOthers(r)
  <2>1. /\ modal'[r].at = "publish" /\ modal'[r].d = modal[r].d /\ modal[r].d \in Drafts
        /\ modal[r].at = "archive others" /\ UNCHANGED <<decided, overlapping, stops>>
    BY <1>3, OwnModal DEF ArchiveOthers
  <2>2. version' = [x \in Drafts |-> IF x \in Others(modal[r].d) THEN "archived" ELSE version[x]]
    BY <1>3 DEF ArchiveOthers
  <2>3. SUFFICES ASSUME ~overlapping PROVE AloneInv' /\ CarriedOut'
    BY <2>1 DEF AloneInv, CarriedOut
  <2>4. \A q \in Reviewers \ {r} : ~AtDecision(q) /\ ~AtDecision(q)'
    BY <1>0, <2>1, <2>3 DEF AloneInv, AtDecision
  <2>5. version[modal[r].d] = "draft"
    BY <2>1, <2>3 DEF AloneInv, AtDecision
  <2>6. \A x \in Drafts : version'[x] = IF version[x] = "published" THEN "archived" ELSE version[x]
    BY <2>1, <2>2, <2>5 DEF Others, Published
  <2>7. AloneInv'
    BY <1>0, <2>1, <2>4, <2>5, <2>6 DEF AloneInv, AtDecision
  <2>8. \A d \in Drafts : stops = 0 /\ <<"rejected", d>> \in decided => version'[d] = "archived"
    BY <2>1, <2>3, <2>4, <2>6 DEF CarriedOut, AtDecision
  <2> QED BY <2>1, <2>7, <2>8 DEF CarriedOut
<1>4. CASE Publish(r) \/ RejectDraft(r)
  <2>1. /\ modal'[r].at = "closed" /\ modal[r].d \in Drafts /\ UNCHANGED <<decided, overlapping, stops>>
        /\ modal[r].at \in {"publish", "archive"}
        /\ version' = [version EXCEPT ![modal[r].d] =
                         IF modal[r].at = "publish" THEN "published" ELSE "archived"]
    BY <1>4, OwnModal DEF Publish, RejectDraft, Settle
  <2>2. SUFFICES ASSUME ~overlapping PROVE AloneInv' /\ CarriedOut'
    BY <2>1 DEF AloneInv, CarriedOut
  <2>3. \A q \in Reviewers : ~AtDecision(q)'
    BY <1>0, <2>1, <2>2 DEF AloneInv, AtDecision
  <2>4. \A q \in Reviewers \ {r} : ~AtDecision(q)
    BY <1>0, <2>1, <2>2 DEF AloneInv, AtDecision
  <2>5. version[modal[r].d] = "draft" /\ \A x \in Drafts \ {modal[r].d} : version'[x] = version[x]
    BY <2>1, <2>2 DEF AloneInv, AtDecision, ReviewTypeInv
  <2>6. version'[modal[r].d] = IF modal[r].at = "publish" THEN "published" ELSE "archived"
    BY <2>1 DEF ReviewTypeInv
  <2>7. modal[r].at = "publish" => \A x \in Drafts : version[x] # "published"
    BY <2>2 DEF AloneInv
  <2>8. \A x, y \in Drafts : version'[x] = "published" /\ version'[y] = "published" => x = y
    <3>1. CASE modal[r].at = "publish"
      BY <2>5, <2>7, <3>1
    <3>2. CASE modal[r].at # "publish"
      BY <2>2, <2>5, <2>6, <3>2 DEF AloneInv
    <3> QED BY <3>1, <3>2
  <2>9. AloneInv'
    BY <2>3, <2>8 DEF AloneInv, AtDecision
  <2>10. ASSUME stops = 0, NEW d \in Drafts, <<"rejected", d>> \in decided PROVE version'[d] = "archived"
    <3>1. CASE d = modal[r].d
      <4>1. \E q \in Reviewers : modal[q].at = "archive" /\ modal[q].d = d
        BY <2>2, <2>5, <2>10, <3>1 DEF CarriedOut
      <4>2. modal[r].at = "archive"
        BY <2>4, <4>1 DEF AtDecision
      <4> QED BY <2>6, <3>1, <4>2
    <3>2. CASE d # modal[r].d
      <4>1. version[d] = "archived"
        BY <2>2, <2>4, <2>10, <3>2 DEF CarriedOut, AtDecision
      <4> QED BY <2>5, <3>2, <4>1
    <3> QED BY <3>1, <3>2
  <2>11. ASSUME stops = 0, NEW d \in Drafts, <<"approved", d>> \in decided
         PROVE  \E x \in Drafts : version'[x] = "published"
    <3>1. CASE modal[r].at = "publish"
      BY <2>1, <2>6, <3>1
    <3>2. CASE modal[r].at = "archive"
      <4>1. \E x \in Drafts : version[x] = "published"
        BY <2>2, <2>4, <2>11, <3>2 DEF CarriedOut, AtDecision
      <4> QED BY <2>5, <4>1
    <3> QED BY <2>1, <3>1, <3>2
  <2> QED BY <2>1, <2>9, <2>10, <2>11 DEF CarriedOut
<1> QED BY <1>1, <1>2, <1>3, <1>4 DEF ReviewerStep

\* The invariant of the review, whatever the reviewers and the drafts are.
THEOREM ReviewInductive == ReviewSpec => []ReviewInv
<1>1. ReviewInit => ReviewInv
  <2> SUFFICES ASSUME ReviewInit PROVE ReviewInv
    OBVIOUS
  <2>1. ClosedModal \in Modals /\ ClosedModal.at = "closed"
    BY DEF Modals, ClosedModal
  <2>2. \A r \in Reviewers : modal[r] = ClosedModal
    BY DEF ReviewInit
  <2>3. ReviewTypeInv
    <3>1. 0 \in 0..MaxStops
      BY ReviewAssumption
    <3> QED BY <2>1, <2>2, <3>1 DEF ReviewInit, ReviewTypeInv, DraftStates
  <2> QED BY <2>1, <2>2, <2>3 DEF ReviewInit, ReviewInv, LogInv, AloneInv, CarriedOut, AtDecision
<1>2. ReviewInv /\ [ReviewNext]_reviewVars => ReviewInv'
  <2> SUFFICES ASSUME ReviewInv, [ReviewNext]_reviewVars PROVE ReviewInv'
    OBVIOUS
  <2>1. CASE CreateDraft
    <3>1. PICK d \in Drafts : /\ version[d] = "none" /\ version' = [version EXCEPT ![d] = "draft"]
                              /\ decided' = decided \cup {<<"created", d>>}
                              /\ UNCHANGED <<modal, overlapping, stops>>
      BY <2>1 DEF CreateDraft
    <3>2. ReviewTypeInv'
      BY <3>1 DEF ReviewInv, ReviewTypeInv, DraftStates
    <3>3. decided \subseteq decided'
          /\ \A x : <<"rejected", x>> \in decided' => <<"rejected", x>> \in decided
      BY <3>1
    <3>4. \A x : <<"approved", x>> \in decided' => <<"approved", x>> \in decided
      BY <3>1
    <3>5. LogInv'
      BY <3>1, <3>3 DEF ReviewInv, ReviewTypeInv, LogInv
    <3>6. AloneInv'
      BY <3>1 DEF ReviewInv, ReviewTypeInv, AloneInv, AtDecision
    <3>7. CarriedOut'
      BY <3>1, <3>3, <3>4 DEF ReviewInv, ReviewTypeInv, CarriedOut
    <3> QED BY <3>2, <3>5, <3>6, <3>7 DEF ReviewInv
  <2>2. ASSUME NEW r \in Reviewers, ReviewerStep(r) PROVE ReviewInv'
    BY <2>2, ReviewTypeStep, LogStep, AloneStep DEF ReviewInv
  <2>3. CASE UNCHANGED reviewVars
    BY <2>3 DEF reviewVars, ReviewInv, ReviewTypeInv, LogInv, AloneInv, CarriedOut, AtDecision
  <2> QED BY <2>1, <2>2, <2>3 DEF ReviewNext, ReviewerStep
<1> QED BY <1>1, <1>2, PTL DEF ReviewSpec

\* A set whose members are all the same has one at most.
LEMMA OneAtMost ==
  ASSUME NEW S, \A x, y \in S : x = y
  PROVE  Cardinality(S) <= 1
<1>1. CASE S = {}
  BY <1>1, FS_EmptySet
<1>2. CASE S # {}
  <2>1. PICK x \in S : TRUE BY <1>2
  <2>2. S = {x} BY <2>1
  <2> QED BY <2>2, FS_Singleton
<1> QED BY <1>1, <1>2

\* One approval publishes one draft, and the audit log accounts for every version that is
\* published or archived.
THEOREM ReviewCorrect == ReviewSpec => []ReviewSound
<1>1. ReviewInv => ReviewSound
  <2> SUFFICES ASSUME ReviewInv PROVE ReviewSound
    OBVIOUS
  <2>1. Published \subseteq Listed
    BY DEF Published, Listed
  <2>2. ~overlapping => Cardinality(Published) <= 1
    <3>1. ~overlapping => \A x, y \in Published : x = y
      BY DEF ReviewInv, AloneInv, Published
    <3> QED BY <3>1, OneAtMost
  <2>3. ~overlapping /\ stops = 0 => \A d \in Published : <<"rejected", d>> \notin decided
    <3>1. ASSUME ~overlapping, stops = 0, NEW d \in Published PROVE <<"rejected", d>> \notin decided
      <4>1. d \in Drafts /\ version[d] = "published"
        BY DEF Published
      <4>2. \A r \in Reviewers : modal[r].at = "archive" => modal[r].d # d
        BY <3>1, <4>1 DEF ReviewInv, AloneInv, AtDecision
      <4> QED BY <3>1, <4>1, <4>2 DEF ReviewInv, CarriedOut
    <3> QED BY <3>1
  <2>4. ~overlapping /\ stops = 0 /\ (\E d \in Drafts : <<"approved", d>> \in decided) =>
          \/ \E r \in Reviewers : modal[r].at \in {"archive others", "publish"}
          \/ Published # {}
    BY DEF ReviewInv, CarriedOut, Published
  <2>5. \A d \in Published : <<"approved", d>> \in decided
    BY DEF ReviewInv, LogInv, Published
  <2> QED BY <2>1, <2>2, <2>3, <2>4, <2>5 DEF ReviewInv, LogInv, ReviewSound
<1> QED BY <1>1, ReviewInductive, PTL

-----------------------------------------------------------------------------
(* The citation gate.                                                      *)

\* A version that is, or is about to be, published and was not let through early was marked
\* clear; and what is marked clear passed the check, on the text it was inserted with.
GateInv ==
  /\ gated \in [Submitted -> {"none", "new", "blocked", "clear"}]
  /\ text \in [Submitted -> [claims : Nat, marked : Nat]]
  /\ GateTypeOK
  /\ \A s \in (letting \cup released) \ early : gated[s] = "clear"
  /\ \A s \in Submitted : gated[s] = "clear" => 100 * text[s].marked >= Sla * text[s].claims

\* A text passes when the share of its claims with a marker is not below the threshold;
\* a text without claims has none below it.
LEMMA PassesMeans ==
  ASSUME NEW t \in [claims : Nat, marked : Nat], Passes(t)
  PROVE  100 * t.marked >= Sla * t.claims
<1>1. CASE t.claims = 0
  <2>1. Sla * t.claims = 0 BY <1>1, GateAssumption
  <2> QED BY <2>1
<1>2. CASE t.claims # 0
  BY <1>2 DEF Passes, CitedClaims
<1> QED BY <1>1, <1>2

\* The gate's invariant: inserting, marking, letting through and publishing keep it.
THEOREM GateInductive == GateSpec => []GateInv
<1>1. GateInit => GateInv
  <2> SUFFICES ASSUME GateInit PROVE GateInv
    OBVIOUS
  <2> QED BY DEF GateInit, GateInv, GateTypeOK
<1>2. GateInv /\ [GateNext]_gateVars => GateInv'
  <2> SUFFICES ASSUME GateInv, [GateNext]_gateVars PROVE GateInv'
    OBVIOUS
  <2>1. CASE SubmitVersion
    <3>1. PICK s \in Submitted, n \in 0..MaxClaims : \E k \in 0..n :
            /\ gated[s] = "none"
            /\ gated' = [gated EXCEPT ![s] = "new"]
            /\ text' = [text EXCEPT ![s] = [claims |-> n, marked |-> k]]
      BY <2>1 DEF SubmitVersion
    <3>2. PICK k \in 0..n :
            /\ gated[s] = "none"
            /\ gated' = [gated EXCEPT ![s] = "new"]
            /\ text' = [text EXCEPT ![s] = [claims |-> n, marked |-> k]]
      BY <3>1
    <3>3. n \in Nat /\ k \in Nat /\ k <= n
      BY GateAssumption
    <3>4. UNCHANGED <<letting, released, early>>
      BY <2>1 DEF SubmitVersion
    <3>5. text' \in [Submitted -> [claims : Nat, marked : Nat]]
      BY <3>2, <3>3 DEF GateInv
    <3>6. \A x \in Submitted : text'[x].marked <= text'[x].claims
      BY <3>2, <3>3 DEF GateInv, GateTypeOK
    <3> QED BY <3>2, <3>4, <3>5, <3>6 DEF GateInv, GateTypeOK
  <2>2. ASSUME NEW s \in Submitted, CheckAndMarkDraft(s) PROVE GateInv'
    <3>1. Passes(text[s]) => 100 * text[s].marked >= Sla * text[s].claims
      BY PassesMeans DEF GateInv
    <3> QED BY <2>2, <3>1 DEF CheckAndMarkDraft, GateInv, GateTypeOK
  <2>3. ASSUME NEW s \in Submitted, LetThrough(s) PROVE GateInv'
    BY <2>3 DEF LetThrough, GateInv, GateTypeOK
  <2>4. ASSUME NEW s \in Submitted, PublishVersion(s) PROVE GateInv'
    BY <2>4 DEF PublishVersion, GateInv, GateTypeOK
  <2>5. CASE UNCHANGED gateVars
    BY <2>5 DEF gateVars, GateInv, GateTypeOK
  <2> QED BY <2>1, <2>2, <2>3, <2>4, <2>5 DEF GateNext
<1> QED BY <1>1, <1>2, PTL DEF GateSpec

\* No version is published below the threshold, but for those let through before they were
\* marked, whatever the threshold is.
THEOREM GateCorrect == GateSpec => []GateHolds
<1>1. GateInv => GateHolds
  BY DEF GateInv, GateHolds, GateTypeOK
<1> QED BY <1>1, GateInductive, PTL

-----------------------------------------------------------------------------
(* Autolearn runs.                                                         *)

Before == {"idle", "fetch", "write", "staged"}

\* How far one run is, told from its files, its fetches and its process: nothing of it
\* lives before the tool is started; the files of the staging directory are there once it is
\* staged; and a result was returned to a run whose tool had ended well.
RunInv(r) ==
  /\ phase[r] \in Before => outcome[r] = "none"
  /\ phase[r] \in Before => child[r] = "none"
  /\ phase[r] \in {"write", "staged", "running"} => fetching[r] = {} /\ <<r, "dir">> \in files
  /\ phase[r] \in {"write", "staged", "running"} => <<r, "ground-truth.json">> \in files
  /\ phase[r] \in {"staged", "running"} => <<r, "wiki.md">> \in files
  /\ phase[r] = "fetch" => <<r, "dir">> \in files
  /\ phase[r] = "running" => outcome[r] = "none"

ResultInv(r) ==
  outcome[r] = "result" =>
    /\ phase[r] \in {"clean input", "clean output", "ended", "gone"}
    /\ child[r] = "exited" /\ exit[r] = "success" /\ fetching[r] = {}
    /\ phase[r] # "gone" => \A f \in Staged : <<r, f>> \in files
    /\ phase[r] \in {"clean input", "clean output"} => <<r, "output.md">> \in files
    /\ phase[r] \in {"clean output", "ended", "gone"} => <<r, "input.md">> \notin files
    /\ phase[r] \in {"ended", "gone"} => <<r, "output.md">> \notin files

AutoTypeInv ==
  /\ AutoTypeOK
  /\ fetching \in [Runs -> SUBSET Staged]
  /\ outcome \in [Runs -> {"none", "StagingWriteError", "AutolearnFetchError", "spawn error",
                           "AutolearnFetchError or AutolearnParseError", "AutolearnCliError",
                           "AutolearnCliOutputError", "AutolearnCliTimeoutError", "result"}]

AutoInv == AutoTypeInv /\ \A r \in Runs : RunInv(r) /\ ResultInv(r)

\* The steps of one run.
RunStep(r) ==
  \/ CreateStagingDir(r) \/ WriteStagingFile(r)
  \/ \E what \in Staged : Fetched(r, what) \/ FetchFails(r, what)
  \/ Invoke(r) \/ WriteOutput(r) \/ ChildClosed(r) \/ Timeout(r)
  \/ \E code \in {"success", "failure"} : Exit(r, code)
  \/ Cleanup(r) \/ CleanupStagingDir(r)

\* What a run leaves alone: everything of the others.
Apart(r) ==
  /\ \A q \in Runs \ {r} :
       /\ phase'[q] = phase[q] /\ fetching'[q] = fetching[q] /\ child'[q] = child[q]
       /\ exit'[q] = exit[q] /\ outcome'[q] = outcome[q]
  /\ \A q \in Runs \ {r} : \A f : <<q, f>> \in files' <=> <<q, f>> \in files

\* A file of one run is not one of another's, and writing one keeps the type of the files.
LEMMA OwnFile ==
  ASSUME NEW r \in Runs, NEW g \in Staged \cup Temp
  PROVE  /\ \A q \in Runs \ {r} : \A f : <<q, f>> \in files \cup {<<r, g>>} <=> <<q, f>> \in files
         /\ files \subseteq Runs \X (Staged \cup Temp) =>
              files \cup {<<r, g>>} \subseteq Runs \X (Staged \cup Temp)
<1>1. ASSUME NEW q \in Runs \ {r}, NEW f PROVE <<q, f>> # <<r, g>>
  BY <1>1
<1>2. <<r, g>> \in Runs \X (Staged \cup Temp)
  OBVIOUS
<1>3. ASSUME NEW q \in Runs \ {r}, NEW f
      PROVE  <<q, f>> \in files \cup {<<r, g>>} <=> <<q, f>> \in files
  BY <1>1
<1> QED BY <1>2, <1>3

\* Runs that share a worker's file system do not touch each other's files or processes.
LEMMA RunsApart ==
  ASSUME AutoInv, NEW r \in Runs, RunStep(r)
  PROVE  Apart(r)
<1> USE DEF Apart
<1>0. AutoTypeInv
  BY DEF AutoInv
<1> USE DEF AutoTypeInv, AutoTypeOK
<1>1. CASE CreateStagingDir(r)
  <2>1. files' = files \cup {<<r, "dir">>} \/ files' = files
    BY <1>1 DEF CreateStagingDir
  <2>2. \A q \in Runs \ {r} : \A f : <<q, f>> \in files' <=> <<q, f>> \in files
    BY OwnFile, <2>1 DEF Staged
  <2> QED BY <1>0, <1>1, <2>2 DEF CreateStagingDir, Move, End
<1>2. CASE WriteStagingFile(r)
  <2>1. (\E g \in Staged : files' = files \cup {<<r, g>>}) \/ files' = files
    BY <1>2 DEF WriteStagingFile, Staged
  <2>2. \A q \in Runs \ {r} : \A f : <<q, f>> \in files' <=> <<q, f>> \in files
    BY OwnFile, <2>1
  <2> QED BY <1>0, <1>2, <2>2 DEF WriteStagingFile, Move, End
<1>3. ASSUME NEW what \in Staged, Fetched(r, what) PROVE Apart(r) BY <1>0, <1>3 DEF Fetched
<1>4. ASSUME NEW what \in Staged, FetchFails(r, what) PROVE Apart(r)
  BY <1>0, <1>4 DEF FetchFails, Move, End
<1>5. CASE Invoke(r)
  <2>1. \A q \in Runs \ {r} : \A f : <<q, f>> \in files' <=> <<q, f>> \in files
    BY OwnFile, <1>5 DEF Temp, Invoke
  <2> QED BY <1>0, <1>5, <2>1 DEF Invoke, Move, End
<1>6. CASE WriteOutput(r)
  BY OwnFile, <1>6 DEF WriteOutput, Temp
<1>7. CASE ChildClosed(r) BY <1>0, <1>7 DEF ChildClosed, Move, End
<1>8. CASE Timeout(r) BY <1>0, <1>8 DEF Timeout, Move, End
<1>9. ASSUME NEW code \in {"success", "failure"}, Exit(r, code) PROVE Apart(r) BY <1>0, <1>9 DEF Exit
<1>10. CASE Cleanup(r) BY <1>0, <1>10 DEF Cleanup, Move
<1>11. CASE CleanupStagingDir(r) BY <1>0, <1>11 DEF CleanupStagingDir, Move
<1> QED BY <1>1, <1>2, <1>3, <1>4, <1>5, <1>6, <1>7, <1>8, <1>9, <1>10, <1>11 DEF RunStep

\* Every step of a run keeps the types of the variables.
LEMMA AutoTypeStep ==
  ASSUME AutoInv, NEW r \in Runs, RunStep(r)
  PROVE  AutoTypeInv'
<1> USE DEF AutoInv, AutoTypeInv, AutoTypeOK
<1>0. files \subseteq Runs \X (Staged \cup Temp)
  OBVIOUS
<1>1. CASE CreateStagingDir(r)
  <2>1. files' \subseteq Runs \X (Staged \cup Temp)
    BY <1>0, <1>1, OwnFile DEF CreateStagingDir, Staged
  <2>2. fetching' \in [Runs -> SUBSET Staged]
    <3>1. {"ground-truth.json", "wiki.md"} \in SUBSET Staged
      BY DEF Staged
    <3> HIDE DEF AutoTypeOK
    <3> QED BY <1>1, <3>1 DEF CreateStagingDir
  <2> QED BY <1>1, <2>1, <2>2 DEF CreateStagingDir, Move, End
<1>2. CASE WriteStagingFile(r)
  <2>1. files' \subseteq Runs \X (Staged \cup Temp)
    BY <1>0, <1>2, OwnFile DEF WriteStagingFile, Staged
  <2> QED BY <1>2, <2>1 DEF WriteStagingFile, Move, End
<1>3. CASE \E what \in Staged : Fetched(r, what)
  <2>1. fetching' \in [Runs -> SUBSET Staged]
    BY <1>3 DEF Fetched
  <2> QED BY <1>3, <2>1 DEF Fetched
<1>4. CASE \E what \in Staged : FetchFails(r, what)
  <2>1. fetching' \in [Runs -> SUBSET Staged]
    BY <1>4 DEF FetchFails
  <2> QED BY <1>4, <2>1 DEF FetchFails, Move, End
<1>5. CASE Invoke(r)
  <2>1. files' \subseteq Runs \X (Staged \cup Temp)
    BY <1>0, <1>5, OwnFile DEF Invoke, Temp
  <2>2. phase' \in [Runs -> {"idle", "fetch", "write", "staged", "running", "clean input",
                           "clean output", "ended", "gone"}]
    BY ZenonT(40), <1>5 DEF Invoke, Move
  <2> QED  BY ZenonT(40), <1>5, <2>1, <2>2 DEF Invoke, End
<1>6. CASE WriteOutput(r)
  <2>1. files' \subseteq Runs \X (Staged \cup Temp)
    BY <1>0, <1>6, OwnFile DEF WriteOutput, Temp
  <2> QED BY <1>6, <2>1 DEF WriteOutput
<1>7. CASE ChildClosed(r) BY <1>7 DEF ChildClosed, Move, End
<1>8. CASE Timeout(r) BY <1>8 DEF Timeout, Move, End
<1>9. ASSUME NEW code \in {"success", "failure"}, Exit(r, code) PROVE AutoTypeInv'
  BY <1>9 DEF Exit
<1>10. CASE Cleanup(r) BY <1>10 DEF Cleanup, Move
<1>11. CASE CleanupStagingDir(r) BY <1>11 DEF CleanupStagingDir, Move
<1> QED BY <1>1, <1>2, <1>3, <1>4, <1>5, <1>6, <1>7, <1>8, <1>9, <1>10, <1>11 DEF RunStep

\* A step of a run keeps what is known of that run.
LEMMA OwnRun ==
  ASSUME AutoInv, NEW r \in Runs, RunStep(r)
  PROVE  RunInv(r)' /\ ResultInv(r)'
<1> USE DEF AutoInv, AutoTypeInv, AutoTypeOK, RunInv, ResultInv, Before
<1>1. CASE CreateStagingDir(r) BY <1>1 DEF CreateStagingDir, Move, End
<1>2. CASE WriteStagingFile(r) BY <1>2 DEF WriteStagingFile, Move, End
<1>3. CASE \E what \in Staged : Fetched(r, what) BY <1>3 DEF Fetched
<1>4. CASE \E what \in Staged : FetchFails(r, what) BY <1>4 DEF FetchFails, Move, End
<1>5. CASE Invoke(r) BY <1>5 DEF Invoke, Move, End, Staged
<1>6. CASE WriteOutput(r) BY <1>6 DEF WriteOutput, Staged
<1>7. CASE ChildClosed(r) BY <1>7 DEF ChildClosed, Move, End, Staged
<1>8. CASE Timeout(r) BY <1>8 DEF Timeout, Move, End
<1>9. CASE \E code \in {"success", "failure"} : Exit(r, code) BY <1>9 DEF Exit
<1>10. CASE Cleanup(r) BY <1>10 DEF Cleanup, Move, Staged
<1>11. CASE CleanupStagingDir(r) BY <1>11 DEF CleanupStagingDir, Move, Staged
<1> QED BY <1>1, <1>2, <1>3, <1>4, <1>5, <1>6, <1>7, <1>8, <1>9, <1>10, <1>11 DEF RunStep

\* The invariant of the runs that share a worker.
THEOREM AutoInductive == AutoSpec => []AutoInv
<1>1. AutoInit => AutoInv
  BY DEF AutoInit, AutoInv, AutoTypeInv, AutoTypeOK, RunInv, ResultInv, Before
<1>2. AutoInv /\ [AutoNext]_autoVars => AutoInv'
  <2> SUFFICES ASSUME AutoInv, [AutoNext]_autoVars PROVE AutoInv'
    OBVIOUS
  <2>1. ASSUME NEW r \in Runs, RunStep(r) PROVE AutoInv'
    <3>1. ASSUME NEW q \in Runs \ {r} PROVE RunInv(q)' /\ ResultInv(q)'
      <4>1. RunInv(q) /\ ResultInv(q) BY DEF AutoInv
      <4>2. Apart(r) BY <2>1, RunsApart
      <4> QED BY <4>1, <4>2 DEF RunInv, ResultInv, Apart, Staged, Temp
    <3>2. RunInv(r)' /\ ResultInv(r)' BY <2>1, OwnRun
    <3>3. \A q \in Runs : RunInv(q)' /\ ResultInv(q)' BY <3>1, <3>2
    <3> QED BY <2>1, <3>3, AutoTypeStep DEF AutoInv
  <2>2. CASE UNCHANGED autoVars
    BY <2>2 DEF autoVars, AutoInv, AutoTypeInv, AutoTypeOK, RunInv, ResultInv
  <2> QED BY <2>1, <2>2 DEF AutoNext, RunStep
<1> QED BY <1>1, <1>2, PTL DEF AutoSpec

\* A result stands for a tool that ended well on two staged inputs, however many runs share
\* the worker and however their steps interleave.
THEOREM AutolearnCorrect == AutoSpec => []AutolearnSound
<1>1. AutoInv => AutolearnSound
  BY DEF AutoInv, ResultInv, AutolearnSound, Temp
<1> QED BY <1>1, AutoInductive, PTL

-----------------------------------------------------------------------------
(* Annotations.                                                            *)

NoteSteps == Deciding \cup {"idle", "ask", "insert", "replied", "touch", "list", "done"}

Calls == [at : NoteSteps, note : Notes \cup {"none"}, thread : Threads \cup {"none"},
          reply : Replies \cup {"none"}, shown : SUBSET (Threads \cup Replies)]

NoteTypeInv ==
  /\ note \in [Notes -> {"none", "AGENT_REPLIED", "ACCEPTED", "REJECTED"}]
  /\ corrected \in [Notes -> Nat] /\ created \in [Notes -> Nat] /\ torn \in [Notes -> Nat]
  /\ thread \in [Threads -> {"none", "open", "resolved"}]
  /\ reply \in [Replies -> Threads \cup {"none"}]
  /\ touched \in [Threads -> SUBSET Replies]
  /\ noteCall \in [NoteCalls -> Calls]
  /\ \A c \in NoteCalls :
       /\ noteCall[c].at \in Deciding \cup {"ask", "insert", "replied"} => noteCall[c].note \in Notes
       /\ noteCall[c].at = "touch" => noteCall[c].thread \in Threads

OpensNote(c, n) == noteCall[c].note = n /\ noteCall[c].at \in {"ask", "insert"}

\* An annotation is on the audit trail from the request that opens it, which is alone with it
\* until the row is there; nobody decides on one that is not.
OpenedInv(n) ==
  /\ note[n] # "none" => n \in opened
  /\ \A c \in NoteCalls : OpensNote(c, n) =>
       note[n] = "none" /\ n \in opened /\ \A d \in NoteCalls : OpensNote(d, n) => d = c
  /\ note[n] = "none" => Decider(n) = {}

\* The requests whose event is recorded and whose version is not.
Writing(n) == {c \in NoteCalls : noteCall[c].note = n /\ noteCall[c].at = "write"}

RecordedInv(n) == IsFiniteSet(Writing(n)) /\ corrected[n] + Cardinality(Writing(n)) <= created[n]

\* What the one request that decides on an annotation has done to it so far.
Done(c, n) ==
  /\ noteCall[c].at \in {"accept", "write", "reject"} =>
       note[n] = "AGENT_REPLIED" /\ corrected[n] = torn[n]
  /\ noteCall[c].at = "settle" => note[n] = "AGENT_REPLIED" /\ corrected[n] = torn[n] + 1
  /\ noteCall[c].at = "accepted" => note[n] = "ACCEPTED" /\ corrected[n] = torn[n] + 1
  /\ noteCall[c].at = "rejected" => note[n] = "REJECTED" /\ corrected[n] = torn[n]

Settled(n) == corrected[n] = torn[n] + (IF note[n] = "ACCEPTED" THEN 1 ELSE 0)

DecidedInv(n) ==
  n \notin disputed =>
    /\ \A c, d \in Decider(n) : c = d
    /\ \A c \in Decider(n) : Done(c, n)
    /\ Decider(n) = {} => Settled(n)

NoteInv(n) == OpenedInv(n) /\ RecordedInv(n) /\ DecidedInv(n)

TouchInv ==
  \A t \in Threads \ untouched :
    (\A c \in NoteCalls : noteCall[c].at = "touch" => noteCall[c].thread # t) => touched[t] = Answers(t)

AnnotationsInv == NoteTypeInv /\ (\A n \in Notes : NoteInv(n)) /\ TouchInv

\* The steps of one request.
NoteStep(c) ==
  \/ \E n \in Notes : RecordOpened(c, n) \/ ReadToAccept(c, n) \/ ReadToReject(c, n)
  \/ CallAnnotationAgent(c) \/ InsertNote(c) \/ RecordOutcome(c)
  \/ RecordVersion(c) \/ InsertCorrection(c) \/ SetAccepted(c) \/ SetRejected(c)

ThreadStep(c) ==
  \/ \E t \in Threads :
       \/ CreateThread(c, t)
       \/ \E p \in Replies : InsertReply(c, t, p)
       \/ \E to \in {"open", "resolved"} : SetResolved(c, t, to)
  \/ TouchThread(c) \/ ListThreads(c) \/ ListReplies(c)

\* Moving a request to a step changes nothing else of it, and nothing of the others.
LEMMA NowAtEffect ==
  ASSUME NoteTypeInv, NEW c \in NoteCalls, NEW step \in NoteSteps, NowAt(c, step)
  PROVE  /\ noteCall' \in [NoteCalls -> Calls]
         /\ noteCall'[c].at = step /\ noteCall'[c].note = noteCall[c].note
         /\ noteCall'[c].thread = noteCall[c].thread
         /\ \A d \in NoteCalls \ {c} : noteCall'[d] = noteCall[d]
<1>1. noteCall \in [NoteCalls -> Calls] /\ noteCall[c] \in Calls
  BY DEF NoteTypeInv
<1> DEFINE m == [noteCall[c] EXCEPT !.at = step]
<1>2. m \in Calls /\ m.at = step /\ m.note = noteCall[c].note /\ m.thread = noteCall[c].thread
  BY <1>1 DEF Calls
<1>3. noteCall' = [noteCall EXCEPT ![c] = m]
  BY DEF NowAt
<1> HIDE DEF m
<1> QED BY <1>1, <1>2, <1>3

\* A request that starts is about one annotation, or one thread.
LEMMA StartEffect ==
  ASSUME NoteTypeInv, NEW c \in NoteCalls, NEW m \in Calls, noteCall' = [noteCall EXCEPT ![c] = m]
  PROVE  /\ noteCall' \in [NoteCalls -> Calls] /\ noteCall'[c] = m
         /\ \A d \in NoteCalls \ {c} : noteCall'[d] = noteCall[d]
  BY DEF NoteTypeInv

\* What a step that concerns one annotation leaves of the invariant of the others.
LEMMA OtherNotes ==
  ASSUME NEW c \in NoteCalls, NEW n \in Notes, NoteInv(n),
         \A d \in NoteCalls \ {c} : noteCall'[d] = noteCall[d],
         noteCall[c].note # n \/ noteCall[c].at \notin Deciding \cup {"ask", "insert"},
         noteCall'[c].note # n \/ noteCall'[c].at \notin Deciding \cup {"ask", "insert"},
         note'[n] = note[n], corrected'[n] = corrected[n], created'[n] = created[n], torn'[n] = torn[n],
         n \in opened' <=> n \in opened, n \in disputed' <=> n \in disputed
  PROVE  NoteInv(n)'
<1>1. Decider(n)' = Decider(n) /\ \A d \in Decider(n) : noteCall'[d] = noteCall[d]
  BY DEF Decider
<1>2. Writing(n)' = Writing(n)
  BY DEF Writing, Deciding
<1>3. \A d \in NoteCalls : OpensNote(d, n)' <=> OpensNote(d, n)
  BY DEF OpensNote
<1>4. OpenedInv(n)'
  BY <1>1, <1>3 DEF NoteInv, OpenedInv
<1>5. RecordedInv(n)'
  BY <1>2 DEF NoteInv, RecordedInv
<1>6. DecidedInv(n)'
  BY <1>1 DEF NoteInv, DecidedInv, Done, Settled
<1> QED BY <1>4, <1>5, <1>6 DEF NoteInv

\* The steps on threads leave the annotations alone.
LEMMA ThreadStepNotes ==
  ASSUME AnnotationsInv, NEW c \in NoteCalls, ThreadStep(c)
  PROVE  NoteTypeInv' /\ \A n \in Notes : NoteInv(n)'
<1>0. NoteTypeInv
  BY DEF AnnotationsInv
<1>1. NotesSame
  BY DEF ThreadStep, CreateThread, InsertReply, SetResolved, TouchThread, ListThreads, ListReplies
<1>2. /\ noteCall[c].at \in {"idle", "touch", "list"}
      /\ noteCall' \in [NoteCalls -> Calls] /\ noteCall'[c].at \in {"done", "touch", "list"}
      /\ noteCall'[c].at = "touch" => noteCall'[c].thread \in Threads
      /\ \A d \in NoteCalls \ {c} : noteCall'[d] = noteCall[d]
  <2>1. CASE NowAt(c, "done")
    <3>1. "done" \in NoteSteps BY DEF NoteSteps
    <3> QED BY <1>0, <2>1, <3>1, NowAtEffect
            DEF ThreadStep, CreateThread, InsertReply, SetResolved, TouchThread, ListThreads, ListReplies
  <2>2. CASE \E t \in Threads, p \in Replies : InsertReply(c, t, p)
    <3>1. PICK t \in Threads, p \in Replies : InsertReply(c, t, p)
      BY <2>2
    <3> DEFINE m == [Asleep EXCEPT !.at = "touch", !.thread = t, !.reply = p]
    <3>2. m \in Calls /\ m.at = "touch" /\ m.thread = t
      BY DEF Asleep, Calls, NoteSteps
    <3>3. noteCall' = [noteCall EXCEPT ![c] = m] /\ noteCall[c].at = "idle"
      BY <3>1 DEF InsertReply
    <3> HIDE DEF m
    <3> QED BY <1>0, <3>2, <3>3, StartEffect
  <2>3. CASE ListThreads(c)
    <3> DEFINE m == [Asleep EXCEPT !.at = "list", !.shown = {t \in Threads : thread[t] # "none"}]
    <3>2. m \in Calls /\ m.at = "list"
      BY DEF Asleep, Calls, NoteSteps
    <3>3. noteCall' = [noteCall EXCEPT ![c] = m] /\ noteCall[c].at = "idle"
      BY <2>3 DEF ListThreads
    <3> HIDE DEF m
    <3> QED BY <1>0, <3>2, <3>3, StartEffect
  <2>4. CASE ListReplies(c)
    <3> DEFINE m == [noteCall[c] EXCEPT !.at = "done",
                       !.shown = @ \cup UNION {Answers(t) : t \in noteCall[c].shown}]
    <3>1. noteCall[c] \in Calls
      BY <1>0 DEF NoteTypeInv
    <3>2. UNION {Answers(t) : t \in noteCall[c].shown} \subseteq Threads \cup Replies
      BY DEF Answers
    <3>3. m \in Calls /\ m.at = "done"
      BY <3>1, <3>2 DEF Calls, NoteSteps
    <3>4. noteCall' = [noteCall EXCEPT ![c] = m] /\ noteCall[c].at = "list"
      BY <2>4 DEF ListReplies
    <3> HIDE DEF m
    <3> QED BY <1>0, <3>3, <3>4, StartEffect
  <2> QED BY <2>1, <2>2, <2>3, <2>4 DEF ThreadStep, CreateThread, SetResolved, TouchThread
<1>3. /\ thread' \in [Threads -> {"none", "open", "resolved"}]
      /\ reply' \in [Replies -> Threads \cup {"none"}] /\ touched' \in [Threads -> SUBSET Replies]
  <2> USE <1>0 DEF NoteTypeInv, Answers
  <2>1. CASE \E t \in Threads : CreateThread(c, t)
    BY <2>1 DEF CreateThread
  <2>2. CASE \E t \in Threads, p \in Replies : InsertReply(c, t, p)
    BY <2>2 DEF InsertReply
  <2>3. ASSUME NEW t \in Threads, NEW to \in {"open", "resolved"}, SetResolved(c, t, to)
        PROVE  /\ thread' \in [Threads -> {"none", "open", "resolved"}]
               /\ reply' \in [Replies -> Threads \cup {"none"}] /\ touched' \in [Threads -> SUBSET Replies]
    BY <2>3 DEF SetResolved
  <2>4. CASE TouchThread(c)
    BY <2>4 DEF TouchThread
  <2>5. CASE ListThreads(c) \/ ListReplies(c)
    BY <2>5 DEF ListThreads, ListReplies, ThreadsSame
  <2> QED BY <2>1, <2>2, <2>3, <2>4, <2>5 DEF ThreadStep
<1>4. NoteTypeInv'
  BY <1>0, <1>1, <1>2, <1>3 DEF NoteTypeInv, NotesSame, Deciding
<1>5. noteCall[c].at \notin Deciding \cup {"ask", "insert"} /\ noteCall'[c].at \notin Deciding \cup {"ask", "insert"}
  BY <1>2 DEF Deciding
<1>6. ASSUME NEW n \in Notes PROVE NoteInv(n)'
  BY <1>1, <1>2, <1>5, OtherNotes DEF AnnotationsInv, NotesSame
<1> QED BY <1>4, <1>6

\* The steps on annotations keep the types, and concern one annotation each.
LEMMA NoteStepEffect ==
  ASSUME AnnotationsInv, NEW c \in NoteCalls, NoteStep(c)
  PROVE  /\ NoteTypeInv' /\ ThreadsSame
         /\ noteCall'[c].note \in Notes
         /\ noteCall[c].at # "idle" => noteCall'[c].note = noteCall[c].note
         /\ noteCall[c].at # "touch" /\ noteCall'[c].at # "touch"
         /\ \A d \in NoteCalls \ {c} : noteCall'[d] = noteCall[d]
         /\ \A n \in Notes \ {noteCall'[c].note} :
              /\ note'[n] = note[n] /\ corrected'[n] = corrected[n] /\ created'[n] = created[n]
              /\ torn'[n] = torn[n] /\ (n \in opened' <=> n \in opened) /\ (n \in disputed' <=> n \in disputed)
<1> DEFINE OthersKept == \A n \in Notes \ {noteCall'[c].note} :
              /\ note'[n] = note[n] /\ corrected'[n] = corrected[n] /\ created'[n] = created[n]
              /\ torn'[n] = torn[n] /\ (n \in opened' <=> n \in opened) /\ (n \in disputed' <=> n \in disputed)
<1> DEFINE Typed == /\ note' \in [Notes -> {"none", "AGENT_REPLIED", "ACCEPTED", "REJECTED"}]
                    /\ corrected' \in [Notes -> Nat] /\ created' \in [Notes -> Nat] /\ torn' \in [Notes -> Nat]
<1>0. NoteTypeInv
  BY DEF AnnotationsInv
<1>1. ThreadsSame
  BY DEF NoteStep, RecordOpened, ReadToAccept, ReadToReject, ReadNote, CallAnnotationAgent, InsertNote,
         RecordOutcome, RecordVersion, InsertCorrection, SetAccepted, SetRejected
<1>2. ASSUME NEW n \in Notes, RecordOpened(c, n) \/ ReadToAccept(c, n) \/ ReadToReject(c, n)
      PROVE  /\ noteCall' \in [NoteCalls -> Calls]
             /\ noteCall'[c].at \in Deciding \cup {"ask"} /\ noteCall'[c].note = n
             /\ noteCall[c].at = "idle"
             /\ \A d \in NoteCalls \ {c} : noteCall'[d] = noteCall[d]
  <2>1. PICK step \in Deciding \cup {"ask"} :
          noteCall' = [noteCall EXCEPT ![c] = [Asleep EXCEPT !.at = step, !.note = n]]
    BY <1>2 DEF RecordOpened, ReadToAccept, ReadToReject, ReadNote, Deciding
  <2> DEFINE m == [Asleep EXCEPT !.at = step, !.note = n]
  <2>2. m \in Calls /\ m.at = step /\ m.note = n
    BY DEF Asleep, Calls, NoteSteps
  <2>3. noteCall[c].at = "idle"
    BY <1>2 DEF RecordOpened, ReadToAccept, ReadToReject, ReadNote
  <2> HIDE DEF m
  <2>4. noteCall' = [noteCall EXCEPT ![c] = m]
    BY <2>1 DEF m
  <2> QED BY <1>0, <2>2, <2>3, <2>4, StartEffect
<1>3. ASSUME \/ CallAnnotationAgent(c) \/ InsertNote(c) \/ RecordOutcome(c)
             \/ RecordVersion(c) \/ InsertCorrection(c) \/ SetAccepted(c) \/ SetRejected(c)
      PROVE  /\ noteCall' \in [NoteCalls -> Calls]
             /\ noteCall'[c].at # "touch" /\ noteCall'[c].note = noteCall[c].note
             /\ noteCall[c].at \in Deciding \cup {"ask", "insert", "replied"} /\ noteCall[c].note \in Notes
             /\ \A d \in NoteCalls \ {c} : noteCall'[d] = noteCall[d]
  <2>1. PICK step \in NoteSteps : step # "touch" /\ NowAt(c, step)
    BY <1>3 DEF CallAnnotationAgent, InsertNote, RecordOutcome, RecordVersion, InsertCorrection,
                SetAccepted, SetRejected, NoteSteps, Deciding
  <2>2. noteCall[c].at \in Deciding \cup {"ask", "insert", "replied"}
    BY <1>3 DEF CallAnnotationAgent, InsertNote, RecordOutcome, RecordVersion, InsertCorrection,
                SetAccepted, SetRejected, Deciding
  <2>3. noteCall[c].note \in Notes
    BY <1>0, <2>2 DEF NoteTypeInv
  <2> QED BY <1>0, <2>1, <2>2, <2>3, NowAtEffect
<1>4. /\ noteCall' \in [NoteCalls -> Calls] /\ noteCall'[c].note \in Notes /\ noteCall'[c].at # "touch"
      /\ noteCall[c].at # "touch" /\ (noteCall[c].at # "idle" => noteCall'[c].note = noteCall[c].note)
      /\ \A d \in NoteCalls \ {c} : noteCall'[d] = noteCall[d]
  BY <1>2, <1>3 DEF NoteStep, Deciding
<1>5. \A d \in NoteCalls :
        /\ noteCall'[d].at \in Deciding \cup {"ask", "insert", "replied"} => noteCall'[d].note \in Notes
        /\ noteCall'[d].at = "touch" => noteCall'[d].thread \in Threads
  BY <1>0, <1>4 DEF NoteTypeInv
<1>6. Typed /\ OthersKept
  <2> USE <1>0 DEF NoteTypeInv
  <2>1. ASSUME NEW n \in Notes, RecordOpened(c, n) \/ ReadToAccept(c, n) \/ ReadToReject(c, n)
        PROVE  Typed /\ OthersKept
    BY <1>2, <2>1 DEF RecordOpened, ReadToAccept, ReadToReject, ReadNote
  <2>2. CASE CallAnnotationAgent(c) \/ RecordOutcome(c)
    BY <2>2 DEF CallAnnotationAgent, RecordOutcome, NotesSame
  <2>3. CASE InsertNote(c)
    BY <1>3, <2>3 DEF InsertNote
  <2>4. CASE RecordVersion(c)
    BY <1>3, <2>4 DEF RecordVersion
  <2>5. CASE InsertCorrection(c)
    BY <1>3, <2>5 DEF InsertCorrection
  <2>6. CASE SetAccepted(c)
    BY <1>3, <2>6 DEF SetAccepted
  <2>7. CASE SetRejected(c)
    BY <1>3, <2>7 DEF SetRejected
  <2> QED BY <2>1, <2>2, <2>3, <2>4, <2>5, <2>6, <2>7 DEF NoteStep
<1>7. NoteTypeInv'
  BY <1>0, <1>1, <1>4, <1>5, <1>6 DEF NoteTypeInv, ThreadsSame
<1> QED BY <1>1, <1>4, <1>6, <1>7

\* A request that moves from one step to another leaves the other requests where they are: only
\* its own place among those that open, decide or write changes.
LEMMA OwnPlace ==
  ASSUME NEW c \in NoteCalls, NEW n \in Notes,
         \A d \in NoteCalls \ {c} : noteCall'[d] = noteCall[d], noteCall'[c].note = n
  PROVE  /\ Decider(n)' = IF noteCall'[c].at \in Deciding THEN Decider(n) \cup {c} ELSE Decider(n) \ {c}
         /\ Writing(n)' = IF noteCall'[c].at = "write" THEN Writing(n) \cup {c} ELSE Writing(n) \ {c}
         /\ \A d \in NoteCalls \ {c} : OpensNote(d, n)' <=> OpensNote(d, n)
         /\ OpensNote(c, n)' <=> noteCall'[c].at \in {"ask", "insert"}
         /\ noteCall[c].note = n /\ noteCall[c].at \in Deciding => c \in Decider(n)
         /\ \A d \in NoteCalls \ {c} : noteCall'[d].at = noteCall[d].at
  BY DEF Decider, Writing, OpensNote

\* The number of requests between their event and their version, when one comes or goes.
LEMMA WritingCount ==
  ASSUME NEW n \in Notes, NEW c, RecordedInv(n), NoteTypeInv
  PROVE  /\ Cardinality(Writing(n)) \in Nat
         /\ IsFiniteSet(Writing(n) \cup {c}) /\ IsFiniteSet(Writing(n) \ {c})
         /\ c \notin Writing(n) => Cardinality(Writing(n) \cup {c}) = Cardinality(Writing(n)) + 1
         /\ c \in Writing(n) => Cardinality(Writing(n) \ {c}) = Cardinality(Writing(n)) - 1
         /\ c \notin Writing(n) => Writing(n) \ {c} = Writing(n)
<1>1. IsFiniteSet(Writing(n))
  BY DEF RecordedInv
<1> HIDE DEF Writing
<1> QED BY <1>1, FS_CardinalityType, FS_AddElement, FS_RemoveElement

\* A request that starts on an annotation, or whose annotation nobody decides on yet.
LEMMA OpenerStep ==
  ASSUME AnnotationsInv, NEW c \in NoteCalls, NEW n \in Notes, noteCall'[c].note = n,
         \A d \in NoteCalls \ {c} : noteCall'[d] = noteCall[d],
         \/ RecordOpened(c, n)
         \/ (CallAnnotationAgent(c) \/ InsertNote(c)) /\ noteCall[c].note = n
  PROVE  NoteInv(n)'
<1>0. NoteTypeInv /\ NoteInv(n)
  BY DEF AnnotationsInv
<1>1. CASE RecordOpened(c, n)
  <2>1. n \notin opened /\ noteCall[c].at = "idle" /\ noteCall'[c].at = "ask"
    <3>1. noteCall \in [NoteCalls -> Calls]
      BY <1>0 DEF NoteTypeInv
    <3> QED BY <1>1, <3>1 DEF RecordOpened, Asleep
  <2>2. /\ n \in opened' /\ note' = note /\ corrected' = corrected /\ created' = created /\ torn' = torn
        /\ disputed' = disputed
    BY <1>1 DEF RecordOpened
  <2>3. note[n] = "none" /\ Decider(n) = {} /\ \A d \in NoteCalls : ~OpensNote(d, n)
    BY <1>0, <2>1 DEF NoteInv, OpenedInv
  <2>4. Decider(n)' = {} /\ Writing(n)' = Writing(n)
    <3>1. c \notin Writing(n) /\ noteCall'[c].at # "write" /\ noteCall'[c].at \notin Deciding
      BY <2>1 DEF Writing, Deciding
    <3>2. Decider(n)' = Decider(n) \ {c}
      BY <3>1, OwnPlace
    <3>3. Writing(n)' = Writing(n) \ {c}
      BY <3>1, OwnPlace
    <3> QED BY <2>3, <3>1, <3>2, <3>3
  <2>5. OpenedInv(n)'
    BY <2>1, <2>2, <2>3, <2>4, OwnPlace DEF OpenedInv
  <2>6. RecordedInv(n)'
    BY <1>0, <2>2, <2>4 DEF NoteInv, RecordedInv
  <2>7. DecidedInv(n)'
    BY <1>0, <2>2, <2>3, <2>4 DEF NoteInv, DecidedInv, Settled
  <2> QED BY <2>5, <2>6, <2>7 DEF NoteInv
<1>2. CASE (CallAnnotationAgent(c) \/ InsertNote(c)) /\ noteCall[c].note = n
  <2>1. /\ noteCall[c].at \in {"ask", "insert"} /\ noteCall'[c].at \in {"insert", "replied"}
        /\ UNCHANGED <<corrected, opened, created, torn, disputed>>
        /\ noteCall'[c].at = "insert" => note' = note
        /\ noteCall'[c].at = "replied" => note' = [note EXCEPT ![n] = "AGENT_REPLIED"]
    <3>1. "insert" \in NoteSteps /\ "replied" \in NoteSteps
      BY DEF NoteSteps
    <3> QED BY <1>0, <1>2, <3>1, NowAtEffect DEF CallAnnotationAgent, InsertNote, NotesSame
  <2>2. OpensNote(c, n)
    BY <1>2, <2>1 DEF OpensNote
  <2>3. note[n] = "none" /\ n \in opened /\ Decider(n) = {} /\ \A d \in NoteCalls \ {c} : ~OpensNote(d, n)
    BY <1>0, <2>2 DEF NoteInv, OpenedInv
  <2>4. Decider(n)' = {} /\ Writing(n)' = Writing(n)
    <3>1. c \notin Writing(n) /\ noteCall'[c].at # "write" /\ noteCall'[c].at \notin Deciding
      BY <2>1 DEF Writing, Deciding
    <3>2. Decider(n)' = Decider(n) \ {c}
      BY <3>1, OwnPlace
    <3>3. Writing(n)' = Writing(n) \ {c}
      BY <3>1, OwnPlace
    <3> QED BY <2>3, <3>1, <3>2, <3>3
  <2>5. OpenedInv(n)'
    BY <2>1, <2>3, <2>4, OwnPlace DEF OpenedInv
  <2>6. RecordedInv(n)'
    BY <1>0, <2>1, <2>4 DEF NoteInv, RecordedInv
  <2>7. note'[n] \in {"none", "AGENT_REPLIED"}
    BY <1>0, <2>1, <2>3 DEF NoteTypeInv
  <2>8. DecidedInv(n)'
    BY <1>0, <2>1, <2>3, <2>4, <2>7 DEF NoteInv, DecidedInv, Settled
  <2> QED BY <2>5, <2>6, <2>8 DEF NoteInv
<1> QED BY <1>1, <1>2

\* A request that reads an annotation to decide on it: it is alone, or the annotation is disputed.
LEMMA ReadStep ==
  ASSUME AnnotationsInv, NEW c \in NoteCalls, NEW n \in Notes, noteCall'[c].note = n,
         \A d \in NoteCalls \ {c} : noteCall'[d] = noteCall[d],
         ReadToAccept(c, n) \/ ReadToReject(c, n)
  PROVE  NoteInv(n)'
<1>0. NoteTypeInv /\ NoteInv(n)
  BY DEF AnnotationsInv
<1>1. /\ noteCall[c].at = "idle" /\ note[n] = "AGENT_REPLIED" /\ noteCall'[c].at \in {"accept", "reject"}
      /\ disputed' = disputed \cup (IF Decider(n) = {} THEN {} ELSE {n})
      /\ UNCHANGED <<note, corrected, opened, created, torn>>
  <2>1. noteCall \in [NoteCalls -> Calls]
    BY <1>0 DEF NoteTypeInv
  <2> QED BY <2>1 DEF ReadToAccept, ReadToReject, ReadNote, Decidable, Asleep
<1>2. \A d \in NoteCalls : ~OpensNote(d, n)
  BY <1>0, <1>1 DEF NoteInv, OpenedInv
<1>3. Decider(n)' = Decider(n) \cup {c} /\ Writing(n)' = Writing(n)
  <2>1. c \notin Writing(n) /\ noteCall'[c].at # "write" /\ noteCall'[c].at \in Deciding
    BY <1>1 DEF Writing, Deciding
  <2>2. Decider(n)' = Decider(n) \cup {c}
    BY <2>1, OwnPlace
  <2>3. Writing(n)' = Writing(n) \ {c}
    BY <2>1, OwnPlace
  <2> QED BY <2>1, <2>2, <2>3
<1>4. OpenedInv(n)'
  BY <1>0, <1>1, <1>2, OwnPlace DEF NoteInv, OpenedInv
<1>5. RecordedInv(n)'
  BY <1>0, <1>1, <1>3 DEF NoteInv, RecordedInv
<1>6. DecidedInv(n)'
  <2>1. SUFFICES ASSUME n \notin disputed' PROVE DecidedInv(n)'
    BY DEF DecidedInv
  <2>2. Decider(n) = {} /\ n \notin disputed
    BY <1>1, <2>1
  <2>3. Settled(n)
    BY <1>0, <2>2 DEF NoteInv, DecidedInv
  <2>4. corrected[n] = torn[n]
    BY <1>0, <1>1, <2>3 DEF Settled, NoteTypeInv
  <2> QED BY <1>1, <1>3, <2>2, <2>4 DEF DecidedInv, Done
<1> QED BY <1>4, <1>5, <1>6 DEF NoteInv

\* A request that decides on an annotation, one step further, ended or stopped.
LEMMA DecideStep ==
  ASSUME AnnotationsInv, NEW c \in NoteCalls, NEW n \in Notes, noteCall'[c].note = n, noteCall[c].note = n,
         \A d \in NoteCalls \ {c} : noteCall'[d] = noteCall[d],
         \/ RecordOutcome(c) \/ RecordVersion(c) \/ InsertCorrection(c) \/ SetAccepted(c) \/ SetRejected(c)
         \/ NoteCallStops(c)
  PROVE  NoteInv(n)'
<1> DEFINE from == noteCall[c].at
           to == noteCall'[c].at
           more(w) == IF w THEN 1 ELSE 0
<1>0. NoteTypeInv /\ NoteInv(n)
  BY DEF AnnotationsInv
<1>a. corrected[n] \in Nat /\ created[n] \in Nat /\ torn[n] \in Nat
  BY <1>0 DEF NoteTypeInv
<1>1. /\ UNCHANGED <<opened, disputed>>
      /\ \/ from \in {"replied", "accepted", "rejected"} /\ to = "done"
            /\ note'[n] = note[n] /\ corrected'[n] = corrected[n] /\ created'[n] = created[n] /\ torn'[n] = torn[n]
         \/ from = "accept" /\ to = "write" /\ created'[n] = created[n] + 1
            /\ note'[n] = note[n] /\ corrected'[n] = corrected[n] /\ torn'[n] = torn[n]
         \/ from = "write" /\ to = "settle" /\ corrected'[n] = corrected[n] + 1
            /\ note'[n] = note[n] /\ created'[n] = created[n] /\ torn'[n] = torn[n]
         \/ from = "settle" /\ to = "accepted" /\ note'[n] = "ACCEPTED"
            /\ corrected'[n] = corrected[n] /\ created'[n] = created[n] /\ torn'[n] = torn[n]
         \/ from = "reject" /\ to = "rejected" /\ note'[n] = "REJECTED"
            /\ corrected'[n] = corrected[n] /\ created'[n] = created[n] /\ torn'[n] = torn[n]
         \/ from \notin {"idle", "done"} /\ to = "done" /\ torn'[n] = torn[n] + more(from = "settle")
            /\ note'[n] = note[n] /\ corrected'[n] = corrected[n] /\ created'[n] = created[n]
  <2> USE <1>0 DEF NoteTypeInv
  <2>0. {"done", "write", "settle", "accepted", "rejected"} \subseteq NoteSteps
    BY DEF NoteSteps, Deciding
  <2>1. CASE RecordOutcome(c)
    BY <2>0, <2>1, NowAtEffect DEF RecordOutcome, NotesSame
  <2>2. CASE RecordVersion(c)
    BY <2>0, <2>2, NowAtEffect DEF RecordVersion
  <2>3. CASE InsertCorrection(c)
    BY <2>0, <2>3, NowAtEffect DEF InsertCorrection
  <2>4. CASE SetAccepted(c)
    BY <2>0, <2>4, NowAtEffect DEF SetAccepted
  <2>5. CASE SetRejected(c)
    BY <2>0, <2>5, NowAtEffect DEF SetRejected
  <2>6. CASE NoteCallStops(c)
    BY <2>0, <2>6, NowAtEffect DEF NoteCallStops
  <2> QED BY <2>1, <2>2, <2>3, <2>4, <2>5, <2>6
<1>2. OpenedInv(n)'
  <2>1. ~OpensNote(c, n)'
    BY <1>1, OwnPlace
  <2>2. note'[n] # note[n] => note[n] # "none" /\ note'[n] # "none" /\ \A d \in NoteCalls : ~OpensNote(d, n)
    <3>1. note'[n] # note[n] => from \in {"settle", "reject"} /\ note'[n] # "none"
      BY <1>1
    <3>2. from \in {"settle", "reject"} => c \in Decider(n)
      BY DEF Decider, Deciding
    <3> QED BY <1>0, <3>1, <3>2 DEF NoteInv, OpenedInv
  <2>3. note'[n] = "none" => Decider(n)' = {}
    <3>1. note'[n] = "none" => Decider(n) = {}
      BY <1>0, <2>2 DEF NoteInv, OpenedInv
    <3>2. to \in Deciding => from \in Deciding
      BY <1>1 DEF Deciding
    <3>3. to \in Deciding => c \in Decider(n)
      BY <3>2, OwnPlace
    <3> QED BY <3>1, <3>3, OwnPlace
  <2>4. note[n] # "none" => n \in opened
    BY <1>0 DEF NoteInv, OpenedInv
  <2>5. ASSUME NEW d \in NoteCalls, OpensNote(d, n)'
        PROVE  note'[n] = "none" /\ n \in opened /\ \A e \in NoteCalls : OpensNote(e, n)' => e = d
    <3>1. d # c /\ OpensNote(d, n)
      BY <2>1, <2>5, OwnPlace
    <3>2. note'[n] = note[n]
      BY <2>2, <3>1
    <3> QED BY <1>0, <2>1, <3>1, <3>2, OwnPlace DEF NoteInv, OpenedInv
  <2> QED BY <1>1, <2>2, <2>3, <2>4, <2>5 DEF OpenedInv
<1>3. RecordedInv(n)'
  <2> DEFINE W == Writing(n)
  <2>1. W = Writing(n) /\ (c \in W <=> from = "write")
    BY DEF Writing
  <2>2. Writing(n)' = IF to = "write" THEN W \cup {c} ELSE W \ {c}
    BY OwnPlace
  <2>3. /\ Cardinality(W) \in Nat /\ IsFiniteSet(W \cup {c}) /\ IsFiniteSet(W \ {c})
        /\ c \notin W => Cardinality(W \cup {c}) = Cardinality(W) + 1
        /\ c \in W => Cardinality(W \ {c}) = Cardinality(W) - 1
        /\ c \notin W => W \ {c} = W
    BY <1>0, WritingCount DEF NoteInv
  <2>4. corrected[n] + Cardinality(W) <= created[n]
    BY <1>0 DEF NoteInv, RecordedInv
  <2> HIDE DEF W
  <2>5. IsFiniteSet(Writing(n)')
    BY <2>2, <2>3
  <2>6. CASE to = "write"
    <3>1. c \notin W /\ created'[n] = created[n] + 1 /\ corrected'[n] = corrected[n]
      BY <1>1, <2>1, <2>6
    <3>2. Cardinality(Writing(n)') = Cardinality(W) + 1
      BY <2>2, <2>3, <2>6, <3>1
    <3>3. corrected'[n] + Cardinality(Writing(n)') <= created'[n]
      BY <1>a, <2>3, <2>4, <3>1, <3>2
    <3> QED BY <2>5, <3>3 DEF RecordedInv
  <2>7. CASE from = "write"
    <3>1. c \in W /\ created'[n] = created[n] /\ corrected'[n] <= corrected[n] + 1 /\ to # "write" /\ corrected'[n] \in Nat
      BY <1>1, <1>a, <2>1, <2>7
    <3>2. Cardinality(Writing(n)') = Cardinality(W) - 1
      BY <2>2, <2>3, <3>1
    <3>3. corrected'[n] + Cardinality(Writing(n)') <= created'[n]
      BY <1>a, <2>3, <2>4, <3>1, <3>2
    <3> QED BY <2>5, <3>3 DEF RecordedInv
  <2>8. CASE to # "write" /\ from # "write"
    <3>1. c \notin W /\ created'[n] = created[n] /\ corrected'[n] = corrected[n]
      BY <1>1, <2>1, <2>8
    <3>2. Writing(n)' = W
      BY <2>2, <2>3, <2>8, <3>1
    <3> QED BY <2>4, <2>5, <3>1, <3>2 DEF RecordedInv
  <2> QED BY <2>6, <2>7, <2>8
<1>4. DecidedInv(n)'
  <2>1. SUFFICES ASSUME n \notin disputed PROVE DecidedInv(n)'
    BY <1>1 DEF DecidedInv
  <2>2. \A d, e \in Decider(n) : d = e
    BY <1>0, <2>1 DEF NoteInv, DecidedInv
  <2>3. CASE from \in Deciding
    <3>1. Decider(n) = {c} /\ Done(c, n)
      BY <1>0, <2>1, <2>2, <2>3, OwnPlace DEF NoteInv, DecidedInv
    <3>2. CASE to \in Deciding
      <4>1. Decider(n)' = {c}
        BY <3>1, <3>2, OwnPlace
      <4>2. Done(c, n)'
        BY <1>1, <1>a, <3>1, <3>2 DEF Done, Deciding
      <4> QED BY <4>1, <4>2 DEF DecidedInv
    <3>3. CASE to \notin Deciding
      <4>1. Decider(n)' = {}
        BY <3>1, <3>3, OwnPlace
      <4>2. Settled(n)'
        BY <1>1, <1>a, <2>3, <3>1, <3>3 DEF Done, Deciding, Settled
      <4> QED BY <4>1, <4>2 DEF DecidedInv
    <3> QED BY <3>2, <3>3
  <2>4. CASE from \notin Deciding
    <3>1. to = "done" /\ note'[n] = note[n] /\ corrected'[n] = corrected[n] /\ torn'[n] = torn[n]
      BY <1>1, <1>a, <2>4 DEF Deciding
    <3>2. Decider(n)' = Decider(n)
      BY <2>4, <3>1, OwnPlace DEF Decider, Deciding
    <3>3. \A d \in Decider(n) : noteCall'[d].at = noteCall[d].at
      BY <2>4, OwnPlace DEF Decider
    <3> QED BY <1>0, <2>1, <3>1, <3>2, <3>3 DEF NoteInv, DecidedInv, Done, Settled
  <2> QED BY <2>3, <2>4
<1> QED BY <1>2, <1>3, <1>4 DEF NoteInv

\* A step on annotations keeps what is known of the one it concerns, and of the others.
LEMMA NoteStepNotes ==
  ASSUME AnnotationsInv, NEW c \in NoteCalls, NoteStep(c)
  PROVE  \A n \in Notes : NoteInv(n)'
<1>0. NoteTypeInv /\ \A n \in Notes : NoteInv(n)
  BY DEF AnnotationsInv
<1>m. PICK m \in Notes : noteCall'[c].note = m
  BY NoteStepEffect
<1>1. ASSUME NEW n \in Notes, n # m PROVE NoteInv(n)'
  <2>1. noteCall[c].note # n \/ noteCall[c].at = "idle"
    BY <1>m, <1>1, NoteStepEffect
  <2>2. "idle" \notin Deciding \cup {"ask", "insert"}
    BY DEF Deciding
  <2>3. /\ note'[n] = note[n] /\ corrected'[n] = corrected[n] /\ created'[n] = created[n] /\ torn'[n] = torn[n]
        /\ (n \in opened' <=> n \in opened) /\ (n \in disputed' <=> n \in disputed)
        /\ \A d \in NoteCalls \ {c} : noteCall'[d] = noteCall[d]
    BY <1>m, <1>1, NoteStepEffect
  <2> QED BY <1>0, <1>m, <1>1, <2>1, <2>2, <2>3, OtherNotes
<1>2. \A d \in NoteCalls \ {c} : noteCall'[d] = noteCall[d]
  BY NoteStepEffect
<1>3. noteCall[c].at # "idle" => noteCall[c].note = m
  BY <1>m, NoteStepEffect
<1>4. NoteInv(m)'
  <2>1. ASSUME NEW n \in Notes, RecordOpened(c, n) \/ ReadToAccept(c, n) \/ ReadToReject(c, n) PROVE m = n
    <3>1. noteCall \in [NoteCalls -> Calls]
      BY <1>0 DEF NoteTypeInv
    <3> QED BY <1>m, <2>1, <3>1 DEF RecordOpened, ReadToAccept, ReadToReject, ReadNote, Asleep
  <2>2. CASE \E n \in Notes : RecordOpened(c, n)
    BY <1>2, <1>m, <2>1, <2>2, OpenerStep
  <2>3. CASE \E n \in Notes : ReadToAccept(c, n) \/ ReadToReject(c, n)
    BY <1>2, <1>m, <2>1, <2>3, ReadStep
  <2>4. CASE CallAnnotationAgent(c) \/ InsertNote(c)
    <3>1. noteCall[c].at # "idle"
      BY <2>4 DEF CallAnnotationAgent, InsertNote
    <3> QED BY <1>2, <1>3, <1>m, <2>4, <3>1, OpenerStep
  <2>5. CASE RecordOutcome(c) \/ RecordVersion(c) \/ InsertCorrection(c) \/ SetAccepted(c) \/ SetRejected(c)
    <3>1. noteCall[c].at # "idle"
      BY <2>5 DEF RecordOutcome, RecordVersion, InsertCorrection, SetAccepted, SetRejected
    <3> QED BY <1>2, <1>3, <1>m, <2>5, <3>1, DecideStep
  <2> QED BY <2>2, <2>3, <2>4, <2>5 DEF NoteStep
<1> QED BY <1>1, <1>4

\* A request that stops keeps the types and what is known of every annotation.
LEMMA StopNotes ==
  ASSUME AnnotationsInv, NEW c \in NoteCalls, NoteCallStops(c)
  PROVE  /\ NoteTypeInv' /\ \A n \in Notes : NoteInv(n)'
         /\ noteCall'[c].at = "done" /\ \A d \in NoteCalls \ {c} : noteCall'[d] = noteCall[d]
<1>0. NoteTypeInv /\ \A n \in Notes : NoteInv(n)
  BY DEF AnnotationsInv
<1>1. "done" \in NoteSteps
  BY DEF NoteSteps
<1>2. /\ noteCall' \in [NoteCalls -> Calls] /\ noteCall'[c].at = "done"
      /\ noteCall'[c].note = noteCall[c].note /\ \A d \in NoteCalls \ {c} : noteCall'[d] = noteCall[d]
  BY <1>0, <1>1, NowAtEffect DEF NoteCallStops
<1>3. /\ UNCHANGED <<note, corrected, opened, created, disputed, thread, reply, touched>>
      /\ torn' = IF noteCall[c].at = "settle" THEN [torn EXCEPT ![noteCall[c].note] = @ + 1] ELSE torn
  BY DEF NoteCallStops
<1>4. NoteTypeInv'
  <2>1. torn' \in [Notes -> Nat]
    <3>1. torn \in [Notes -> Nat]
      BY <1>0 DEF NoteTypeInv
    <3>2. CASE noteCall[c].at = "settle"
      <4>1. noteCall[c].note \in Notes
        BY <1>0, <3>2 DEF NoteTypeInv, Deciding
      <4> QED BY <1>3, <3>1, <3>2, <4>1
    <3>3. CASE noteCall[c].at # "settle"
      BY <1>3, <3>1, <3>3
    <3> QED BY <3>2, <3>3
  <2>2. "done" \notin Deciding \cup {"ask", "insert", "replied"}
    BY DEF Deciding
  <2> QED BY <1>0, <1>2, <1>3, <2>1, <2>2 DEF NoteTypeInv
<1>5. ASSUME NEW n \in Notes PROVE NoteInv(n)'
  <2>1. CASE n = noteCall[c].note
    BY <1>2, <2>1, DecideStep
  <2>2. CASE n # noteCall[c].note
    <3>1. torn'[n] = torn[n]
      BY <1>0, <1>3, <2>2 DEF NoteTypeInv
    <3> QED BY <1>0, <1>2, <1>3, <2>2, <3>1, OtherNotes
  <2> QED BY <2>1, <2>2
<1> QED BY <1>2, <1>4, <1>5

\* A thread is as new as its last reply, but while a reply is between its two statements.
LEMMA TouchStep ==
  ASSUME AnnotationsInv, NEW c \in NoteCalls, NoteStep(c) \/ ThreadStep(c) \/ NoteCallStops(c)
  PROVE  TouchInv'
<1>0. NoteTypeInv /\ TouchInv
  BY DEF AnnotationsInv
<1>1. CASE NoteStep(c)
  <2>1. /\ ThreadsSame /\ noteCall[c].at # "touch" /\ noteCall'[c].at # "touch"
        /\ \A d \in NoteCalls \ {c} : noteCall'[d] = noteCall[d]
    BY <1>1, NoteStepEffect
  <2> QED BY <1>0, <2>1 DEF ThreadsSame, TouchInv, Answers
<1>2. CASE NoteCallStops(c)
  <2>1. noteCall'[c].at = "done" /\ \A d \in NoteCalls \ {c} : noteCall'[d] = noteCall[d]
    BY <1>2, StopNotes
  <2>2. /\ UNCHANGED <<thread, reply, touched>>
        /\ untouched' = untouched \cup (IF noteCall[c].at = "touch" THEN {noteCall[c].thread} ELSE {})
    BY <1>2 DEF NoteCallStops
  <2> QED BY <1>0, <2>1, <2>2 DEF TouchInv, Answers
<1>3. CASE ThreadStep(c)
  <2>1. untouched' = untouched
    BY <1>3 DEF ThreadStep, CreateThread, InsertReply, SetResolved, TouchThread, ListThreads, ListReplies, ThreadsSame
  <2>2. ASSUME NEW t \in Threads, CreateThread(c, t) PROVE TouchInv'
    <3>1. "done" \in NoteSteps BY DEF NoteSteps
    <3>2. noteCall'[c].at = "done" /\ noteCall[c].at = "idle"
          /\ \A d \in NoteCalls \ {c} : noteCall'[d] = noteCall[d]
      BY <1>0, <2>2, <3>1, NowAtEffect DEF CreateThread
    <3> QED BY <1>0, <2>1, <2>2, <3>2 DEF CreateThread, TouchInv, Answers
  <2>3. ASSUME NEW t \in Threads, NEW p \in Replies, InsertReply(c, t, p) PROVE TouchInv'
    <3>1. noteCall \in [NoteCalls -> Calls]
      BY <1>0 DEF NoteTypeInv
    <3>2. noteCall'[c].at = "touch" /\ noteCall'[c].thread = t /\ noteCall[c].at = "idle"
          /\ \A d \in NoteCalls \ {c} : noteCall'[d] = noteCall[d]
      BY <2>3, <3>1 DEF InsertReply, Asleep
    <3>3. reply[p] = "none" /\ reply' = [reply EXCEPT ![p] = t] /\ touched' = touched
      BY <2>3 DEF InsertReply
    <3>4. \A s \in Threads \ {t} : Answers(s)' = Answers(s)
      BY <1>0, <3>3, AnnotationsAssumption DEF Answers, NoteTypeInv
    <3> QED BY <1>0, <2>1, <3>2, <3>3, <3>4 DEF TouchInv
  <2>4. ASSUME NEW t \in Threads, NEW to \in {"open", "resolved"}, SetResolved(c, t, to) PROVE TouchInv'
    <3>1. "done" \in NoteSteps BY DEF NoteSteps
    <3>2. noteCall'[c].at = "done" /\ noteCall[c].at = "idle"
          /\ \A d \in NoteCalls \ {c} : noteCall'[d] = noteCall[d]
      BY <1>0, <2>4, <3>1, NowAtEffect DEF SetResolved
    <3>3. touched' = [touched EXCEPT ![t] = Answers(t)] /\ \A s \in Threads : Answers(s)' = Answers(s)
      BY <2>4 DEF SetResolved, Answers
    <3> QED BY <1>0, <2>1, <3>2, <3>3 DEF TouchInv, NoteTypeInv
  <2>5. CASE TouchThread(c)
    <3>1. "done" \in NoteSteps BY DEF NoteSteps
    <3>2. noteCall'[c].at = "done" /\ noteCall[c].at = "touch" /\ noteCall[c].thread \in Threads
          /\ \A d \in NoteCalls \ {c} : noteCall'[d] = noteCall[d]
      BY <1>0, <2>5, <3>1, NowAtEffect DEF TouchThread, NoteTypeInv
    <3>3. touched' = [touched EXCEPT ![noteCall[c].thread] = Answers(noteCall[c].thread)]
          /\ \A s \in Threads : Answers(s)' = Answers(s)
      BY <2>5 DEF TouchThread, Answers
    <3> QED BY <1>0, <2>1, <3>2, <3>3 DEF TouchInv, NoteTypeInv
  <2>6. CASE ListThreads(c) \/ ListReplies(c)
    <3>1. noteCall \in [NoteCalls -> Calls]
      BY <1>0 DEF NoteTypeInv
    <3>2. noteCall'[c].at \in {"list", "done"} /\ noteCall[c].at \in {"idle", "list"}
          /\ \A d \in NoteCalls \ {c} : noteCall'[d] = noteCall[d]
      <4>1. CASE ListThreads(c)
        BY <3>1, <4>1 DEF ListThreads, Asleep
      <4>2. CASE ListReplies(c)
        <5> DEFINE m == [noteCall[c] EXCEPT !.at = "done",
                           !.shown = @ \cup UNION {Answers(t) : t \in noteCall[c].shown}]
        <5>1. m.at = "done"
          BY <3>1 DEF Calls
        <5>2. noteCall' = [noteCall EXCEPT ![c] = m] /\ noteCall[c].at = "list"
          BY <4>2 DEF ListReplies
        <5> HIDE DEF m
        <5> QED BY <3>1, <5>1, <5>2
      <4> QED BY <2>6, <4>1, <4>2
    <3> QED BY <1>0, <2>6, <3>2 DEF ListThreads, ListReplies, ThreadsSame, TouchInv, Answers
  <2> QED BY <1>3, <2>2, <2>3, <2>4, <2>5, <2>6 DEF ThreadStep
<1> QED BY <1>1, <1>2, <1>3

\* The invariant of the annotations and the threads, with any number of requests at once.
THEOREM AnnotationsInductive == AnnotationsSpec => []AnnotationsInv
<1>1. AnnotationsInit => AnnotationsInv
  <2> SUFFICES ASSUME AnnotationsInit PROVE AnnotationsInv
    OBVIOUS
  <2>1. Asleep \in Calls /\ Asleep.at = "idle"
    BY DEF Asleep, Calls, NoteSteps
  <2>2. \A c \in NoteCalls : noteCall[c].at = "idle"
    BY <2>1 DEF AnnotationsInit
  <2>3. NoteTypeInv
    BY <2>1, <2>2 DEF AnnotationsInit, NoteTypeInv, Deciding
  <2>4. ASSUME NEW n \in Notes PROVE NoteInv(n)
    <3>1. Decider(n) = {} /\ Writing(n) = {} /\ \A c \in NoteCalls : ~OpensNote(c, n)
      BY <2>2 DEF Decider, Deciding, Writing, OpensNote
    <3> QED BY <3>1, FS_EmptySet DEF AnnotationsInit, NoteInv, OpenedInv, RecordedInv, DecidedInv, Settled
  <2>5. TouchInv
    BY AnnotationsAssumption DEF AnnotationsInit, TouchInv, Answers
  <2> QED BY <2>3, <2>4, <2>5 DEF AnnotationsInv
<1>2. AnnotationsInv /\ [AnnotationsNext]_noteVars => AnnotationsInv'
  <2> SUFFICES ASSUME AnnotationsInv, [AnnotationsNext]_noteVars PROVE AnnotationsInv'
    OBVIOUS
  <2>1. ASSUME NEW c \in NoteCalls, NoteStep(c) PROVE AnnotationsInv'
    BY <2>1, NoteStepEffect, NoteStepNotes, TouchStep DEF AnnotationsInv
  <2>2. ASSUME NEW c \in NoteCalls, ThreadStep(c) PROVE AnnotationsInv'
    BY <2>2, ThreadStepNotes, TouchStep DEF AnnotationsInv
  <2>3. ASSUME NEW c \in NoteCalls, NoteCallStops(c) PROVE AnnotationsInv'
    BY <2>3, StopNotes, TouchStep DEF AnnotationsInv
  <2>4. CASE UNCHANGED noteVars
    <3> USE <2>4 DEF noteVars
    <3>1. NoteTypeInv'
      BY DEF AnnotationsInv, NoteTypeInv
    <3>2. ASSUME NEW n \in Notes PROVE NoteInv(n)'
      BY DEF AnnotationsInv, NoteInv, OpenedInv, RecordedInv, DecidedInv, OpensNote, Decider, Writing, Done, Settled
    <3>3. TouchInv'
      BY DEF AnnotationsInv, TouchInv, Answers
    <3> QED BY <3>1, <3>2, <3>3 DEF AnnotationsInv
  <2> QED BY <2>1, <2>2, <2>3, <2>4 DEF AnnotationsNext, NoteStep, ThreadStep
<1> QED BY <1>1, <1>2, PTL DEF AnnotationsSpec

\* What the trail does not know has not happened; an annotation that was never disputed has
\* published the versions its state says; and a thread is as new as its last reply.
THEOREM AnnotationsCorrect == AnnotationsSpec => []AnnotationsSound
<1>1. AnnotationsInv => AnnotationsSound
  <2> SUFFICES ASSUME AnnotationsInv PROVE AnnotationsSound
    OBVIOUS
  <2>1. ASSUME NEW n \in Notes
        PROVE  /\ note[n] # "none" => n \in opened
               /\ corrected[n] <= created[n]
               /\ Decider(n) = {} /\ n \notin disputed => Settled(n)
    <3>1. NoteInv(n) /\ corrected[n] \in Nat /\ created[n] \in Nat
      BY DEF AnnotationsInv, NoteTypeInv
    <3>2. Cardinality(Writing(n)) \in Nat
      BY <3>1, FS_CardinalityType DEF NoteInv, RecordedInv
    <3> QED BY <3>1, <3>2 DEF NoteInv, OpenedInv, RecordedInv, DecidedInv
  <2> QED BY <2>1 DEF AnnotationsInv, TouchInv, AnnotationsSound, Settled
<1> QED BY <1>1, AnnotationsInductive, PTL

-----------------------------------------------------------------------------
(* Sources.                                                                *)

Searches == [at : {"idle", "next", "insert", "done"}, doc : Methodologies \cup {NoMethodology},
             left : SUBSET Venues, missed : SUBSET Venues, venue : Venues \cup {"none"}, existed : BOOLEAN]

Changes == [at : {"idle", "record", "update", "done"}, row : Rows \cup {<<>>},
            was : Modes \cup {"none"}, to : Modes \cup {"none"}]

SourceTypeInv ==
  /\ SourcesTypeOK
  /\ scoped \in [Rows -> Seq(Modes \X Modes)]
  /\ discovery \in [Discoverers -> Searches]
  /\ adjusting \in [Admins -> Changes]
  /\ \A d \in Discoverers :
       /\ discovery[d].at \in {"next", "insert"} =>
            discovery[d].doc \in Methodologies /\ discovery[d].left \subseteq CatalogOf[discovery[d].doc]
       /\ discovery[d].at = "insert" => discovery[d].venue \in CatalogOf[discovery[d].doc]
  /\ \A a \in Admins : adjusting[a].at \in {"record", "update"} =>
       adjusting[a].row \in Rows /\ adjusting[a].was \in Modes /\ adjusting[a].to \in Modes

\* A registration of the row is between its question and its insertion.
Inserting(d, r) == discovery[d].at = "insert" /\ Row(d) = r

\* A row is announced as created by the one registration that found none and made it.
FirstInv(r) ==
  /\ source[r] = "none" => firsts[r] = 0
  /\ r \notin rivals =>
       /\ firsts[r] <= 1
       /\ \A d, e \in Discoverers : Inserting(d, r) /\ Inserting(e, r) => d = e
       /\ \A d \in Discoverers : Inserting(d, r) /\ ~discovery[d].existed => source[r] = "none"

\* Of the document it read, a task has registered every venue but those to come, the one it is
\* at and those it counted as errors.
SearchInv(d) ==
  discovery[d].at # "idle" /\ discovery[d].doc # NoMethodology =>
    /\ discovery[d].at = "done" => discovery[d].left = {}
    /\ \A v \in (CatalogOf[discovery[d].doc] \ discovery[d].missed) \ discovery[d].left :
         source[<<discovery[d].doc, v>>] # "none" \/ (discovery[d].at = "insert" /\ discovery[d].venue = v)

\* The trail of a row and the one request that changes its scope.
ScopeInv(r) ==
  /\ scoped[r] # <<>> => source[r] # "none"
  /\ \A a \in Adjusters(r) : source[r] # "none"
  /\ r \notin unsettled =>
       /\ \A a, b \in Adjusters(r) : a = b
       /\ \A i \in 1..Len(scoped[r]) : i > 1 => scoped[r][i][1] = scoped[r][i - 1][2]
       /\ \A a \in Adjusters(r) :
            /\ adjusting[a].at = "record" => adjusting[a].was = source[r]
            /\ adjusting[a].at = "update" => scoped[r] # <<>> /\ scoped[r][Len(scoped[r])][2] = adjusting[a].to
       /\ (\A a \in Adjusters(r) : adjusting[a].at = "record") /\ scoped[r] # <<>> =>
            source[r] = scoped[r][Len(scoped[r])][2]

SourcesInv ==
  /\ SourceTypeInv
  /\ \A r \in Rows : FirstInv(r) /\ ScopeInv(r)
  /\ \A d \in Discoverers : SearchInv(d)

\* The steps of a discovery task, and of a request for a scope.
DiscoveryStep(d) ==
  \/ FetchActiveMethodology(d) \/ RegistrationFails(d) \/ DiscoveryEnds(d) \/ DiscovererDies(d)
  \/ \E v \in Venues : LookForSource(d, v)
  \/ RegisterCanonicalSource(d, "public")

ScopeStep(a) ==
  \/ \E r \in Rows, to \in {"undeclared", "api_key"} : ReadScope(a, r, to)
  \/ RecordScope(a) \/ UpdateSourceScope(a) \/ ScopeStops(a)

\* A row is a document and a venue of its catalog.
LEMMA RowIn ==
  ASSUME NEW m \in Methodologies, NEW v \in CatalogOf[m]
  PROVE  <<m, v>> \in Rows /\ v \in Venues
<1>1. v \in Venues
  BY SourcesAssumption
<1> QED BY <1>1 DEF Rows

\* What a step of a discovery task does to it: the record it leaves.
LEMMA DiscoveryEffect ==
  ASSUME SourceTypeInv, NEW d \in Discoverers, DiscoveryStep(d)
  PROVE  /\ discovery' \in [Discoverers -> Searches] /\ SameScope /\ methodology' = methodology
         /\ \A e \in Discoverers \ {d} : discovery'[e] = discovery[e]
         /\ \/ /\ discovery'[d].at \in {"idle", "done"} /\ discovery'[d].doc = NoMethodology
               /\ UNCHANGED <<source, firsts, rivals>>
            \/ /\ discovery[d].at = "idle" /\ discovery'[d].at = "next" /\ discovery'[d].doc \in Methodologies
               /\ discovery'[d].left = CatalogOf[discovery'[d].doc] /\ UNCHANGED <<source, firsts, rivals>>
            \/ /\ discovery[d].at = "insert" /\ discovery'[d].at = "next"
               /\ discovery'[d].doc = discovery[d].doc /\ discovery'[d].left = discovery[d].left
               /\ \/ /\ discovery'[d].missed = discovery[d].missed \cup {discovery[d].venue}
                     /\ UNCHANGED <<source, firsts, rivals>>
                  \/ /\ discovery'[d].missed = discovery[d].missed
                     /\ RegisterCanonicalSource(d, "public")
            \/ /\ discovery[d].at = "next" /\ discovery'[d].at = "done"
               /\ discovery'[d].doc = discovery[d].doc /\ discovery'[d].left = {} /\ discovery[d].left = {}
               /\ discovery'[d].missed = discovery[d].missed /\ UNCHANGED <<source, firsts, rivals>>
            \/ /\ discovery[d].at = "next" /\ discovery'[d].at = "insert"
               /\ discovery'[d].doc = discovery[d].doc /\ discovery'[d].missed = discovery[d].missed
               /\ discovery'[d].venue \in discovery[d].left
               /\ discovery'[d].left = discovery[d].left \ {discovery'[d].venue}
               /\ discovery'[d].existed = (source[<<discovery[d].doc, discovery'[d].venue>>] # "none")
               /\ rivals' = rivals \cup {Row(e) : e \in {x \in Discoverers \ {d} : discovery[x].at = "insert"
                                           /\ Row(x) = <<discovery[d].doc, discovery'[d].venue>>}}
               /\ UNCHANGED <<source, firsts>>
<1>0. discovery \in [Discoverers -> Searches] /\ discovery[d] \in Searches
  BY DEF SourceTypeInv
<1>a. ASSUME NEW m \in Searches, discovery' = [discovery EXCEPT ![d] = m]
      PROVE  /\ discovery' \in [Discoverers -> Searches] /\ discovery'[d] = m
             /\ \A e \in Discoverers \ {d} : discovery'[e] = discovery[e]
  BY <1>0, <1>a
<1>b. NoSearch \in Searches
  BY DEF NoSearch, Searches
<1>1. CASE FetchActiveMethodology(d)
  <2>1. PICK m \in {methodology, NoMethodology} :
          discovery' = [discovery EXCEPT ![d] =
            IF m = NoMethodology THEN [NoSearch EXCEPT !.at = "done"]
            ELSE [NoSearch EXCEPT !.at = "next", !.doc = m, !.left = CatalogOf[m]]]
    BY <1>1 DEF FetchActiveMethodology
  <2>2. m \in Methodologies \cup {NoMethodology}
    BY DEF SourceTypeInv, SourcesTypeOK
  <2>3. discovery[d].at = "idle" /\ SameScope /\ UNCHANGED <<methodology, source, firsts, rivals>>
    BY <1>1 DEF FetchActiveMethodology
  <2>4. CASE m = NoMethodology
    <3> DEFINE s == [NoSearch EXCEPT !.at = "done"]
    <3>1. s \in Searches /\ s.at = "done" /\ s.doc = NoMethodology
      BY DEF NoSearch, Searches
    <3>2. discovery' = [discovery EXCEPT ![d] = s]
      BY <2>1, <2>4
    <3> HIDE DEF s
    <3> QED BY <1>a, <2>3, <3>1, <3>2
  <2>5. CASE m # NoMethodology
    <3> DEFINE s == [NoSearch EXCEPT !.at = "next", !.doc = m, !.left = CatalogOf[m]]
    <3>1. m \in Methodologies /\ CatalogOf[m] \in SUBSET Venues
      BY <2>2, <2>5, SourcesAssumption
    <3>2. s \in Searches /\ s.at = "next" /\ s.doc = m /\ s.left = CatalogOf[m]
      BY <3>1 DEF NoSearch, Searches
    <3>3. discovery' = [discovery EXCEPT ![d] = s]
      BY <2>1, <2>5
    <3> HIDE DEF s
    <3> QED BY <1>a, <2>3, <3>1, <3>2, <3>3
  <2> QED BY <2>4, <2>5
<1>2. CASE RegistrationFails(d)
  <2> DEFINE s == [discovery[d] EXCEPT !.at = "next", !.missed = @ \cup {discovery[d].venue},
                                       !.venue = "none", !.existed = FALSE]
  <2>1. discovery[d].at = "insert" /\ discovery' = [discovery EXCEPT ![d] = s]
        /\ SameScope /\ UNCHANGED <<methodology, source, firsts, rivals>>
    BY <1>2 DEF RegistrationFails
  <2>2. discovery[d].venue \in Venues
    BY <2>1, RowIn DEF SourceTypeInv
  <2>3. s \in Searches /\ s.at = "next" /\ s.doc = discovery[d].doc /\ s.left = discovery[d].left
        /\ s.missed = discovery[d].missed \cup {discovery[d].venue}
    BY <1>0, <2>2 DEF Searches
  <2> HIDE DEF s
  <2> QED BY <1>a, <2>1, <2>3
<1>3. CASE DiscoveryEnds(d)
  <2> DEFINE s == [discovery[d] EXCEPT !.at = "done"]
  <2>1. discovery[d].at = "next" /\ discovery[d].left = {} /\ discovery' = [discovery EXCEPT ![d] = s]
        /\ SameScope /\ UNCHANGED <<methodology, source, firsts, rivals>>
    BY <1>3 DEF DiscoveryEnds
  <2>2. s \in Searches /\ s.at = "done" /\ s.doc = discovery[d].doc /\ s.left = discovery[d].left
        /\ s.missed = discovery[d].missed
    BY <1>0 DEF Searches
  <2> HIDE DEF s
  <2> QED BY <1>a, <2>1, <2>2
<1>4. CASE DiscovererDies(d)
  BY <1>a, <1>b, <1>4 DEF DiscovererDies, NoSearch
<1>5. ASSUME NEW v \in Venues, LookForSource(d, v)
      PROVE  /\ discovery' \in [Discoverers -> Searches] /\ SameScope /\ methodology' = methodology
             /\ \A e \in Discoverers \ {d} : discovery'[e] = discovery[e]
             /\ discovery[d].at = "next" /\ discovery'[d].at = "insert"
             /\ discovery'[d].doc = discovery[d].doc /\ discovery'[d].missed = discovery[d].missed
             /\ discovery'[d].venue = v /\ v \in discovery[d].left
             /\ discovery'[d].left = discovery[d].left \ {v}
             /\ discovery'[d].existed = (source[<<discovery[d].doc, v>>] # "none")
             /\ rivals' = rivals \cup {Row(e) : e \in {x \in Discoverers \ {d} : discovery[x].at = "insert"
                                           /\ Row(x) = <<discovery[d].doc, v>>}}
             /\ UNCHANGED <<source, firsts>>
  <2> DEFINE was == (source[<<discovery[d].doc, v>>] # "none")
             s == [discovery[d] EXCEPT !.at = "insert", !.venue = v, !.left = @ \ {v}, !.existed = was]
  <2>1. discovery[d].at = "next" /\ v \in discovery[d].left /\ discovery' = [discovery EXCEPT ![d] = s]
        /\ SameScope /\ UNCHANGED <<methodology, source, firsts>>
        /\ rivals' = rivals \cup {Row(e) : e \in {x \in Discoverers \ {d} : discovery[x].at = "insert"
                                           /\ Row(x) = <<discovery[d].doc, v>>}}
    BY <1>5 DEF LookForSource
  <2>2. was \in BOOLEAN
    OBVIOUS
  <2> HIDE DEF was
  <2>3. s \in Searches /\ s.at = "insert" /\ s.doc = discovery[d].doc /\ s.left = discovery[d].left \ {v}
        /\ s.missed = discovery[d].missed /\ s.venue = v /\ s.existed = was
    BY <1>0, <2>2 DEF Searches
  <2> HIDE DEF s
  <2>4. /\ discovery' \in [Discoverers -> Searches] /\ discovery'[d] = s
        /\ \A e \in Discoverers \ {d} : discovery'[e] = discovery[e]
    BY <1>a, <2>1, <2>3
  <2>5. discovery'[d].existed = (source[<<discovery[d].doc, v>>] # "none")
    BY <2>3, <2>4 DEF was
  <2> QED BY <2>1, <2>3, <2>4, <2>5
<1>6. CASE RegisterCanonicalSource(d, "public")
  <2> DEFINE s == [discovery[d] EXCEPT !.at = "next", !.venue = "none", !.existed = FALSE]
  <2>1. discovery[d].at = "insert" /\ discovery' = [discovery EXCEPT ![d] = s]
        /\ SameScope /\ UNCHANGED <<methodology, rivals>>
    BY <1>6 DEF RegisterCanonicalSource
  <2>2. s \in Searches /\ s.at = "next" /\ s.doc = discovery[d].doc /\ s.left = discovery[d].left
        /\ s.missed = discovery[d].missed
    BY <1>0 DEF Searches
  <2> HIDE DEF s
  <2> QED BY <1>a, <1>6, <2>1, <2>2
<1> QED BY <1>1, <1>2, <1>3, <1>4, <1>5, <1>6 DEF DiscoveryStep

\* Registering a venue makes its row public when there was none, and keeps the scope otherwise.
LEMMA RegisterEffect ==
  ASSUME SourceTypeInv, NEW d \in Discoverers, RegisterCanonicalSource(d, "public")
  PROVE  /\ Row(d) \in Rows
         /\ source' \in [Rows -> Modes \cup {"none"}] /\ firsts' \in [Rows -> Nat]
         /\ \A r \in Rows \ {Row(d)} : source'[r] = source[r] /\ firsts'[r] = firsts[r]
         /\ source'[Row(d)] = (IF source[Row(d)] = "none" THEN "public" ELSE source[Row(d)])
         /\ firsts'[Row(d)] = (IF discovery[d].existed THEN firsts[Row(d)] ELSE firsts[Row(d)] + 1)
         /\ rivals' = rivals
<1>1. Row(d) \in Rows
  BY RowIn DEF RegisterCanonicalSource, SourceTypeInv, Row
<1>2. PICK r \in Rows : r = Row(d)
  BY <1>1
<1>3. /\ source' = [source EXCEPT ![r] = IF source[r] = "none" THEN "public" ELSE source[r]]
      /\ firsts' = [firsts EXCEPT ![r] = @ + (IF discovery[d].existed THEN 0 ELSE 1)] /\ rivals' = rivals
  BY <1>2 DEF RegisterCanonicalSource, RegisterMode
<1>4. source \in [Rows -> Modes \cup {"none"}] /\ firsts \in [Rows -> Nat] /\ "public" \in Modes
  BY DEF SourceTypeInv, SourcesTypeOK, Modes
<1>5. (IF source[r] = "none" THEN "public" ELSE source[r]) \in Modes \cup {"none"}
  BY <1>4
<1>6. source' \in [Rows -> Modes \cup {"none"}]
  BY <1>3, <1>4, <1>5
<1>7. firsts' \in [Rows -> Nat] /\ firsts'[r] = (IF discovery[d].existed THEN firsts[r] ELSE firsts[r] + 1)
  BY <1>3, <1>4
<1> QED BY <1>2, <1>3, <1>4, <1>6, <1>7

\* No row that is there goes away, and a task makes one only where there was none.
LEMMA DiscoveryRows ==
  ASSUME SourceTypeInv, NEW d \in Discoverers, DiscoveryStep(d)
  PROVE  /\ source' \in [Rows -> Modes \cup {"none"}] /\ firsts' \in [Rows -> Nat]
         /\ \A r \in Rows : source[r] # "none" => source'[r] = source[r]
<1>1. CASE UNCHANGED <<source, firsts>>
  BY <1>1 DEF SourceTypeInv, SourcesTypeOK
<1>2. CASE RegisterCanonicalSource(d, "public")
  BY <1>2, RegisterEffect
<1> QED BY <1>1, <1>2, DiscoveryEffect

\* A discovery task's step keeps the types.
LEMMA DiscoveryTypeStep ==
  ASSUME SourceTypeInv, NEW d \in Discoverers, DiscoveryStep(d)
  PROVE  SourceTypeInv'
<1>1. \A e \in Discoverers :
        /\ discovery'[e].at \in {"next", "insert"} =>
             discovery'[e].doc \in Methodologies /\ discovery'[e].left \subseteq CatalogOf[discovery'[e].doc]
        /\ discovery'[e].at = "insert" => discovery'[e].venue \in CatalogOf[discovery'[e].doc]
  <2>1. /\ discovery'[d].at \in {"next", "insert"} =>
             discovery'[d].doc \in Methodologies /\ discovery'[d].left \subseteq CatalogOf[discovery'[d].doc]
        /\ discovery'[d].at = "insert" => discovery'[d].venue \in CatalogOf[discovery'[d].doc]
    BY DiscoveryEffect DEF SourceTypeInv
  <2> QED BY <2>1, DiscoveryEffect DEF SourceTypeInv
<1>2. SameScope /\ methodology' = methodology /\ discovery' \in [Discoverers -> Searches]
  BY DiscoveryEffect
<1> QED BY <1>1, <1>2, DiscoveryRows DEF SourceTypeInv, SourcesTypeOK, SameScope

\* The row of a task that is not the one that moved is the one it was.
LEMMA RowSame ==
  ASSUME SourceTypeInv, NEW d \in Discoverers, DiscoveryStep(d), NEW e \in Discoverers, e # d, NEW r
  PROVE  Inserting(e, r)' <=> Inserting(e, r)
  BY DiscoveryEffect DEF Inserting, Row

\* A row is announced once, unless two registrations of it overlapped.
LEMMA FirstStep ==
  ASSUME SourceTypeInv, NEW d \in Discoverers, DiscoveryStep(d), NEW r \in Rows, FirstInv(r)
  PROVE  FirstInv(r)'
<1>1. \A e \in Discoverers \ {d} : discovery'[e] = discovery[e]
  BY DiscoveryEffect
<1>2. CASE discovery'[d].at # "insert" /\ UNCHANGED <<source, firsts, rivals>>
  <2>1. ~Inserting(d, r)'
    BY <1>2 DEF Inserting
  <2> QED BY <1>1, <1>2, <2>1, RowSame DEF FirstInv, Inserting
<1>3. CASE discovery'[d].at # "insert" /\ RegisterCanonicalSource(d, "public")
  <2>1. ~Inserting(d, r)'
    BY <1>3 DEF Inserting
  <2>2. rivals' = rivals /\ firsts[r] \in Nat
    BY <1>3, RegisterEffect DEF SourceTypeInv, SourcesTypeOK
  <2>3. CASE r # Row(d)
    <3>1. source'[r] = source[r] /\ firsts'[r] = firsts[r]
      BY <1>3, <2>3, RegisterEffect
    <3> QED BY <1>1, <2>1, <2>2, <3>1, RowSame DEF FirstInv, Inserting
  <2>4. CASE r = Row(d)
    <3>1. /\ source'[r] = (IF source[r] = "none" THEN "public" ELSE source[r])
          /\ firsts'[r] = (IF discovery[d].existed THEN firsts[r] ELSE firsts[r] + 1)
      BY <1>3, <2>4, RegisterEffect
    <3>2. Inserting(d, r)
      BY <1>3, <2>4 DEF Inserting, RegisterCanonicalSource
    <3>3. r \notin rivals => \A e \in Discoverers : ~Inserting(e, r)'
      <4>1. ASSUME r \notin rivals, NEW e \in Discoverers, Inserting(e, r)' PROVE FALSE
        <5>1. e # d /\ Inserting(e, r)
          BY <2>1, <4>1, RowSame
        <5> QED BY <3>2, <4>1, <5>1 DEF FirstInv
      <4> QED BY <4>1
    <3>4. r \notin rivals => firsts'[r] <= 1
      BY <2>2, <3>1, <3>2 DEF FirstInv
    <3>5. source'[r] # "none"
      BY <3>1
    <3> QED BY <2>2, <3>3, <3>4, <3>5 DEF FirstInv
  <2> QED BY <2>3, <2>4
<1>4. CASE discovery[d].at = "next" /\ discovery'[d].at = "insert"
  <2>1. /\ discovery'[d].existed = (source[Row(d)'] # "none") /\ UNCHANGED <<source, firsts>>
        /\ rivals' = rivals \cup {Row(e) : e \in {x \in Discoverers \ {d} : discovery[x].at = "insert" /\ Row(x) = Row(d)'}}
    <3>1. /\ discovery'[d].doc = discovery[d].doc
          /\ discovery'[d].existed = (source[<<discovery[d].doc, discovery'[d].venue>>] # "none")
          /\ rivals' = rivals \cup {Row(e) : e \in {x \in Discoverers \ {d} : discovery[x].at = "insert"
                                      /\ Row(x) = <<discovery[d].doc, discovery'[d].venue>>}}
          /\ UNCHANGED <<source, firsts>>
      BY <1>4, DiscoveryEffect
    <3>2. Row(d)' = <<discovery[d].doc, discovery'[d].venue>>
      BY <3>1 DEF Row
    <3> QED BY <3>1, <3>2
  <2>2. CASE r # Row(d)'
    <3>1. ~Inserting(d, r)' /\ ~Inserting(d, r)
      BY <1>4, <2>2 DEF Inserting
    <3>2. r \in rivals => r \in rivals'
      BY <2>1
    <3> QED BY <1>1, <2>1, <3>1, <3>2, RowSame DEF FirstInv, Inserting
  <2>3. CASE r = Row(d)'
    <3>1. r \notin rivals' => r \notin rivals /\ \A e \in Discoverers \ {d} : ~Inserting(e, r)
      BY <2>1, <2>3 DEF Inserting
    <3>2. r \notin rivals' => \A e \in Discoverers \ {d} : ~Inserting(e, r)'
      BY <3>1, RowSame
    <3> QED BY <2>1, <2>3, <3>1, <3>2 DEF FirstInv
  <2> QED BY <2>2, <2>3
<1> QED BY <1>2, <1>3, <1>4, DiscoveryEffect

\* A task's step keeps what it and the other tasks have registered.
LEMMA SearchStep ==
  ASSUME SourceTypeInv, NEW d \in Discoverers, DiscoveryStep(d), \A e \in Discoverers : SearchInv(e)
  PROVE  \A e \in Discoverers : SearchInv(e)'
<1>0. \A r \in Rows : source[r] # "none" => source'[r] # "none"
  BY DiscoveryRows
<1>1. ASSUME NEW e \in Discoverers, e # d PROVE SearchInv(e)'
  <2>1. discovery'[e] = discovery[e]
    BY <1>1, DiscoveryEffect
  <2>2. SUFFICES ASSUME discovery[e].at # "idle", discovery[e].doc # NoMethodology PROVE SearchInv(e)'
    BY <2>1 DEF SearchInv
  <2>3. discovery[e].doc \in Methodologies
    BY <2>2 DEF SourceTypeInv, Searches
  <2>4. \A v \in CatalogOf[discovery[e].doc] : <<discovery[e].doc, v>> \in Rows
    BY <2>3, RowIn
  <2> QED BY <1>0, <2>1, <2>2, <2>4 DEF SearchInv
<1>2. SearchInv(d)'
  <2>1. SUFFICES ASSUME discovery'[d].at # "idle", discovery'[d].doc # NoMethodology PROVE SearchInv(d)'
    BY DEF SearchInv
  <2>2. discovery'[d].doc \in Methodologies
    BY <2>1, DiscoveryTypeStep DEF SourceTypeInv, Searches
  <2>3. \A v \in CatalogOf[discovery'[d].doc] : <<discovery'[d].doc, v>> \in Rows
    BY <2>2, RowIn
  <2>4. CASE discovery[d].at = "idle"
    <3>1. discovery'[d].at = "next" /\ discovery'[d].left = CatalogOf[discovery'[d].doc]
      BY <2>1, <2>4, DiscoveryEffect
    <3> QED BY <3>1 DEF SearchInv
  <2>5. CASE discovery[d].at # "idle"
    <3>1. discovery'[d].doc = discovery[d].doc
      BY <2>1, <2>5, DiscoveryEffect
    <3>2. discovery'[d].at = "done" => discovery'[d].left = {}
      BY <2>1, DiscoveryEffect
    <3>3. ASSUME NEW v \in (CatalogOf[discovery'[d].doc] \ discovery'[d].missed) \ discovery'[d].left
          PROVE  source'[<<discovery'[d].doc, v>>] # "none" \/ (discovery'[d].at = "insert" /\ discovery'[d].venue = v)
      <4> DEFINE r == <<discovery[d].doc, v>>
      <4>0. r \in Rows
        BY <2>3, <3>1
      <4>1. CASE /\ discovery[d].at = "insert" /\ discovery'[d].at = "next" /\ discovery'[d].left = discovery[d].left
                 /\ discovery'[d].missed = discovery[d].missed \cup {discovery[d].venue}
                 /\ UNCHANGED <<source, firsts, rivals>>
        BY <2>1, <2>5, <3>1, <3>3, <4>1 DEF SearchInv
      <4>2. CASE /\ discovery[d].at = "insert" /\ discovery'[d].at = "next" /\ discovery'[d].left = discovery[d].left
                 /\ discovery'[d].missed = discovery[d].missed /\ RegisterCanonicalSource(d, "public")
        <5>1. source[r] # "none" \/ discovery[d].venue = v
          BY <2>1, <2>5, <3>1, <3>3, <4>2 DEF SearchInv
        <5>2. source'[Row(d)] # "none"
          BY <4>2, RegisterEffect
        <5>3. source[r] # "none" => source'[r] # "none"
          BY <1>0, <4>0
        <5> QED BY <3>1, <5>1, <5>2, <5>3 DEF Row
      <4>3. CASE /\ discovery[d].at = "next" /\ discovery'[d].at = "done" /\ discovery'[d].left = discovery[d].left
                 /\ discovery'[d].missed = discovery[d].missed /\ UNCHANGED <<source, firsts, rivals>>
        BY <2>1, <2>5, <3>1, <3>3, <4>3 DEF SearchInv
      <4>4. CASE /\ discovery[d].at = "next" /\ discovery'[d].at = "insert" /\ discovery'[d].missed = discovery[d].missed
                 /\ discovery'[d].left = discovery[d].left \ {discovery'[d].venue} /\ UNCHANGED <<source, firsts>>
        BY <2>1, <2>5, <3>1, <3>3, <4>4 DEF SearchInv
      <4> QED BY <2>1, <2>5, <3>1, <4>1, <4>2, <4>3, <4>4, DiscoveryEffect
    <3> QED BY <3>2, <3>3 DEF SearchInv
  <2> QED BY <2>4, <2>5
<1> QED BY <1>1, <1>2

\* A task's step leaves the trail of a row and the scope in force where they were.
LEMMA DiscoveryScopes ==
  ASSUME SourceTypeInv, NEW d \in Discoverers, DiscoveryStep(d), NEW r \in Rows, ScopeInv(r)
  PROVE  ScopeInv(r)'
<1>1. SameScope
  BY DiscoveryEffect
<1>2. Adjusters(r)' = Adjusters(r)
  BY <1>1 DEF SameScope, Adjusters
<1>3. CASE source[r] = "none"
  <2>1. scoped[r] = <<>> /\ Adjusters(r) = {}
    BY <1>3 DEF ScopeInv
  <2>2. scoped'[r] = <<>> /\ Adjusters(r)' = {} /\ Len(<<>>) = 0
    BY <1>1, <1>2, <2>1 DEF SameScope
  <2> QED BY <2>2 DEF ScopeInv
<1>4. CASE source[r] # "none"
  <2>1. source'[r] = source[r]
    BY <1>4, DiscoveryRows
  <2> QED BY <1>1, <1>2, <2>1 DEF ScopeInv, SameScope
<1> QED BY <1>3, <1>4

\* A request for a scope: what it reads, records and writes, all of one row.
LEMMA ScopeEffect ==
  ASSUME SourceTypeInv, NEW a \in Admins, ScopeStep(a)
  PROVE  /\ SameSearch /\ adjusting' \in [Admins -> Changes]
         /\ \A b \in Admins \ {a} : adjusting'[b] = adjusting[b]
         /\ \/ \E r \in Rows, to \in Modes :
                 /\ adjusting[a].at = "idle" /\ source[r] # "none"
                 /\ adjusting'[a] = [at |-> "record", row |-> r, was |-> source[r], to |-> to]
                 /\ unsettled' = unsettled \cup (IF Adjusters(r) = {} THEN {} ELSE {r})
                 /\ UNCHANGED <<source, scoped>>
            \/ /\ adjusting[a].at = "record" /\ adjusting'[a].at = "update" /\ adjusting'[a].row = adjusting[a].row
               /\ adjusting'[a].was = adjusting[a].was /\ adjusting'[a].to = adjusting[a].to
               /\ scoped' = [scoped EXCEPT ![adjusting[a].row] = Append(@, <<adjusting[a].was, adjusting[a].to>>)]
               /\ UNCHANGED <<source, unsettled>>
            \/ /\ adjusting[a].at = "update" /\ adjusting'[a].at = "done"
               /\ source' = [source EXCEPT ![adjusting[a].row] = adjusting[a].to]
               /\ UNCHANGED <<scoped, unsettled>>
            \/ /\ adjusting[a].at \in {"record", "update"} /\ adjusting'[a].at = "done"
               /\ unsettled' = IF adjusting[a].at = "update" THEN unsettled \cup {adjusting[a].row} ELSE unsettled
               /\ UNCHANGED <<source, scoped>>
<1>0. adjusting \in [Admins -> Changes] /\ adjusting[a] \in Changes
  BY DEF SourceTypeInv
<1>a. ASSUME NEW m \in Changes, adjusting' = [adjusting EXCEPT ![a] = m]
      PROVE  /\ adjusting' \in [Admins -> Changes] /\ adjusting'[a] = m
             /\ \A b \in Admins \ {a} : adjusting'[b] = adjusting[b]
  BY <1>0, <1>a
<1>1. ASSUME NEW r \in Rows, NEW t \in {"undeclared", "api_key"}, ReadScope(a, r, t)
      PROVE  \E to \in Modes :
               /\ SameSearch /\ adjusting' \in [Admins -> Changes]
               /\ \A b \in Admins \ {a} : adjusting'[b] = adjusting[b]
               /\ adjusting[a].at = "idle" /\ source[r] # "none"
               /\ adjusting'[a] = [at |-> "record", row |-> r, was |-> source[r], to |-> to]
               /\ unsettled' = unsettled \cup (IF Adjusters(r) = {} THEN {} ELSE {r})
               /\ UNCHANGED <<source, scoped>>
  <2>1. /\ SameSearch /\ adjusting[a].at = "idle" /\ source[r] # "none" /\ UNCHANGED <<source, scoped>>
        /\ unsettled' = unsettled \cup (IF Adjusters(r) = {} THEN {} ELSE {r})
        /\ adjusting' = [adjusting EXCEPT ![a] = [at |-> "record", row |-> r, was |-> source[r],
                                                 to |-> IF t = "undeclared" THEN source[r] ELSE t]]
    BY <1>1 DEF ReadScope
  <2>2. source[r] \in Modes
    BY <2>1 DEF SourceTypeInv, SourcesTypeOK
  <2>3. PICK to \in Modes : to = IF t = "undeclared" THEN source[r] ELSE t
    BY <2>2 DEF Modes
  <2>4. [at |-> "record", row |-> r, was |-> source[r], to |-> to] \in Changes
    BY <2>2, <2>3 DEF Changes
  <2>5. adjusting' = [adjusting EXCEPT ![a] = [at |-> "record", row |-> r, was |-> source[r], to |-> to]]
    BY <2>1, <2>3
  <2>6. /\ adjusting' \in [Admins -> Changes]
        /\ adjusting'[a] = [at |-> "record", row |-> r, was |-> source[r], to |-> to]
        /\ \A b \in Admins \ {a} : adjusting'[b] = adjusting[b]
    BY <1>a, <2>4, <2>5
  <2> QED BY <2>1, <2>6
<1>2. CASE RecordScope(a)
  <2> DEFINE m == [adjusting[a] EXCEPT !.at = "update"]
  <2>1. m \in Changes /\ m.at = "update" /\ m.row = adjusting[a].row /\ m.was = adjusting[a].was /\ m.to = adjusting[a].to
    BY <1>0 DEF Changes
  <2>2. adjusting' = [adjusting EXCEPT ![a] = m]
    BY <1>2 DEF RecordScope
  <2> HIDE DEF m
  <2>3. /\ adjusting' \in [Admins -> Changes] /\ adjusting'[a] = m
        /\ \A b \in Admins \ {a} : adjusting'[b] = adjusting[b]
    BY <1>a, <2>1, <2>2
  <2> QED BY <1>2, <2>1, <2>3 DEF RecordScope
<1>3. CASE UpdateSourceScope(a) \/ ScopeStops(a)
  <2> DEFINE m == [NoChange EXCEPT !.at = "done"]
  <2>1. m \in Changes /\ m.at = "done"
    BY DEF NoChange, Changes
  <2>2. adjusting' = [adjusting EXCEPT ![a] = m]
    BY <1>3 DEF UpdateSourceScope, ScopeStops
  <2> HIDE DEF m
  <2>3. /\ adjusting' \in [Admins -> Changes] /\ adjusting'[a] = m
        /\ \A b \in Admins \ {a} : adjusting'[b] = adjusting[b]
    BY <1>a, <2>1, <2>2
  <2> QED BY <1>3, <2>1, <2>3 DEF UpdateSourceScope, ScopeStops
<1> QED BY <1>1, <1>2, <1>3 DEF ScopeStep

\* A request for a scope keeps the types.
LEMMA ScopeTypeStep ==
  ASSUME SourceTypeInv, NEW a \in Admins, ScopeStep(a)
  PROVE  /\ SourceTypeInv'
         /\ \A r \in Rows : source[r] # "none" => source'[r] # "none"
         /\ \A r \in Rows : source'[r] = source[r] \/ a \in Adjusters(r)
<1>1. /\ source' \in [Rows -> Modes \cup {"none"}] /\ scoped' \in [Rows -> Seq(Modes \X Modes)]
      /\ \A r \in Rows : (adjusting[a].at = "update" /\ r = adjusting[a].row) \/ source'[r] = source[r]
      /\ \A r \in Rows : source'[r] = source[r] \/ source'[r] \in Modes
  <2>1. source \in [Rows -> Modes \cup {"none"}] /\ scoped \in [Rows -> Seq(Modes \X Modes)]
    BY DEF SourceTypeInv, SourcesTypeOK
  <2>2. CASE UNCHANGED <<source, scoped>>
    BY <2>1, <2>2
  <2>3. CASE adjusting[a].at = "record" /\ UNCHANGED source /\
             scoped' = [scoped EXCEPT ![adjusting[a].row] = Append(@, <<adjusting[a].was, adjusting[a].to>>)]
    <3>1. adjusting[a].row \in Rows /\ adjusting[a].was \in Modes /\ adjusting[a].to \in Modes
      BY <2>3 DEF SourceTypeInv
    <3>2. Append(scoped[adjusting[a].row], <<adjusting[a].was, adjusting[a].to>>) \in Seq(Modes \X Modes)
      BY <2>1, <3>1
    <3> QED BY <2>1, <2>3, <3>2
  <2>4. CASE adjusting[a].at = "update" /\ UNCHANGED scoped /\
             source' = [source EXCEPT ![adjusting[a].row] = adjusting[a].to]
    <3>1. adjusting[a].row \in Rows /\ adjusting[a].to \in Modes
      BY <2>4 DEF SourceTypeInv
    <3> QED BY <2>1, <2>4, <3>1
  <2> QED BY <2>2, <2>3, <2>4, ScopeEffect
<1>2. \A b \in Admins : adjusting'[b].at \in {"record", "update"} =>
        adjusting'[b].row \in Rows /\ adjusting'[b].was \in Modes /\ adjusting'[b].to \in Modes
  <2>1. adjusting'[a].at \in {"record", "update"} =>
        adjusting'[a].row \in Rows /\ adjusting'[a].was \in Modes /\ adjusting'[a].to \in Modes
    <3>1. ASSUME NEW r \in Rows, NEW to \in Modes, source[r] # "none",
                 adjusting'[a] = [at |-> "record", row |-> r, was |-> source[r], to |-> to]
          PROVE  adjusting'[a].row \in Rows /\ adjusting'[a].was \in Modes /\ adjusting'[a].to \in Modes
      BY <3>1 DEF SourceTypeInv, SourcesTypeOK
    <3>2. ASSUME adjusting[a].at = "record", adjusting'[a].row = adjusting[a].row,
                 adjusting'[a].was = adjusting[a].was, adjusting'[a].to = adjusting[a].to
          PROVE  adjusting'[a].row \in Rows /\ adjusting'[a].was \in Modes /\ adjusting'[a].to \in Modes
      BY <3>2 DEF SourceTypeInv
    <3> QED BY <3>1, <3>2, ScopeEffect
  <2>2. ASSUME NEW b \in Admins \ {a} PROVE adjusting'[b] = adjusting[b]
    BY ScopeEffect
  <2> QED BY <2>1, <2>2 DEF SourceTypeInv
<1>3. SameSearch /\ adjusting' \in [Admins -> Changes]
  BY ScopeEffect
<1>4. \A r \in Rows : source[r] # "none" => source'[r] # "none"
  BY <1>1 DEF Modes
<1>6. \A r \in Rows : source'[r] = source[r] \/ a \in Adjusters(r)
  BY <1>1 DEF Adjusters
<1>5. SourceTypeInv'
  BY <1>1, <1>2, <1>3 DEF SourceTypeInv, SourcesTypeOK, SameSearch
<1> QED BY <1>4, <1>5, <1>6

\* A scope is changed only on a row that is there: the announcements and the tasks see nothing.
LEMMA ScopeOthers ==
  ASSUME SourcesInv, NEW a \in Admins, ScopeStep(a)
  PROVE  (\A r \in Rows : FirstInv(r)') /\ (\A d \in Discoverers : SearchInv(d)')
<1>0. SourceTypeInv /\ SameSearch
  BY ScopeEffect DEF SourcesInv
<1>1. ASSUME NEW r \in Rows PROVE source'[r] = "none" <=> source[r] = "none"
  BY <1>0, ScopeTypeStep DEF SourcesInv, ScopeInv
<1>2. ASSUME NEW r \in Rows PROVE FirstInv(r)'
  BY <1>0, <1>1 DEF SameSearch, SourcesInv, FirstInv, Inserting, Row
<1>3. ASSUME NEW d \in Discoverers PROVE SearchInv(d)'
  <2>1. SUFFICES ASSUME discovery[d].at # "idle", discovery[d].doc # NoMethodology PROVE SearchInv(d)'
    BY <1>0 DEF SearchInv, SameSearch
  <2>2. discovery[d].doc \in Methodologies
    BY <1>0, <2>1 DEF SourceTypeInv, Searches
  <2>3. \A v \in CatalogOf[discovery[d].doc] : <<discovery[d].doc, v>> \in Rows
    BY <2>2, RowIn
  <2> QED BY <1>0, <1>1, <2>1, <2>3 DEF SameSearch, SourcesInv, SearchInv
<1> QED BY <1>2, <1>3

\* The trail of a row leads to the scope in force, while one request at a time changes it and
\* none stops between its event and its statement.
LEMMA TrailStep ==
  ASSUME SourcesInv, NEW a \in Admins, ScopeStep(a), NEW r \in Rows
  PROVE  ScopeInv(r)'
<1>0. SourceTypeInv /\ ScopeInv(r)
  BY DEF SourcesInv
<1>1. \A b \in Admins \ {a} : adjusting'[b] = adjusting[b]
  BY <1>0, ScopeEffect
<1>2. Adjusters(r)' = IF adjusting'[a].at \in {"record", "update"} /\ adjusting'[a].row = r
                      THEN Adjusters(r) \cup {a} ELSE Adjusters(r) \ {a}
  BY <1>1 DEF Adjusters
<1>3. ASSUME NEW q \in Rows, NEW to \in Modes, adjusting[a].at = "idle", source[q] # "none",
             adjusting'[a] = [at |-> "record", row |-> q, was |-> source[q], to |-> to],
             unsettled' = unsettled \cup (IF Adjusters(q) = {} THEN {} ELSE {q}),
             UNCHANGED <<source, scoped>>
      PROVE  ScopeInv(r)'
  <2>1. a \notin Adjusters(r) /\ adjusting'[a].at = "record" /\ adjusting'[a].row = q /\ adjusting'[a].was = source[q]
    BY <1>3 DEF Adjusters
  <2>2. CASE r # q
    <3>1. Adjusters(r)' = Adjusters(r) /\ \A b \in Adjusters(r) : adjusting'[b] = adjusting[b]
      BY <1>1, <1>2, <2>1, <2>2 DEF Adjusters
    <3>2. r \notin unsettled' => r \notin unsettled
      BY <1>3
    <3> QED BY <1>0, <1>3, <3>1, <3>2 DEF ScopeInv
  <2>3. CASE r = q
    <3>1. Adjusters(r)' = Adjusters(r) \cup {a}
      BY <1>2, <2>1, <2>3
    <3>2. r \notin unsettled' => r \notin unsettled /\ Adjusters(r) = {}
      BY <1>3, <2>3
    <3> QED BY <1>0, <1>3, <2>1, <2>3, <3>1, <3>2 DEF ScopeInv
  <2> QED BY <2>2, <2>3
<1>4. ASSUME adjusting[a].at = "record", adjusting'[a].at = "update", adjusting'[a].row = adjusting[a].row,
             adjusting'[a].was = adjusting[a].was, adjusting'[a].to = adjusting[a].to,
             scoped' = [scoped EXCEPT ![adjusting[a].row] = Append(@, <<adjusting[a].was, adjusting[a].to>>)],
             UNCHANGED <<source, unsettled>>
      PROVE  ScopeInv(r)'
  <2>0. /\ adjusting[a].row \in Rows /\ adjusting[a].was \in Modes /\ adjusting[a].to \in Modes
        /\ scoped \in [Rows -> Seq(Modes \X Modes)]
    BY <1>0, <1>4 DEF SourceTypeInv
  <2>1. Adjusters(r)' = Adjusters(r)
    BY <1>2, <1>4 DEF Adjusters
  <2>2. CASE r # adjusting[a].row
    <3>1. \A b \in Adjusters(r) : adjusting'[b] = adjusting[b]
      BY <1>1, <2>2 DEF Adjusters
    <3>2. scoped'[r] = scoped[r]
      BY <1>4, <2>0, <2>2
    <3>3. source' = source /\ unsettled' = unsettled
      BY <1>4
    <3> QED BY <1>0, <2>1, <3>1, <3>2, <3>3 DEF ScopeInv
  <2>3. CASE r = adjusting[a].row
    <3>1. a \in Adjusters(r)
      BY <1>4, <2>3 DEF Adjusters
    <3> DEFINE e == <<adjusting[a].was, adjusting[a].to>>
               t == scoped[r]
               n == Len(t)
    <3>2. e \in Modes \X Modes /\ e[1] = adjusting[a].was /\ e[2] = adjusting[a].to
      BY <2>0
    <3>3. t \in Seq(Modes \X Modes) /\ scoped'[r] = Append(t, e)
      BY <1>4, <2>0, <2>3
    <3> HIDE DEF e, t
    <3>4. /\ n \in Nat /\ Len(scoped'[r]) = n + 1 /\ scoped'[r][n + 1] = e /\ scoped'[r] # <<>>
          /\ \A i \in 1..n : scoped'[r][i] = t[i]
      BY <3>2, <3>3
    <3>5. source[r] # "none"
      BY <1>0, <3>1 DEF ScopeInv
    <3>6. ASSUME r \notin unsettled
          PROVE  /\ \A b, c \in Adjusters(r) : b = c
                 /\ \A i \in 1..n : i > 1 => t[i][1] = t[i - 1][2]
                 /\ adjusting[a].was = source[r]
                 /\ t # <<>> => source[r] = t[n][2]
      <4>1. \A b \in Adjusters(r) : b = a
        BY <1>0, <3>1, <3>6 DEF ScopeInv
      <4>2. \A b \in Adjusters(r) : adjusting[b].at = "record"
        BY <1>4, <4>1
      <4> QED BY <1>0, <1>4, <3>1, <3>6, <4>2 DEF ScopeInv, t
    <3>7. ASSUME r \notin unsettled, NEW i \in 1..(n + 1), i > 1
          PROVE  scoped'[r][i][1] = scoped'[r][i - 1][2]
      <4>1. CASE i = n + 1
        <5>1. n \in 1..n /\ scoped'[r][i - 1] = t[n] /\ scoped'[r][i] = e /\ t # <<>>
          BY <3>3, <3>4, <3>7, <4>1
        <5> QED BY <3>2, <3>6, <3>7, <5>1
      <4>2. CASE i # n + 1
        <5>1. i \in 1..n /\ i - 1 \in 1..n
          BY <3>4, <3>7, <4>2
        <5> QED BY <3>4, <3>6, <3>7, <5>1
      <4> QED BY <4>1, <4>2
    <3>8. ASSUME r \notin unsettled, NEW b \in Adjusters(r)
          PROVE  b = a
      BY <3>1, <3>6, <3>8
    <3>9. scoped'[r][Len(scoped'[r])][2] = adjusting'[a].to
      BY <1>4, <3>2, <3>4
    <3> QED BY <1>4, <2>1, <3>1, <3>4, <3>5, <3>6, <3>7, <3>8, <3>9 DEF ScopeInv
  <2> QED BY <2>2, <2>3
<1>5. ASSUME adjusting[a].at = "update", adjusting'[a].at = "done",
             source' = [source EXCEPT ![adjusting[a].row] = adjusting[a].to],
             UNCHANGED <<scoped, unsettled>>
      PROVE  ScopeInv(r)'
  <2>0. /\ adjusting[a].row \in Rows /\ adjusting[a].to \in Modes /\ adjusting[a].to # "none"
        /\ source \in [Rows -> Modes \cup {"none"}]
    BY <1>0, <1>5 DEF SourceTypeInv, SourcesTypeOK, Modes
  <2>1. Adjusters(r)' = Adjusters(r) \ {a}
    BY <1>2, <1>5
  <2>2. \A b \in Adjusters(r)' : adjusting'[b] = adjusting[b] /\ b \in Adjusters(r)
    BY <1>1, <2>1 DEF Adjusters
  <2>3. CASE r # adjusting[a].row
    <3>1. source'[r] = source[r] /\ a \notin Adjusters(r)
      BY <1>5, <2>0, <2>3 DEF Adjusters
    <3> QED BY <1>0, <1>5, <2>1, <2>2, <3>1 DEF ScopeInv
  <2>4. CASE r = adjusting[a].row
    <3>1. source'[r] = adjusting[a].to /\ a \in Adjusters(r)
      BY <1>5, <2>0, <2>4 DEF Adjusters
    <3>2. r \notin unsettled => Adjusters(r)' = {}
      BY <1>0, <2>1, <3>1 DEF ScopeInv
    <3>3. r \notin unsettled => scoped[r] # <<>> /\ scoped[r][Len(scoped[r])][2] = adjusting[a].to
      BY <1>0, <1>5, <3>1 DEF ScopeInv
    <3> QED BY <1>0, <1>5, <2>0, <3>1, <3>2, <3>3 DEF ScopeInv
  <2> QED BY <2>3, <2>4
<1>6. ASSUME adjusting[a].at \in {"record", "update"}, adjusting'[a].at = "done",
             unsettled' = (IF adjusting[a].at = "update" THEN unsettled \cup {adjusting[a].row} ELSE unsettled),
             UNCHANGED <<source, scoped>>
      PROVE  ScopeInv(r)'
  <2>1. Adjusters(r)' = Adjusters(r) \ {a}
    BY <1>2, <1>6
  <2>2. \A b \in Adjusters(r)' : adjusting'[b] = adjusting[b] /\ b \in Adjusters(r)
    BY <1>1, <2>1 DEF Adjusters
  <2>3. r \notin unsettled' => r \notin unsettled /\ (a \in Adjusters(r) => adjusting[a].at = "record")
    BY <1>6 DEF Adjusters
  <2>4. r \notin unsettled' /\ (\A b \in Adjusters(r)' : adjusting'[b].at = "record") =>
          \A b \in Adjusters(r) : adjusting[b].at = "record"
    BY <2>1, <2>2, <2>3
  <2> QED BY <1>0, <1>6, <2>1, <2>2, <2>3, <2>4 DEF ScopeInv
<1> QED BY <1>0, <1>3, <1>4, <1>5, <1>6, ScopeEffect

\* The invariant of discovery, registration and scope.
THEOREM SourcesInductive == SourcesSpec => []SourcesInv
<1>1. SourcesInit => SourcesInv
  <2> SUFFICES ASSUME SourcesInit PROVE SourcesInv
    OBVIOUS
  <2>1. NoSearch \in Searches /\ NoChange \in Changes /\ NoSearch.at = "idle" /\ NoChange.at = "idle"
    BY DEF NoSearch, Searches, NoChange, Changes
  <2>2. /\ \A d \in Discoverers : discovery[d].at = "idle"
        /\ \A a \in Admins : adjusting[a].at = "idle"
    BY <2>1 DEF SourcesInit
  <2>3. SourceTypeInv
    BY <2>1, <2>2 DEF SourcesInit, SourceTypeInv, SourcesTypeOK
  <2>4. \A r \in Rows : Adjusters(r) = {} /\ \A d \in Discoverers : ~Inserting(d, r)
    BY <2>2 DEF Adjusters, Inserting
  <2>5. ASSUME NEW r \in Rows PROVE FirstInv(r) /\ ScopeInv(r)
    BY <2>4 DEF SourcesInit, FirstInv, ScopeInv
  <2>6. ASSUME NEW d \in Discoverers PROVE SearchInv(d)
    BY <2>2 DEF SearchInv
  <2> QED BY <2>3, <2>5, <2>6 DEF SourcesInv
<1>2. SourcesInv /\ [SourcesNext]_sourceVars => SourcesInv'
  <2> SUFFICES ASSUME SourcesInv, [SourcesNext]_sourceVars PROVE SourcesInv'
    OBVIOUS
  <2>1. ASSUME NEW m \in Methodologies, ActivateMethodology(m) PROVE SourcesInv'
    <3>1. /\ UNCHANGED <<source, firsts, scoped, discovery, adjusting, rivals, unsettled>>
          /\ methodology' \in Methodologies
      BY <2>1 DEF ActivateMethodology, SameScope
    <3>2. SourceTypeInv'
      BY <3>1 DEF SourcesInv, SourceTypeInv, SourcesTypeOK
    <3>3. ASSUME NEW r \in Rows PROVE FirstInv(r)' /\ ScopeInv(r)'
      BY <3>1 DEF SourcesInv, FirstInv, ScopeInv, Inserting, Row, Adjusters
    <3>4. ASSUME NEW d \in Discoverers PROVE SearchInv(d)'
      BY <3>1 DEF SourcesInv, SearchInv
    <3> QED BY <3>2, <3>3, <3>4 DEF SourcesInv
  <2>2. ASSUME NEW d \in Discoverers, DiscoveryStep(d) PROVE SourcesInv'
    BY <2>2, DiscoveryTypeStep, FirstStep, SearchStep, DiscoveryScopes DEF SourcesInv
  <2>3. ASSUME NEW a \in Admins, ScopeStep(a) PROVE SourcesInv'
    <3>1. SourceTypeInv'
      BY <2>3, ScopeTypeStep DEF SourcesInv
    <3> QED BY <2>3, <3>1, ScopeOthers, TrailStep DEF SourcesInv
  <2>4. CASE UNCHANGED sourceVars
    <3> USE <2>4 DEF sourceVars
    <3>2. SourceTypeInv'
      BY DEF SourcesInv, SourceTypeInv, SourcesTypeOK
    <3>3. ASSUME NEW r \in Rows PROVE FirstInv(r)' /\ ScopeInv(r)'
      BY DEF SourcesInv, FirstInv, ScopeInv, Inserting, Row, Adjusters
    <3>4. ASSUME NEW d \in Discoverers PROVE SearchInv(d)'
      BY DEF SourcesInv, SearchInv
    <3> QED BY <3>2, <3>3, <3>4 DEF SourcesInv
  <2> QED BY <2>1, <2>2, <2>3, <2>4 DEF SourcesNext, DiscoveryStep, ScopeStep
<1> QED BY <1>1, <1>2, PTL DEF SourcesSpec

\* Rows announced once, tasks that leave no venue out, and a trail that ends at the scope in
\* force, for every catalog and any number of tasks and administrators.
THEOREM SourcesCorrect == SourcesSpec => []SourcesSound
<1>1. SourcesInv => SourcesSound
  <2> SUFFICES ASSUME SourcesInv PROVE SourcesSound
    OBVIOUS
  <2>1. ASSUME NEW r \in Rows \ rivals PROVE firsts[r] <= 1 /\ (firsts[r] = 1 => source[r] # "none")
    BY DEF SourcesInv, FirstInv
  <2>2. ASSUME NEW d \in Discoverers, discovery[d].at = "done", discovery[d].doc # NoMethodology,
               NEW v \in CatalogOf[discovery[d].doc] \ discovery[d].missed
        PROVE  source[<<discovery[d].doc, v>>] # "none"
    BY <2>2 DEF SourcesInv, SearchInv
  <2>3. ASSUME NEW r \in Rows \ unsettled
        PROVE  /\ \A i \in DOMAIN scoped[r] : i > 1 => scoped[r][i][1] = scoped[r][i - 1][2]
               /\ scoped[r] # <<>> /\ Adjusters(r) = {} => source[r] = Last(scoped[r])[2]
    <3>1. ScopeInv(r) /\ scoped[r] \in Seq(Modes \X Modes)
      BY DEF SourcesInv, SourceTypeInv
    <3>2. DOMAIN scoped[r] = 1..Len(scoped[r])
      BY <3>1
    <3> QED BY <3>1, <3>2 DEF ScopeInv, Last
  <2> QED BY <2>1, <2>2, <2>3 DEF SourcesSound
<1> QED BY <1>1, SourcesInductive, PTL

-----------------------------------------------------------------------------
(* Topics.                                                                 *)

Roles == {"none", "member", "owner"}

TopicCallSet ==
  [at : {"idle", "seed", "rename", "add", "remove", "done"}, by : People \cup {NoPerson},
   topic : Topics \cup {NoTopic}, name : Names \cup {NoName}, whom : People \cup {NoPerson},
   role : Roles, was : Roles]

TopicTypeInv ==
  /\ name \in [Topics -> Names \cup {NoName}]
  /\ role \in [Topics -> [People -> Roles]]
  /\ topicCall \in [TopicCalls -> TopicCallSet]
  /\ local \in [Topics -> Names \cup {NoName}]

\* What a request between its check and its statement is about.
CallInv(c) ==
  LET call == topicCall[c] IN
  /\ call.at \in {"seed", "rename", "add", "remove"} =>
       call.topic \in Topics /\ call.by \in People /\ name[call.topic] # NoName
  /\ call.at = "rename" => call.name \in Names
  /\ call.at \in {"add", "remove"} => call.whom \in People
  /\ call.at = "add" => call.was = "owner" /\ call.role \in {"member", "owner"}
  /\ call.at = "remove" => call.whom = call.by \/ call.was = "owner"

Seeding(t) == \E c \in TopicCalls : topicCall[c].at = "seed" /\ topicCall[c].topic = t

\* Whoever belongs to a topic that nobody gave up was let in by an owner, and one is left.
OwnedInv(t) ==
  /\ t \notin given => \A u \in People : role[t][u] # "none" => \E v \in People : role[t][v] = "owner"
  /\ name[t] # NoName /\ t \notin ownerless /\ t \notin given =>
       (\E v \in People : role[t][v] = "owner") \/ Seeding(t)

HomeInv == \A r \in Placed : home[r] \in Existing \cup {NoTopic, "absent"}

ShownInv == \A t \in Topics : local[t] # NoName /\ t \notin elsewhere => local[t] = name[t]

TopicsInv ==
  /\ TopicTypeInv /\ HomeInv /\ ShownInv
  /\ \A c \in TopicCalls : CallInv(c)
  /\ \A t \in Topics : OwnedInv(t)

\* A request that begins carries what it read; the others stay as they are.
LEMMA BeginEffect ==
  ASSUME TopicTypeInv, NEW c \in TopicCalls, NEW m \in TopicCallSet, topicCall' = [topicCall EXCEPT ![c] = m]
  PROVE  /\ topicCall' \in [TopicCalls -> TopicCallSet] /\ topicCall'[c] = m
         /\ \A d \in TopicCalls \ {c} : topicCall'[d] = topicCall[d]
  BY DEF TopicTypeInv

\* A request that ends, or stops, holds nothing any more.
LEMMA FinishEffect ==
  ASSUME TopicTypeInv, NEW c \in TopicCalls, Finish(c)
  PROVE  /\ topicCall' \in [TopicCalls -> TopicCallSet] /\ topicCall'[c].at = "done"
         /\ \A d \in TopicCalls \ {c} : topicCall'[d] = topicCall[d]
<1> DEFINE m == [Resting EXCEPT !.at = "done"]
<1>1. m \in TopicCallSet /\ m.at = "done"
  BY DEF Resting, TopicCallSet, Roles
<1>2. topicCall' = [topicCall EXCEPT ![c] = m]
  BY DEF Finish
<1> HIDE DEF m
<1> QED BY <1>1, <1>2, BeginEffect

\* A topic that was let be stays: one row of the members changes, the others are the same.
LEMMA RoleEffect ==
  ASSUME TopicTypeInv, NEW t \in Topics, NEW u \in People, NEW to \in Roles,
         role' = [role EXCEPT ![t][u] = to]
  PROVE  /\ role' \in [Topics -> [People -> Roles]] /\ role'[t][u] = to
         /\ \A v \in People \ {u} : role'[t][v] = role[t][v]
         /\ \A s \in Topics \ {t} : role'[s] = role[s]
<1>1. role \in [Topics -> [People -> Roles]] /\ role[t] \in [People -> Roles]
  BY DEF TopicTypeInv
<1>2. role' = [role EXCEPT ![t] = [role[t] EXCEPT ![u] = to]]
  OBVIOUS
<1>3. [role[t] EXCEPT ![u] = to] \in [People -> Roles]
  BY <1>1
<1> QED BY <1>1, <1>2, <1>3

\* A call whose topic's name and whose own record are as they were is as it was.
LEMMA CallKept ==
  ASSUME TopicTypeInv, NEW c \in TopicCalls, CallInv(c), topicCall'[c] = topicCall[c],
         \A t \in Topics : name[t] # NoName => name'[t] # NoName
  PROVE  CallInv(c)'
  BY DEF CallInv

\* Beginning a request changes no role and no name: what is owned stays owned.
LEMMA BeginStep ==
  ASSUME TopicsInv, NEW c \in TopicCalls, NEW m \in TopicCallSet, Begin(c, m), m.at \in {"rename", "add", "remove"},
         m.topic \in Existing, m.by \in People, m.at = "rename" => m.name \in Names,
         m.at \in {"add", "remove"} => m.whom \in People,
         m.at = "add" => m.was = "owner" /\ m.role \in {"member", "owner"},
         m.at = "remove" => m.whom = m.by \/ m.was = "owner",
         UNCHANGED <<serverVars, screenVars, starts, elsewhere>>
  PROVE  TopicsInv'
<1>0. UNCHANGED <<name, role, home, ownerless, given, context, local, active, elsewhere>>
  BY DEF serverVars, screenVars
<1>1. /\ topicCall[c].at = "idle" /\ topicCall' \in [TopicCalls -> TopicCallSet] /\ topicCall'[c] = m
      /\ \A d \in TopicCalls \ {c} : topicCall'[d] = topicCall[d]
  BY BeginEffect DEF Begin, TopicsInv
<1>2. TopicTypeInv'
  BY <1>0, <1>1 DEF TopicsInv, TopicTypeInv
<1>3. ASSUME NEW d \in TopicCalls PROVE CallInv(d)'
  <2>1. CASE d = c
    BY <1>0, <1>1, <2>1 DEF CallInv, Existing
  <2>2. CASE d # c
    BY <1>0, <1>1, <2>2, CallKept DEF TopicsInv
  <2> QED BY <2>1, <2>2
<1>4. ASSUME NEW t \in Topics PROVE OwnedInv(t)'
  <2>1. Seeding(t) => Seeding(t)'
    BY <1>1 DEF Seeding
  <2> QED BY <1>0, <2>1 DEF TopicsInv, OwnedInv
<1>5. HomeInv' /\ ShownInv'
  BY <1>0 DEF TopicsInv, HomeInv, ShownInv, Existing
<1> QED BY <1>2, <1>3, <1>4, <1>5 DEF TopicsInv

\* Creating a topic: its owner is still to be seeded.
LEMMA CreateStep ==
  ASSUME TopicsInv, NEW c \in TopicCalls, NEW u \in People, NEW t \in Topics, NEW n \in Names,
         CreateResearchTopic(c, u, t, n)
  PROVE  TopicsInv'
<1> DEFINE m == [Resting EXCEPT !.at = "seed", !.by = u, !.topic = t]
<1>1. m \in TopicCallSet /\ m.at = "seed" /\ m.by = u /\ m.topic = t
  BY DEF Resting, TopicCallSet, Roles
<1>2. /\ name[t] = NoName /\ name' = [name EXCEPT ![t] = n] /\ Begin(c, m)
      /\ UNCHANGED <<role, home, ownerless, given, local, elsewhere>>
  BY DEF CreateResearchTopic, screenVars
<1> HIDE DEF m
<1>3. /\ topicCall[c].at = "idle" /\ topicCall' \in [TopicCalls -> TopicCallSet] /\ topicCall'[c] = m
      /\ \A d \in TopicCalls \ {c} : topicCall'[d] = topicCall[d]
  BY <1>1, <1>2, BeginEffect DEF Begin, TopicsInv
<1>4. /\ name' \in [Topics -> Names \cup {NoName}] /\ name'[t] = n /\ n # NoName
      /\ \A s \in Topics \ {t} : name'[s] = name[s]
  BY <1>2, TopicsAssumption DEF TopicsInv, TopicTypeInv
<1>5. TopicTypeInv'
  BY <1>2, <1>3, <1>4 DEF TopicsInv, TopicTypeInv
<1>6. ASSUME NEW d \in TopicCalls PROVE CallInv(d)'
  <2>1. CASE d = c
    BY <1>1, <1>3, <1>4, <2>1 DEF CallInv
  <2>2. CASE d # c
    BY <1>3, <1>4, <2>2, CallKept DEF TopicsInv
  <2> QED BY <2>1, <2>2
<1>7. ASSUME NEW s \in Topics PROVE OwnedInv(s)'
  <2>1. Seeding(s) => Seeding(s)'
    BY <1>3 DEF Seeding
  <2>2. Seeding(t)'
    BY <1>1, <1>3 DEF Seeding
  <2> QED BY <1>2, <1>4, <2>1, <2>2 DEF TopicsInv, OwnedInv
<1>8. HomeInv'
  BY <1>2, <1>4 DEF TopicsInv, HomeInv, Existing
<1>9. ShownInv'
  BY <1>2, <1>4 DEF TopicsInv, ShownInv
<1> QED BY <1>5, <1>6, <1>7, <1>8, <1>9 DEF TopicsInv

\* A request that ends having changed one row of the members: the topic keeps an owner, or
\* someone gave it up, or its creation stopped.
LEMMA MemberStep ==
  ASSUME TopicsInv, NEW c \in TopicCalls, Finish(c), NEW t \in Topics, t = topicCall[c].topic,
         role' \in [Topics -> [People -> Roles]], \A s \in Topics \ {t} : role'[s] = role[s],
         given \subseteq given', ownerless \subseteq ownerless',
         t \notin given' => \A u \in People : role'[t][u] # "none" => \E v \in People : role'[t][v] = "owner",
         t \notin given' /\ t \notin ownerless' =>
           \/ \E v \in People : role'[t][v] = "owner"
           \/ role'[t] = role[t] /\ topicCall[c].at # "seed",
         UNCHANGED <<name, home, local, elsewhere>>
  PROVE  TopicsInv'
<1>1. /\ topicCall' \in [TopicCalls -> TopicCallSet] /\ topicCall'[c].at = "done"
      /\ \A d \in TopicCalls \ {c} : topicCall'[d] = topicCall[d]
  BY FinishEffect DEF TopicsInv
<1>2. TopicTypeInv'
  BY <1>1 DEF TopicsInv, TopicTypeInv
<1>3. ASSUME NEW d \in TopicCalls PROVE CallInv(d)'
  <2>1. CASE d = c
    BY <1>1, <2>1 DEF CallInv
  <2>2. CASE d # c
    BY <1>1, <2>2, CallKept DEF TopicsInv
  <2> QED BY <2>1, <2>2
<1>4. ASSUME NEW s \in Topics PROVE OwnedInv(s)'
  <2>1. CASE s # t
    <3>1. Seeding(s) => Seeding(s)'
      BY <1>1, <2>1 DEF Seeding
    <3> QED BY <2>1, <3>1 DEF TopicsInv, OwnedInv
  <2>2. CASE s = t
    <3>1. topicCall[c].at # "seed" => (Seeding(t) => Seeding(t)')
      BY <1>1 DEF Seeding
    <3>2. ASSUME name[t] # NoName, t \notin ownerless', t \notin given'
          PROVE  (\E v \in People : role'[t][v] = "owner") \/ Seeding(t)'
      <4>1. t \notin ownerless /\ t \notin given
        BY <3>2
      <4>2. (\E v \in People : role[t][v] = "owner") \/ Seeding(t)
        BY <3>2, <4>1 DEF TopicsInv, OwnedInv
      <4> QED BY <3>1, <3>2, <4>2
    <3> QED BY <2>2, <3>2 DEF OwnedInv
  <2> QED BY <2>1, <2>2
<1>5. HomeInv' /\ ShownInv'
  BY DEF TopicsInv, HomeInv, ShownInv, Existing
<1> QED BY <1>2, <1>3, <1>4, <1>5 DEF TopicsInv

\* The statements on the members of a topic, and the requests that stop.
LEMMA MembersKept ==
  ASSUME TopicsInv, NEW c \in TopicCalls,
         SeedOwner(c) \/ AddTopicMember(c) \/ RemoveTopicMember(c) \/ TopicCallStops(c)
  PROVE  TopicsInv'
<1>0. TopicTypeInv /\ CallInv(c) /\ Finish(c) /\ UNCHANGED <<name, home, local, elsewhere>>
  BY DEF TopicsInv, SeedOwner, AddTopicMember, RemoveTopicMember, TopicCallStops, screenVars
<1>1. topicCall[c].at \in {"seed", "add", "remove", "rename"}
  BY <1>0 DEF SeedOwner, AddTopicMember, RemoveTopicMember, TopicCallStops, TopicTypeInv, TopicCallSet
<1>2. PICK t \in Topics, b \in People : t = topicCall[c].topic /\ b = topicCall[c].by
  BY <1>0, <1>1 DEF CallInv
<1>3. OwnedInv(t) /\ role \in [Topics -> [People -> Roles]]
  BY <1>0 DEF TopicsInv, TopicTypeInv
<1>4. CASE SeedOwner(c)
  <2>1. PICK to \in Roles : to = IF role[t][b] = "none" THEN "owner" ELSE role[t][b]
    BY <1>3 DEF Roles
  <2>2. role' = [role EXCEPT ![t][b] = to] /\ UNCHANGED <<ownerless, given>>
    BY <1>2, <1>4, <2>1 DEF SeedOwner
  <2>3. /\ role' \in [Topics -> [People -> Roles]] /\ role'[t][b] = to
        /\ \A v \in People \ {b} : role'[t][v] = role[t][v]
        /\ \A s \in Topics \ {t} : role'[s] = role[s]
    BY <1>0, <2>2, RoleEffect
  <2>4. t \notin given => \E v \in People : role'[t][v] = "owner"
    <3>1. CASE role[t][b] = "none"
      BY <2>1, <2>3, <3>1
    <3>2. ASSUME role[t][b] # "none", t \notin given PROVE \E v \in People : role'[t][v] = "owner"
      <4>1. PICK v \in People : role[t][v] = "owner"
        BY <1>3, <3>2 DEF OwnedInv
      <4> QED BY <2>1, <2>3, <3>2, <4>1
    <3> QED BY <3>1, <3>2
  <2> QED BY <1>0, <1>2, <2>2, <2>3, <2>4, MemberStep
<1>5. CASE AddTopicMember(c) \/ RemoveTopicMember(c)
  <2>1. PICK w \in People : w = topicCall[c].whom
    BY <1>0, <1>5 DEF CallInv, AddTopicMember, RemoveTopicMember
  <2>2. PICK to \in Roles :
          /\ role' = [role EXCEPT ![t][w] = to] /\ ownerless' = ownerless
          /\ \/ to = "owner" /\ given \subseteq given'
             \/ given' = given \cup (IF Gives(topicCall[c]) THEN {t} ELSE {})
    <3>1. CASE AddTopicMember(c)
      <4>1. /\ role' = [role EXCEPT ![t][w] = topicCall[c].role] /\ ownerless' = ownerless
            /\ topicCall[c].role \in {"member", "owner"}
            /\ given' = given \cup (IF topicCall[c].role = "member" /\ Gives(topicCall[c]) THEN {t} ELSE {})
        BY <1>0, <1>2, <2>1, <3>1 DEF AddTopicMember, CallInv
      <4> QED BY <4>1 DEF Roles
    <3>2. CASE RemoveTopicMember(c)
      BY <1>2, <2>1, <3>2 DEF RemoveTopicMember, Roles
    <3> QED BY <1>5, <3>1, <3>2
  <2>3. /\ role' \in [Topics -> [People -> Roles]] /\ role'[t][w] = to
        /\ \A v \in People \ {w} : role'[t][v] = role[t][v]
        /\ \A s \in Topics \ {t} : role'[s] = role[s]
    BY <1>0, <2>2, RoleEffect
  <2>4. given \subseteq given'
    BY <2>2
  <2>5. t \notin given' => \E v \in People : role'[t][v] = "owner"
    <3>1. CASE to = "owner"
      BY <2>3, <3>1
    <3>2. ASSUME to # "owner", t \notin given' PROVE role'[t][b] = "owner"
      <4>1. ~Gives(topicCall[c])
        BY <2>2, <3>2
      <4>2. w # b /\ (topicCall[c].was = "owner" => role[t][b] = "owner")
        BY <1>2, <2>1, <4>1 DEF Gives
      <4>3. topicCall[c].was = "owner"
        BY <1>0, <1>2, <1>5, <2>1, <4>2 DEF CallInv, AddTopicMember, RemoveTopicMember
      <4> QED BY <2>3, <4>2, <4>3
    <3> QED BY <3>1, <3>2
  <2> QED BY <1>0, <1>2, <2>2, <2>3, <2>4, <2>5, MemberStep
<1>6. CASE TopicCallStops(c)
  <2>1. /\ UNCHANGED <<role, given>>
        /\ ownerless' = ownerless \cup (IF topicCall[c].at = "seed" THEN {t} ELSE {})
    BY <1>2, <1>6 DEF TopicCallStops
  <2>2. t \notin ownerless' => topicCall[c].at # "seed"
    BY <2>1
  <2> QED BY <1>0, <1>2, <1>3, <2>1, <2>2, MemberStep DEF OwnedInv
<1> QED BY <1>4, <1>5, <1>6

\* A topic that is renamed was there, and the page renames the row it shows.
LEMMA RenameStep ==
  ASSUME TopicsInv, NEW c \in TopicCalls, UpdateResearchTopic(c)
  PROVE  TopicsInv'
<1>0. TopicTypeInv /\ CallInv(c) /\ Finish(c) /\ UNCHANGED <<role, home, ownerless, given>>
  BY DEF TopicsInv, UpdateResearchTopic
<1>1. topicCall[c].at = "rename"
  BY DEF UpdateResearchTopic
<1>2. PICK t \in Topics, n \in Names : t = topicCall[c].topic /\ n = topicCall[c].name /\ name[t] # NoName
  BY <1>0, <1>1 DEF CallInv
<1>3. /\ topicCall' \in [TopicCalls -> TopicCallSet] /\ topicCall'[c].at = "done"
      /\ \A d \in TopicCalls \ {c} : topicCall'[d] = topicCall[d]
  BY <1>0, FinishEffect
<1>4. \/ /\ name' = [name EXCEPT ![t] = n]
         /\ \/ local' = [local EXCEPT ![t] = IF local[t] = NoName THEN local[t] ELSE n] /\ elsewhere' = elsewhere
            \/ elsewhere' = elsewhere \cup {t} /\ local' = local
      \/ UNCHANGED <<name, local, elsewhere>>
  BY <1>2 DEF UpdateResearchTopic, HandleRenamed
<1>5. /\ name' \in [Topics -> Names \cup {NoName}] /\ local' \in [Topics -> Names \cup {NoName}]
      /\ \A s \in Topics \ {t} : name'[s] = name[s] /\ local'[s] = local[s]
      /\ name'[t] # NoName /\ elsewhere \subseteq elsewhere'
      /\ local'[t] # NoName /\ t \notin elsewhere' => local'[t] = name'[t]
  <2>1. name \in [Topics -> Names \cup {NoName}] /\ local \in [Topics -> Names \cup {NoName}] /\ n # NoName
    BY <1>0, TopicsAssumption DEF TopicTypeInv
  <2>2. local[t] # NoName /\ t \notin elsewhere => local[t] = name[t]
    BY DEF TopicsInv, ShownInv
  <2>3. CASE UNCHANGED <<name, local, elsewhere>>
    BY <1>2, <2>1, <2>2, <2>3
  <2>4. CASE /\ name' = [name EXCEPT ![t] = n] /\ elsewhere' = elsewhere
             /\ local' = [local EXCEPT ![t] = IF local[t] = NoName THEN local[t] ELSE n]
    BY <2>1, <2>4
  <2>5. CASE name' = [name EXCEPT ![t] = n] /\ elsewhere' = elsewhere \cup {t} /\ local' = local
    BY <2>1, <2>5
  <2> QED BY <1>4, <2>3, <2>4, <2>5
<1>6. TopicTypeInv'
  BY <1>0, <1>3, <1>5 DEF TopicTypeInv
<1>7. ASSUME NEW d \in TopicCalls PROVE CallInv(d)'
  <2>1. CASE d = c
    BY <1>3, <2>1 DEF CallInv
  <2>2. CASE d # c
    BY <1>0, <1>3, <1>5, <2>2, CallKept DEF TopicsInv
  <2> QED BY <2>1, <2>2
<1>8. ASSUME NEW s \in Topics PROVE OwnedInv(s)'
  <2>1. Seeding(s) => Seeding(s)'
    BY <1>1, <1>3 DEF Seeding
  <2>2. name'[s] # NoName => name[s] # NoName
    BY <1>2, <1>5
  <2> QED BY <1>0, <2>1, <2>2 DEF TopicsInv, OwnedInv
<1>9. HomeInv'
  BY <1>0, <1>5 DEF TopicsInv, HomeInv, Existing
<1>10. ShownInv'
  BY <1>5 DEF TopicsInv, ShownInv
<1> QED BY <1>6, <1>7, <1>8, <1>9, <1>10 DEF TopicsInv

\* The migration: rows without a topic join the Default one, and so does everyone.
LEMMA MigrateStep ==
  ASSUME TopicsInv, NEW t \in Topics, MigrateResearchTopics(t)
  PROVE  TopicsInv'
<1>0. TopicTypeInv /\ UNCHANGED <<ownerless, given, topicCall, local, elsewhere>>
  BY DEF TopicsInv, MigrateResearchTopics, screenVars
<1>1. /\ name' = [name EXCEPT ![t] = Default] /\ (name[t] = Default \/ name[t] = NoName)
      /\ home' = [r \in Placed |-> IF home[r] = NoTopic THEN t ELSE home[r]]
      /\ role' = [role EXCEPT ![t] = [u \in People |-> IF role[t][u] = "none" THEN "owner" ELSE role[t][u]]]
  BY DEF MigrateResearchTopics, DefaultTopics, Existing
<1>2. /\ name' \in [Topics -> Names \cup {NoName}] /\ name'[t] = Default /\ Default # NoName
      /\ \A s \in Topics \ {t} : name'[s] = name[s]
  BY <1>0, <1>1, TopicsAssumption DEF TopicTypeInv
<1>3. /\ role' \in [Topics -> [People -> Roles]]
      /\ \A u \in People : role'[t][u] = IF role[t][u] = "none" THEN "owner" ELSE role[t][u]
      /\ \A s \in Topics \ {t} : role'[s] = role[s]
  <2>1. role \in [Topics -> [People -> Roles]]
    BY <1>0 DEF TopicTypeInv
  <2>2. [u \in People |-> IF role[t][u] = "none" THEN "owner" ELSE role[t][u]] \in [People -> Roles]
    BY <2>1 DEF Roles
  <2> QED BY <1>1, <2>1, <2>2
<1>4. TopicTypeInv'
  BY <1>0, <1>2, <1>3 DEF TopicTypeInv
<1>5. ASSUME NEW d \in TopicCalls PROVE CallInv(d)'
  BY <1>0, <1>2, CallKept DEF TopicsInv
<1>6. ASSUME NEW s \in Topics PROVE OwnedInv(s)'
  <2>0. Seeding(s)' <=> Seeding(s)
    BY <1>0 DEF Seeding
  <2>1. CASE s # t
    BY <1>0, <1>2, <1>3, <2>0, <2>1 DEF TopicsInv, OwnedInv
  <2>2. CASE s = t
    <3>1. t \notin given => \E v \in People : role'[t][v] = "owner"
      <4>1. CASE role[t][Me] = "none"
        BY <1>3, <4>1, TopicsAssumption
      <4>2. ASSUME role[t][Me] # "none", t \notin given PROVE \E v \in People : role'[t][v] = "owner"
        <5>1. PICK v \in People : role[t][v] = "owner"
          BY <4>2, TopicsAssumption DEF TopicsInv, OwnedInv
        <5> QED BY <1>3, <5>1
      <4> QED BY <4>1, <4>2
    <3> QED BY <1>0, <2>2, <3>1 DEF OwnedInv
  <2> QED BY <2>1, <2>2
<1>7. HomeInv'
  BY <1>1, <1>2 DEF TopicsInv, HomeInv, Existing
<1>8. ShownInv'
  <2>1. ASSUME NEW s \in Topics, local[s] # NoName, s \notin elsewhere PROVE name'[s] = name[s]
    BY <1>1, <1>2, <2>1 DEF TopicsInv, ShownInv
  <2> QED BY <1>0, <2>1 DEF TopicsInv, ShownInv
<1> QED BY <1>4, <1>5, <1>6, <1>7, <1>8 DEF TopicsInv

\* The invariant of the topics, with any number of requests, people and topics.
THEOREM TopicsInductive == TopicsSpec => []TopicsInv
<1>1. TopicsInit => TopicsInv
  <2> SUFFICES ASSUME TopicsInit PROVE TopicsInv
    OBVIOUS
  <2>1. Resting \in TopicCallSet /\ Resting.at = "idle"
    BY DEF Resting, TopicCallSet, Roles
  <2>2. \A c \in TopicCalls : topicCall[c].at = "idle"
    BY <2>1 DEF TopicsInit
  <2>3. TopicTypeInv
    BY <2>1 DEF TopicsInit, TopicTypeInv, NoNames, Roles
  <2>4. HomeInv /\ ShownInv
    BY DEF TopicsInit, HomeInv, ShownInv, NoNames
  <2>5. \A t \in Topics : OwnedInv(t)
    BY DEF TopicsInit, OwnedInv, NoNames
  <2>6. \A c \in TopicCalls : CallInv(c)
    BY <2>2 DEF CallInv
  <2> QED BY <2>3, <2>4, <2>5, <2>6 DEF TopicsInv
<1>2. TopicsInv /\ [TopicsNext]_topicsVars => TopicsInv'
  <2> SUFFICES ASSUME TopicsInv, [TopicsNext]_topicsVars PROVE TopicsInv'
    OBVIOUS
  <2>1. ASSUME NEW c \in TopicCalls, NEW u \in People, NEW t \in Topics, NEW n \in Names,
               CreateResearchTopic(c, u, t, n)
        PROVE  TopicsInv'
    BY <2>1, CreateStep
  <2>2. ASSUME NEW c \in TopicCalls, NEW u \in People, NEW t \in Topics, NEW n \in Names,
               CheckToRename(c, u, t, n)
        PROVE  TopicsInv'
    <3> DEFINE m == [Resting EXCEPT !.at = "rename", !.by = u, !.topic = t, !.name = n]
    <3>1. m \in TopicCallSet /\ m.at = "rename" /\ m.by = u /\ m.topic = t /\ m.name = n
      BY DEF Resting, TopicCallSet, Roles
    <3>2. Begin(c, m) /\ t \in Existing /\ UNCHANGED <<serverVars, screenVars, starts, elsewhere>>
      BY <2>2 DEF CheckToRename
    <3> HIDE DEF m
    <3> QED BY <3>1, <3>2, BeginStep
  <2>3. ASSUME NEW c \in TopicCalls, NEW u \in People, NEW t \in Topics, NEW whom \in People,
               NEW as \in {"member", "owner"}, CheckToAdd(c, u, t, whom, as)
        PROVE  TopicsInv'
    <3> DEFINE m == [Resting EXCEPT !.at = "add", !.by = u, !.topic = t, !.whom = whom, !.role = as,
                          !.was = role[t][u]]
    <3>0. role[t][u] = "owner"
      BY <2>3 DEF CheckToAdd, CallerMay
    <3>1. m \in TopicCallSet /\ m.at = "add" /\ m.by = u /\ m.topic = t /\ m.whom = whom /\ m.role = as /\ m.was = "owner"
      BY <3>0 DEF Resting, TopicCallSet, Roles
    <3>2. Begin(c, m) /\ t \in Existing /\ UNCHANGED <<serverVars, screenVars, starts, elsewhere>>
      BY <2>3 DEF CheckToAdd
    <3> HIDE DEF m
    <3> QED BY <3>1, <3>2, BeginStep
  <2>4. ASSUME NEW c \in TopicCalls, NEW u \in People, NEW t \in Topics, NEW whom \in People,
               CheckToRemove(c, u, t, whom)
        PROVE  TopicsInv'
    <3> DEFINE m == [Resting EXCEPT !.at = "remove", !.by = u, !.topic = t, !.whom = whom, !.was = role[t][u]]
    <3>0. (whom = u \/ role[t][u] = "owner") /\ role[t][u] \in Roles
      BY <2>4 DEF CheckToRemove, CallerMay, TopicsInv, TopicTypeInv
    <3>1. m \in TopicCallSet /\ m.at = "remove" /\ m.by = u /\ m.topic = t /\ m.whom = whom /\ m.was = role[t][u]
      BY <3>0 DEF Resting, TopicCallSet, Roles
    <3>2. Begin(c, m) /\ t \in Existing /\ UNCHANGED <<serverVars, screenVars, starts, elsewhere>>
      BY <2>4 DEF CheckToRemove
    <3> HIDE DEF m
    <3> QED BY <3>0, <3>1, <3>2, BeginStep
  <2>5. ASSUME NEW c \in TopicCalls, SeedOwner(c) \/ AddTopicMember(c) \/ RemoveTopicMember(c) \/ TopicCallStops(c)
        PROVE  TopicsInv'
    BY <2>5, MembersKept
  <2>6. ASSUME NEW c \in TopicCalls, UpdateResearchTopic(c) PROVE TopicsInv'
    BY <2>6, RenameStep
  <2>7. ASSUME NEW r \in Placed, NEW t \in Topics \cup {NoTopic}, InsertRow(r, t) PROVE TopicsInv'
    <3>1. /\ home' = [home EXCEPT ![r] = t] /\ (t = NoTopic \/ t \in DefaultTopics)
          /\ UNCHANGED <<name, role, ownerless, given, topicCall, local, elsewhere>>
      BY <2>7 DEF InsertRow, screenVars
    <3>2. DefaultTopics \subseteq Existing
      BY TopicsAssumption DEF DefaultTopics, Existing
    <3>3. HomeInv'
      BY <3>1, <3>2 DEF TopicsInv, HomeInv, Existing
    <3>4. TopicTypeInv' /\ ShownInv'
      BY <3>1 DEF TopicsInv, TopicTypeInv, ShownInv
    <3>5. (\A c \in TopicCalls : CallInv(c)') /\ (\A s \in Topics : OwnedInv(s)')
      BY <3>1 DEF TopicsInv, CallInv, OwnedInv, Seeding
    <3> QED BY <3>3, <3>4, <3>5 DEF TopicsInv
  <2>8. ASSUME NEW t \in Topics, MigrateResearchTopics(t) PROVE TopicsInv'
    BY <2>8, MigrateStep
  <2>9. CASE LoadTopics
    <3>1. local' = Mine /\ UNCHANGED <<name, role, home, ownerless, given, topicCall>>
      BY <2>9 DEF LoadTopics, serverVars
    <3>2. TopicTypeInv' /\ ShownInv'
      BY <3>1 DEF TopicsInv, TopicTypeInv, ShownInv, Mine
    <3>3. (\A c \in TopicCalls : CallInv(c)') /\ (\A s \in Topics : OwnedInv(s)') /\ HomeInv'
      BY <3>1 DEF TopicsInv, CallInv, OwnedInv, Seeding, HomeInv, Existing
    <3> QED BY <3>2, <3>3 DEF TopicsInv
  <2>10. CASE UNCHANGED <<name, role, home, ownerless, given, topicCall, local, elsewhere>>
    <3>1. TopicTypeInv' /\ ShownInv' /\ HomeInv'
      BY <2>10 DEF TopicsInv, TopicTypeInv, ShownInv, HomeInv, Existing
    <3>2. (\A c \in TopicCalls : CallInv(c)') /\ (\A s \in Topics : OwnedInv(s)')
      BY <2>10 DEF TopicsInv, CallInv, OwnedInv, Seeding
    <3> QED BY <3>1, <3>2 DEF TopicsInv
  <2>11. CASE \E t \in Topics : SetActiveTopicId(t)
    BY <2>10, <2>11 DEF SetActiveTopicId, serverVars
  <2>12. CASE UNCHANGED topicsVars
    BY <2>10, <2>12 DEF topicsVars, serverVars, screenVars
  <2> QED BY <2>1, <2>2, <2>3, <2>4, <2>5, <2>6, <2>7, <2>8, <2>9, <2>11, <2>12 DEF TopicsNext
<1> QED BY <1>1, <1>2, PTL DEF TopicsSpec

\* Nobody takes a topic's last owner away, no row belongs to a topic that is not there, and the
\* settings list is not behind what it has itself renamed.
THEOREM TopicsCorrect == TopicsSpec => []TopicsSound
<1>1. TopicsInv => TopicsSound
  BY DEF TopicsInv, OwnedInv, HomeInv, ShownInv, TopicsSound, Existing, Owners, Seeding
<1> QED BY <1>1, TopicsInductive, PTL

\* The rows and the topic that is shown keep to their types as well.
THEOREM TopicsTyped == TopicsSpec => []TopicsTypeOK
<1> DEFINE PlacesTyped == /\ home \in [Placed -> Topics \cup {NoTopic, "absent"}]
                    /\ active \in Topics \cup {NoTopic}
<1>1. TopicsInit => PlacesTyped
  BY DEF TopicsInit
<1>2. ASSUME PlacesTyped, [TopicsNext]_topicsVars PROVE PlacesTyped'
  <2>1. CASE UNCHANGED <<home, active>>
    BY <1>2, <2>1
  <2>2. ASSUME NEW r \in Placed, NEW t \in Topics \cup {NoTopic}, InsertRow(r, t) PROVE PlacesTyped'
    BY <1>2, <2>2 DEF InsertRow, screenVars
  <2>3. ASSUME NEW t \in Topics, MigrateResearchTopics(t) PROVE PlacesTyped'
    BY <1>2, <2>3 DEF MigrateResearchTopics, screenVars
  <2>4. CASE LoadTopics
    BY <1>2, <2>4 DEF LoadTopics, serverVars
  <2>5. ASSUME NEW t \in Topics, SetActiveTopicId(t) PROVE PlacesTyped'
    BY <1>2, <2>5 DEF SetActiveTopicId, serverVars
  <2>6. ASSUME NEW c \in TopicCalls, NEW u \in People, NEW t \in Topics, NEW n \in Names,
               CreateResearchTopic(c, u, t, n) \/ CheckToRename(c, u, t, n)
        PROVE  UNCHANGED <<home, active>>
    BY <2>6 DEF CreateResearchTopic, CheckToRename, serverVars, screenVars
  <2>7. ASSUME NEW c \in TopicCalls, NEW u \in People, NEW t \in Topics, NEW whom \in People,
               CheckToRemove(c, u, t, whom) \/ \E as \in {"member", "owner"} : CheckToAdd(c, u, t, whom, as)
        PROVE  UNCHANGED <<home, active>>
    BY <2>7 DEF CheckToAdd, CheckToRemove, serverVars, screenVars
  <2>8. ASSUME NEW c \in TopicCalls,
               \/ SeedOwner(c) \/ UpdateResearchTopic(c) \/ AddTopicMember(c) \/ RemoveTopicMember(c)
               \/ TopicCallStops(c)
        PROVE  UNCHANGED <<home, active>>
    BY <2>8 DEF SeedOwner, UpdateResearchTopic, AddTopicMember, RemoveTopicMember, TopicCallStops, screenVars
  <2>9. CASE UNCHANGED topicsVars
    BY <2>1, <2>9 DEF topicsVars, serverVars, screenVars
  <2> QED
    BY <1>2, <2>1, <2>2, <2>3, <2>4, <2>5, <2>6, <2>7, <2>8, <2>9 DEF TopicsNext
<1>3. TopicsInv /\ PlacesTyped => TopicsTypeOK
  BY DEF TopicsInv, TopicTypeInv, Roles, TopicsTypeOK
<1> HIDE DEF PlacesTyped
<1> QED BY <1>1, <1>2, <1>3, TopicsInductive, PTL DEF TopicsSpec

-----------------------------------------------------------------------------
(* The two diffs of texts.                                                 *)

\* A set of numbers has a least one.
LEMMA LeastIs ==
  ASSUME NEW I \in SUBSET Nat, I # {}
  PROVE  \E x \in I : \A y \in I : x <= y
<1>1. PICK R : R = OpToRel(<, Nat)
  OBVIOUS
<1>2. IsWellFoundedOn(R, Nat)
  BY <1>1, NatLessThanWellFounded
<1>3. PICK x \in I : \A y \in I : <<y, x>> \notin R
  BY <1>2, WFMin
<1>4. \A y \in Nat, z \in Nat : y < z => <<y, z>> \in R
  BY <1>1 DEF OpToRel
<1>5. \A y \in I : ~(y < x)
  BY <1>3, <1>4
<1>6. \A y \in I : x <= y
  BY <1>5
<1> QED  BY <1>6

\* What holds of no number first holds of every number: a property of numbers that each
\* one has when the smaller ones have it.
LEMMA Least ==
  ASSUME NEW G \in SUBSET Nat,
         \A k \in Nat : (\A l \in 0..(k - 1) : l \in G) => k \in G
  PROVE  \A k \in Nat : k \in G
<1>1. CASE Nat \ G = {}  BY <1>1
<1>2. CASE Nat \ G # {}
  <2>1. PICK k \in Nat \ G : \A l \in Nat \ G : k <= l  BY <1>2, LeastIs
  <2>2. \A l \in 0..(k - 1) : l \in G  BY <2>1
  <2> QED  BY <2>1, <2>2
<1> QED  BY <1>1, <1>2

\* The cells before one that is not at an edge, and how far they are from the first one.
LEMMA CellsBefore ==
  ASSUME NEW b, NEW a, Len(b) \in Nat, Len(a) \in Nat, NEW c \in Cells(b, a)
  PROVE  /\ c[1] \in 0..Len(b) /\ c[2] \in 0..Len(a) /\ c = <<c[1], c[2]>>
         /\ c[1] > 0 => <<c[1] - 1, c[2]>> \in Cells(b, a)
         /\ c[2] > 0 => <<c[1], c[2] - 1>> \in Cells(b, a)
         /\ c[1] > 0 /\ c[2] > 0 => <<c[1] - 1, c[2] - 1>> \in Cells(b, a)
  BY DEF Cells

\* There is a table: each cell is made of cells nearer to the first one.
LEMMA TableExists ==
  ASSUME NEW b, NEW a, Len(b) \in Nat, Len(a) \in Nat
  PROVE  \E f : f = [c \in Cells(b, a) |-> Cell(f, b, a, c[1], c[2])]
<1> DEFINE Upto(f, k) == \A c \in Cells(b, a) : c[1] + c[2] < k => f[c] = Cell(f, b, a, c[1], c[2])
           G == {k \in Nat : \E f : f = [c \in Cells(b, a) |-> f[c]] /\ Upto(f, k)}
<1>1. ASSUME NEW k \in Nat, NEW f, Upto(f, k)
      PROVE  \E g : g = [c \in Cells(b, a) |-> g[c]] /\ Upto(g, k + 1)
  <2> DEFINE g == [c \in Cells(b, a) |-> IF c[1] + c[2] < k THEN f[c] ELSE Cell(f, b, a, c[1], c[2])]
  <2>1. \A c \in Cells(b, a) : c[1] + c[2] < k => g[c] = f[c]  OBVIOUS
  <2>2. ASSUME NEW c \in Cells(b, a), c[1] + c[2] < k + 1 PROVE g[c] = Cell(g, b, a, c[1], c[2])
    <3>1. g[c] = Cell(f, b, a, c[1], c[2])  BY <1>1
    <3> HIDE DEF g
    <3>2. Cell(g, b, a, c[1], c[2]) = Cell(f, b, a, c[1], c[2])
      <4>1. CASE c[1] = 0 \/ c[2] = 0  BY <4>1 DEF Cell
      <4>2. CASE ~(c[1] = 0 \/ c[2] = 0)
        <5> DEFINE x == <<c[1] - 1, c[2] - 1>>  y == <<c[1] - 1, c[2]>>  z == <<c[1], c[2] - 1>>
        <5>1. x \in Cells(b, a) /\ y \in Cells(b, a) /\ z \in Cells(b, a)
          BY <4>2, CellsBefore
        <5>0. c[1] \in 0..Len(b) /\ c[2] \in 0..Len(a)  BY CellsBefore
        <5>2. x[1] + x[2] < k /\ y[1] + y[2] < k /\ z[1] + z[2] < k
          BY <2>2, <5>0
        <5>3. g[x] = f[x] /\ g[y] = f[y] /\ g[z] = f[z]
          BY <2>1, <5>1, <5>2
        <5> QED  BY <5>3 DEF Cell
      <4> QED  BY <4>1, <4>2
    <3> QED  BY <3>1, <3>2
  <2>3. g = [c \in Cells(b, a) |-> g[c]]  OBVIOUS
  <2> QED  BY <2>2, <2>3
<1>2. 0 \in G
  <2> DEFINE f == [c \in Cells(b, a) |-> 0]
  <2>1. f = [c \in Cells(b, a) |-> f[c]]  OBVIOUS
  <2>2. ASSUME NEW c \in Cells(b, a) PROVE ~(c[1] + c[2] < 0)
    <3>1. c[1] \in 0..Len(b) /\ c[2] \in 0..Len(a)  BY CellsBefore
    <3> QED  BY <3>1
  <2>3. Upto(f, 0)  BY <2>2
  <2> QED  BY <2>1, <2>3
<1>3. ASSUME NEW k \in Nat, \A l \in 0..(k - 1) : l \in G PROVE k \in G
  <2>1. CASE k = 0  BY <2>1, <1>2
  <2>2. CASE k # 0
    <3>1. k - 1 \in G  BY <2>2, <1>3
    <3>2. PICK f : Upto(f, k - 1)  BY <3>1
    <3>3. k - 1 \in Nat /\ (k - 1) + 1 = k  BY <2>2
    <3> HIDE DEF Upto
    <3>4. \E g : g = [c \in Cells(b, a) |-> g[c]] /\ Upto(g, k)  BY <1>1, <3>2, <3>3
    <3> QED  BY <3>4
  <2> QED  BY <2>1, <2>2
<1>4. Len(b) + Len(a) + 1 \in G
  <2> HIDE DEF G
  <2>1. G \in SUBSET Nat  BY DEF G
  <2> QED  BY <1>3, <2>1, Least
<1>5. PICK f : f = [c \in Cells(b, a) |-> f[c]] /\ Upto(f, Len(b) + Len(a) + 1)
  BY <1>4
<1>6. ASSUME NEW c \in Cells(b, a) PROVE f[c] = Cell(f, b, a, c[1], c[2])
  <2>1. c[1] \in 0..Len(b) /\ c[2] \in 0..Len(a)  BY CellsBefore
  <2>2. c[1] + c[2] < Len(b) + Len(a) + 1  BY <2>1
  <2> QED  BY <1>5, <2>2
<1> QED  BY <1>5, <1>6

\* Every cell of the table is what the loop computes of the cells before it.
LEMMA TableIs ==
  ASSUME NEW b, NEW a, Len(b) \in Nat, Len(a) \in Nat, NEW c \in Cells(b, a)
  PROVE  Common(b, a)[c] = Cell(Common(b, a), b, a, c[1], c[2])
<1> DEFINE D(h) == [x \in Cells(b, a) |-> Cell(h, b, a, x[1], x[2])]
<1>1. Common(b, a) = CHOOSE h : h = D(h)  BY DEF Common
<1>2. \E h : h = D(h)  BY TableExists
<1>3. D(Common(b, a))[c] = Cell(Common(b, a), b, a, c[1], c[2])  OBVIOUS
<1> HIDE DEF D
<1>4. Common(b, a) = D(Common(b, a))  BY <1>1, <1>2, Zenon
<1> QED  BY <1>3, <1>4

\* The table at the cell i, j.
LEMMA TableCell ==
  ASSUME NEW b, NEW a, Len(b) \in Nat, Len(a) \in Nat, NEW i \in 0..Len(b), NEW j \in 0..Len(a)
  PROVE  Common(b, a)[<<i, j>>] = Cell(Common(b, a), b, a, i, j)
<1>1. <<i, j>> \in Cells(b, a)  BY DEF Cells
<1> DEFINE c == <<i, j>>
<1>2. c[1] = i /\ c[2] = j  OBVIOUS
<1>3. Common(b, a)[c] = Cell(Common(b, a), b, a, c[1], c[2])  BY <1>1, TableIs
<1> QED  BY <1>2, <1>3

\* It holds numbers.
LEMMA TableTyped ==
  ASSUME NEW b, NEW a, Len(b) \in Nat, Len(a) \in Nat
  PROVE  \A i \in 0..Len(b), j \in 0..Len(a) : Common(b, a)[<<i, j>>] \in Nat
<1> DEFINE dp == Common(b, a)
           Holds(k) == \A i \in 0..Len(b), j \in 0..Len(a) : i + j = k => dp[<<i, j>>] \in Nat
           G == {k \in Nat : Holds(k)}
<1>1. ASSUME NEW k \in Nat, \A l \in 0..(k - 1) : l \in G PROVE k \in G
  <2> SUFFICES ASSUME NEW i \in 0..Len(b), NEW j \in 0..Len(a), i + j = k PROVE dp[<<i, j>>] \in Nat
    OBVIOUS
  <2>1. dp[<<i, j>>] = Cell(dp, b, a, i, j)  BY TableCell
  <2>2. CASE i = 0 \/ j = 0  BY <2>1, <2>2 DEF Cell
  <2>3. CASE ~(i = 0 \/ j = 0)
    <3>1. /\ i - 1 \in 0..Len(b) /\ j - 1 \in 0..Len(a)
          /\ (i - 1) + (j - 1) \in 0..(k - 1) /\ (i - 1) + j \in 0..(k - 1) /\ i + (j - 1) \in 0..(k - 1)
      BY <2>3
    <3>2. Holds((i - 1) + (j - 1)) /\ Holds((i - 1) + j) /\ Holds(i + (j - 1))  BY <1>1, <3>1
    <3> HIDE DEF dp
    <3>3. dp[<<i - 1, j - 1>>] \in Nat /\ dp[<<i - 1, j>>] \in Nat /\ dp[<<i, j - 1>>] \in Nat
      BY <3>1, <3>2
    <3> QED  BY <2>1, <2>3, <3>3 DEF Cell, Larger
  <2> QED  BY <2>2, <2>3
<1>2. \A k \in Nat : k \in G
  <2> HIDE DEF G
  <2>1. G \in SUBSET Nat  BY DEF G
  <2> QED  BY <1>1, <2>1, Least
<1>3. \A k \in Nat : Holds(k)  BY <1>2
<1> QED
  <2> SUFFICES ASSUME NEW i \in 0..Len(b), NEW j \in 0..Len(a) PROVE dp[<<i, j>>] \in Nat  OBVIOUS
  <2>1. i + j \in Nat  OBVIOUS
  <2> QED  BY <1>3, <2>1

\* A common subsequence of the first i and the first j lines: the lines S of the first,
\* and where each of them is in the second.
Aligned(b, a, i, j, S, f) ==
  /\ S \subseteq 1..i /\ f \in [S -> 1..j]
  /\ \A k \in S : b[k] = a[f[k]]
  /\ \A k \in S : \A l \in S : k < l => f[k] < f[l]

\* Part of a common subsequence is one of what comes before it.
LEMMA AlignedPart ==
  ASSUME NEW b, NEW a, NEW i \in Nat, NEW j \in Nat, NEW S, NEW f, Aligned(b, a, i, j, S, f),
         NEW T \in SUBSET S, NEW x \in Nat, NEW y \in Nat,
         \A k \in T : k <= x /\ f[k] <= y
  PROVE  Aligned(b, a, x, y, T, [k \in T |-> f[k]])
<1> DEFINE g == [k \in T |-> f[k]]
<1>1. \A k \in T : g[k] = f[k] /\ k \in S  OBVIOUS
<1>2. g \in [T -> 1..y]
  <2>1. \A k \in T : f[k] \in 1..y  BY DEF Aligned
  <2> QED  BY <2>1
<1>3. T \subseteq 1..x  BY DEF Aligned
<1> QED
  <2> HIDE DEF g
  <2>1. \A k \in T : b[k] = a[g[k]]  BY <1>1 DEF Aligned
  <2>2. \A k \in T : \A l \in T : k < l => g[k] < g[l]  BY <1>1 DEF Aligned
  <2>3. Aligned(b, a, x, y, T, g)  BY <1>2, <1>3, <2>1, <2>2 DEF Aligned
  <2> QED  BY <2>3 DEF g

\* No common subsequence is longer than the table says.
LEMMA TableBounds ==
  ASSUME NEW b, NEW a, Len(b) \in Nat, Len(a) \in Nat
  PROVE  \A i \in 0..Len(b), j \in 0..Len(a) : \A S, f :
           Aligned(b, a, i, j, S, f) => Cardinality(S) <= Common(b, a)[<<i, j>>]
<1> DEFINE dp == Common(b, a)
           Bound(i, j) == \A S, f : Aligned(b, a, i, j, S, f) => Cardinality(S) <= dp[<<i, j>>]
           Holds(k) == \A i \in 0..Len(b), j \in 0..Len(a) : i + j = k => Bound(i, j)
           G == {k \in Nat : Holds(k)}
<1>1. ASSUME NEW k \in Nat, \A l \in 0..(k - 1) : l \in G PROVE k \in G
  <2> SUFFICES ASSUME NEW i \in 0..Len(b), NEW j \in 0..Len(a), i + j = k PROVE Bound(i, j)
    OBVIOUS
  <2> SUFFICES ASSUME NEW S, NEW f, Aligned(b, a, i, j, S, f) PROVE Cardinality(S) <= dp[<<i, j>>]
    OBVIOUS
  <2>1. dp[<<i, j>>] = Cell(dp, b, a, i, j)  BY TableCell
  <2>2. dp[<<i, j>>] \in Nat  BY TableTyped
  <2>3. IsFiniteSet(S)
    <3>1. S \in SUBSET (1..i) /\ IsFiniteSet(1..i)  BY FS_Interval DEF Aligned
    <3> QED  BY <3>1, FS_Subset
  <2>4. CASE i = 0 \/ j = 0
    <3>1. S = {}  BY <2>4 DEF Aligned
    <3> QED  BY <3>1, <2>2, FS_EmptySet
  <2>5. CASE ~(i = 0 \/ j = 0)
    <3>1. /\ i - 1 \in 0..Len(b) /\ j - 1 \in 0..Len(a)
          /\ (i - 1) + (j - 1) \in 0..(k - 1) /\ (i - 1) + j \in 0..(k - 1) /\ i + (j - 1) \in 0..(k - 1)
      BY <2>5
    <3>2. Holds((i - 1) + (j - 1)) /\ Holds((i - 1) + j) /\ Holds(i + (j - 1))  BY <1>1, <3>1
    <3>3. Bound(i - 1, j - 1) /\ Bound(i - 1, j) /\ Bound(i, j - 1)
      <4> HIDE DEF Bound
      <4> QED  BY <3>1, <3>2
    <3>4. dp[<<i - 1, j - 1>>] \in Nat /\ dp[<<i - 1, j>>] \in Nat /\ dp[<<i, j - 1>>] \in Nat
      BY <3>1, TableTyped
    <3> HIDE DEF dp, Holds, G
    <3>5. /\ \A s \in S : s \in 1..i /\ f[s] \in 1..j
          /\ \A s \in S : \A t \in S : s < t => f[s] < f[t]
          /\ \A s \in S : b[s] = a[f[s]]
      BY DEF Aligned
    <3>6. CASE b[i] = a[j]
      <4>0. dp[<<i, j>>] = dp[<<i - 1, j - 1>>] + 1  BY <2>1, <2>5, <3>6 DEF Cell
      <4>1. CASE \E s \in S : s = i \/ f[s] = j
        <5>1. PICK s \in S : s = i \/ f[s] = j  BY <4>1
        <5> DEFINE T == S \ {s}
        <5>2. \A t \in T : t <= i - 1 /\ f[t] <= j - 1
          <6> SUFFICES ASSUME NEW t \in T PROVE t <= i - 1 /\ f[t] <= j - 1  OBVIOUS
          <6>1. s \in 1..i /\ t \in 1..i /\ f[s] \in 1..j /\ f[t] \in 1..j /\ t \in S /\ s # t
            BY <3>5
          <6>2. t < s
            <7>1. CASE s < t
              <8>1. f[s] < f[t]  BY <3>5, <6>1, <7>1
              <8> QED  BY <5>1, <6>1, <7>1, <8>1
            <7> QED  BY <6>1, <7>1
          <6>3. f[t] < f[s]  BY <3>5, <6>1, <6>2
          <6> QED  BY <6>1, <6>2, <6>3
        <5>3. Aligned(b, a, i - 1, j - 1, T, [t \in T |-> f[t]])
          <6> HIDE DEF T
          <6>1. T \in SUBSET S /\ i - 1 \in Nat /\ j - 1 \in Nat  BY <2>5 DEF T
          <6> QED  BY <5>2, <6>1, AlignedPart
        <5>4. Cardinality(T) <= dp[<<i - 1, j - 1>>]  BY <3>3, <5>3
        <5>5. Cardinality(T) = Cardinality(S) - 1 /\ Cardinality(S) \in Nat
          BY <2>3, <5>1, FS_RemoveElement, FS_CardinalityType
        <5> HIDE DEF T
        <5> QED  BY <3>4, <4>0, <5>4, <5>5
      <4>2. CASE ~\E s \in S : s = i \/ f[s] = j
        <5>1. \A s \in S : s <= i - 1 /\ f[s] <= j - 1  BY <3>5, <4>2
        <5>2. Aligned(b, a, i - 1, j - 1, S, [t \in S |-> f[t]])
          <6>1. S \in SUBSET S /\ i - 1 \in Nat /\ j - 1 \in Nat  BY <2>5
          <6> QED  BY <5>1, <6>1, AlignedPart
        <5>3. Cardinality(S) <= dp[<<i - 1, j - 1>>]  BY <3>3, <5>2
        <5>4. Cardinality(S) \in Nat  BY <2>3, FS_CardinalityType
        <5> QED  BY <3>4, <4>0, <5>3, <5>4
      <4> QED  BY <4>1, <4>2
    <3>7. CASE b[i] # a[j]
      <4>0. dp[<<i, j>>] >= dp[<<i - 1, j>>] /\ dp[<<i, j>>] >= dp[<<i, j - 1>>]
        BY <2>1, <2>5, <3>4, <3>7 DEF Cell, Larger
      <4>9. Cardinality(S) \in Nat  BY <2>3, FS_CardinalityType
      <4>1. CASE i \in S
        <5>1. f[i] # j  BY <3>5, <3>7, <4>1
        <5>2. \A s \in S : s <= i /\ f[s] <= j - 1
          <6> SUFFICES ASSUME NEW s \in S PROVE s <= i /\ f[s] <= j - 1  OBVIOUS
          <6>1. s \in 1..i /\ f[s] \in 1..j /\ f[i] \in 1..j  BY <3>5, <4>1
          <6>2. s < i => f[s] < f[i]  BY <3>5, <4>1
          <6> QED  BY <5>1, <6>1, <6>2
        <5>3. Aligned(b, a, i, j - 1, S, [t \in S |-> f[t]])
          <6>1. S \in SUBSET S /\ i \in Nat /\ j - 1 \in Nat  BY <2>5
          <6> QED  BY <5>2, <6>1, AlignedPart
        <5>4. Cardinality(S) <= dp[<<i, j - 1>>]  BY <3>3, <5>3
        <5> QED  BY <2>2, <3>4, <4>0, <4>9, <5>4
      <4>2. CASE i \notin S
        <5>1. \A s \in S : s <= i - 1 /\ f[s] <= j  BY <3>5, <4>2
        <5>3. Aligned(b, a, i - 1, j, S, [t \in S |-> f[t]])
          <6>1. S \in SUBSET S /\ i - 1 \in Nat /\ j \in Nat  BY <2>5
          <6> QED  BY <5>1, <6>1, AlignedPart
        <5>4. Cardinality(S) <= dp[<<i - 1, j>>]  BY <3>3, <5>3
        <5> QED  BY <2>2, <3>4, <4>0, <4>9, <5>4
      <4> QED  BY <4>1, <4>2
    <3> QED  BY <3>6, <3>7
  <2> QED  BY <2>4, <2>5
<1>2. \A k \in Nat : k \in G
  <2> HIDE DEF G
  <2>1. G \in SUBSET Nat  BY DEF G
  <2> QED  BY <1>1, <2>1, Least
<1>3. \A k \in Nat : Holds(k)  BY <1>2
<1> HIDE DEF Bound
<1>4. ASSUME NEW i \in 0..Len(b), NEW j \in 0..Len(a) PROVE Bound(i, j)
  <2>1. i + j \in Nat  OBVIOUS
  <2> QED  BY <1>3, <2>1
<1> QED  BY <1>4 DEF Bound

-----------------------------------------------------------------------------
\* There is a walk: what it makes of a cell it makes of what it made of a nearer one.
LEMMA WalkExists ==
  ASSUME NEW b, NEW a, Len(b) \in Nat, Len(a) \in Nat
  PROVE  \E f : f = [c \in Cells(b, a) |-> Steps(f, Common(b, a), b, a, c[1], c[2])]
<1> DEFINE dp == Common(b, a)
<1> HIDE DEF dp
<1> DEFINE Upto(f, k) == \A c \in Cells(b, a) : c[1] + c[2] < k => f[c] = Steps(f, dp, b, a, c[1], c[2])
           G == {k \in Nat : \E f : f = [c \in Cells(b, a) |-> f[c]] /\ Upto(f, k)}
<1>1. ASSUME NEW k \in Nat, NEW f, Upto(f, k)
      PROVE  \E g : g = [c \in Cells(b, a) |-> g[c]] /\ Upto(g, k + 1)
  <2> DEFINE g == [c \in Cells(b, a) |->
                     IF c[1] + c[2] < k THEN f[c] ELSE Steps(f, dp, b, a, c[1], c[2])]
  <2>1. \A c \in Cells(b, a) : c[1] + c[2] < k => g[c] = f[c]  OBVIOUS
  <2>2. ASSUME NEW c \in Cells(b, a), c[1] + c[2] < k + 1 PROVE g[c] = Steps(g, dp, b, a, c[1], c[2])
    <3>1. g[c] = Steps(f, dp, b, a, c[1], c[2])  BY <1>1
    <3> HIDE DEF g
    <3>2. Steps(g, dp, b, a, c[1], c[2]) = Steps(f, dp, b, a, c[1], c[2])
      <4> DEFINE x == <<c[1] - 1, c[2] - 1>>  y == <<c[1] - 1, c[2]>>  z == <<c[1], c[2] - 1>>
      <4>0. c[1] \in 0..Len(b) /\ c[2] \in 0..Len(a)  BY CellsBefore
      <4>1. c[1] > 0 /\ c[2] > 0 => g[x] = f[x]
        <5> SUFFICES ASSUME c[1] > 0, c[2] > 0 PROVE g[x] = f[x]  OBVIOUS
        <5>1. x \in Cells(b, a)  BY CellsBefore
        <5>2. x[1] + x[2] < k  BY <2>2, <4>0
        <5> QED  BY <2>1, <5>1, <5>2
      <4>2. c[1] > 0 => g[y] = f[y]
        <5> SUFFICES ASSUME c[1] > 0 PROVE g[y] = f[y]  OBVIOUS
        <5>1. y \in Cells(b, a)  BY CellsBefore
        <5>2. y[1] + y[2] < k  BY <2>2, <4>0
        <5> QED  BY <2>1, <5>1, <5>2
      <4>3. c[2] > 0 => g[z] = f[z]
        <5> SUFFICES ASSUME c[2] > 0 PROVE g[z] = f[z]  OBVIOUS
        <5>1. z \in Cells(b, a)  BY CellsBefore
        <5>2. z[1] + z[2] < k  BY <2>2, <4>0
        <5> QED  BY <2>1, <5>1, <5>2
      <4> QED  BY <4>0, <4>1, <4>2, <4>3 DEF Steps, PrefersAdded
    <3> QED  BY <3>1, <3>2
  <2>3. g = [c \in Cells(b, a) |-> g[c]]  OBVIOUS
  <2> QED  BY <2>2, <2>3
<1>2. 0 \in G
  <2> DEFINE f == [c \in Cells(b, a) |-> 0]
  <2>1. f = [c \in Cells(b, a) |-> f[c]]  OBVIOUS
  <2>2. ASSUME NEW c \in Cells(b, a) PROVE ~(c[1] + c[2] < 0)
    <3>1. c[1] \in 0..Len(b) /\ c[2] \in 0..Len(a)  BY CellsBefore
    <3> QED  BY <3>1
  <2>3. Upto(f, 0)  BY <2>2
  <2> QED  BY <2>1, <2>3
<1>3. ASSUME NEW k \in Nat, \A l \in 0..(k - 1) : l \in G PROVE k \in G
  <2>1. CASE k = 0  BY <2>1, <1>2
  <2>2. CASE k # 0
    <3>1. k - 1 \in G  BY <2>2, <1>3
    <3>2. PICK f : Upto(f, k - 1)  BY <3>1
    <3>3. k - 1 \in Nat /\ (k - 1) + 1 = k  BY <2>2
    <3> HIDE DEF Upto
    <3>4. \E g : g = [c \in Cells(b, a) |-> g[c]] /\ Upto(g, k)  BY <1>1, <3>2, <3>3
    <3> QED  BY <3>4
  <2> QED  BY <2>1, <2>2
<1>4. Len(b) + Len(a) + 1 \in G
  <2> HIDE DEF G
  <2>1. G \in SUBSET Nat  BY DEF G
  <2> QED  BY <1>3, <2>1, Least
<1>5. PICK f : f = [c \in Cells(b, a) |-> f[c]] /\ Upto(f, Len(b) + Len(a) + 1)
  BY <1>4
<1>6. ASSUME NEW c \in Cells(b, a) PROVE f[c] = Steps(f, dp, b, a, c[1], c[2])
  <2>1. c[1] \in 0..Len(b) /\ c[2] \in 0..Len(a)  BY CellsBefore
  <2>2. c[1] + c[2] < Len(b) + Len(a) + 1  BY <2>1
  <2> QED  BY <1>5, <2>2
<1>7. f = [c \in Cells(b, a) |-> Steps(f, dp, b, a, c[1], c[2])]  BY <1>5, <1>6
<1> QED  BY <1>7 DEF dp

\* The script is what a walk makes of the last cell.
LEMMA ScriptIs ==
  ASSUME NEW b, NEW a, Len(b) \in Nat, Len(a) \in Nat
  PROVE  \E w : /\ Script(b, a) = w[<<Len(b), Len(a)>>]
                /\ \A i \in 0..Len(b), j \in 0..Len(a) :
                     w[<<i, j>>] = Steps(w, Common(b, a), b, a, i, j)
<1> DEFINE D(h) == [c \in Cells(b, a) |-> Steps(h, Common(b, a), b, a, c[1], c[2])]
           w == CHOOSE h : h = D(h)
<1>1. Script(b, a) = w[<<Len(b), Len(a)>>]  BY DEF Script
<1>2. \E h : h = D(h)  BY WalkExists
<1>3. w = D(w)
  <2> HIDE DEF D
  <2> QED  BY <1>2, Zenon
<1> HIDE DEF w
<1>4. ASSUME NEW i \in 0..Len(b), NEW j \in 0..Len(a)
      PROVE  w[<<i, j>>] = Steps(w, Common(b, a), b, a, i, j)
  <2> DEFINE c == <<i, j>>
  <2>1. c \in Cells(b, a)  BY DEF Cells
  <2>2. D(w)[c] = Steps(w, Common(b, a), b, a, c[1], c[2])  BY <2>1
  <2>3. c[1] = i /\ c[2] = j  OBVIOUS
  <2> QED  BY <1>3, <2>2, <2>3
<1> QED  BY <1>1, <1>4

Kinds == {"equal", "insert", "delete"}
Edits(S) == [type : Kinds, line : S, at : Nat, to : Nat]

\* The cell at which the walk is after the first k edits.
AtOf(ops, k) == IF k = 0 THEN 0 ELSE ops[k].at
ToOf(ops, k) == IF k = 0 THEN 0 ELSE ops[k].to

\* An edit e of the texts made at a cell after x, y: the lines it has, the cell, and when
\* the walk makes it.
IsStep(dp, b, a, e, x, y) ==
  \/ /\ e.type = "equal" /\ e.at = x + 1 /\ e.to = y + 1
     /\ e.line = b[x + 1] /\ e.line = a[y + 1]
     /\ dp[<<e.at, e.to>>] = dp[<<x, y>>] + 1
  \/ /\ e.type = "insert" /\ e.at = x /\ e.to = y + 1
     /\ e.line = a[y + 1] /\ (x = 0 \/ b[x] # a[y + 1])
     /\ dp[<<e.at, e.to>>] = dp[<<x, y>>]
  \/ /\ e.type = "delete" /\ e.at = x + 1 /\ e.to = y
     /\ e.line = b[x + 1] /\ (y = 0 \/ b[x + 1] # a[y])
     /\ dp[<<e.at, e.to>>] = dp[<<x, y>>]

\* A path through the table from the first cell to i, j.
Path(ops, S, b, a, i, j) ==
  /\ ops \in Seq(Edits(S))
  /\ \A k \in 1..Len(ops) : /\ IsStep(Common(b, a), b, a, ops[k], AtOf(ops, k - 1), ToOf(ops, k - 1))
                            /\ ops[k].at <= i /\ ops[k].to <= j
  /\ AtOf(ops, Len(ops)) = i /\ ToOf(ops, Len(ops)) = j

\* A path and one step more.
LEMMA PathLonger ==
  ASSUME NEW S, NEW b, NEW a, NEW i \in Nat, NEW j \in Nat, NEW ops, Path(ops, S, b, a, i, j),
         NEW e \in Edits(S), IsStep(Common(b, a), b, a, e, i, j)
  PROVE  Path(Append(ops, e), S, b, a, e.at, e.to)
<1> DEFINE o == Append(ops, e)  n == Len(ops)
<1>1. /\ o \in Seq(Edits(S)) /\ Len(o) = n + 1 /\ n \in Nat
      /\ \A k \in 1..n : o[k] = ops[k]
      /\ o[n + 1] = e
  <2>1. ops \in Seq(Edits(S))  BY DEF Path
  <2> QED  BY <2>1, AppendProperties, LenProperties
<1>2. e.at \in Nat /\ e.to \in Nat /\ i <= e.at /\ j <= e.to
  <2>1. e.at = i \/ e.at = i + 1  BY DEF IsStep
  <2>2. e.to = j \/ e.to = j + 1  BY DEF IsStep
  <2> QED  BY <2>1, <2>2
<1> HIDE DEF o
<1>3. \A k \in 0..n : AtOf(o, k) = AtOf(ops, k) /\ ToOf(o, k) = ToOf(ops, k)
  BY <1>1 DEF AtOf, ToOf
<1>4. AtOf(o, n + 1) = e.at /\ ToOf(o, n + 1) = e.to
  BY <1>1 DEF AtOf, ToOf
<1>5. ASSUME NEW k \in 1..Len(o)
      PROVE  /\ IsStep(Common(b, a), b, a, o[k], AtOf(o, k - 1), ToOf(o, k - 1))
             /\ o[k].at <= e.at /\ o[k].to <= e.to
  <2>1. CASE k = n + 1
    <3>1. k - 1 = n /\ n \in 0..n  BY <1>1, <2>1
    <3>2. AtOf(o, k - 1) = i /\ ToOf(o, k - 1) = j /\ o[k] = e  BY <1>1, <1>3, <2>1, <3>1 DEF Path
    <3> QED  BY <1>2, <3>2
  <2>2. CASE k # n + 1
    <3>1. k \in 1..n /\ k - 1 \in 0..n  BY <1>1, <2>2
    <3>2. o[k] = ops[k] /\ ops[k] \in Edits(S)  BY <1>1, <3>1, ElementOfSeq DEF Path
    <3>3. ops[k].at \in Nat /\ ops[k].to \in Nat /\ ops[k].at <= i /\ ops[k].to <= j
      BY <3>1, <3>2 DEF Path, Edits
    <3>4. IsStep(Common(b, a), b, a, o[k], AtOf(o, k - 1), ToOf(o, k - 1))
      BY <1>3, <3>1, <3>2 DEF Path
    <3> QED  BY <1>2, <3>2, <3>3, <3>4
  <2> QED  BY <2>1, <2>2
<1> QED  BY <1>1, <1>4, <1>5 DEF Path, o

\* What the walk makes of a cell is a path to it.
LEMMA ScriptPath ==
  ASSUME NEW S, NEW b \in Seq(S), NEW a \in Seq(S)
  PROVE  Path(Script(b, a), S, b, a, Len(b), Len(a))
<1>0. Len(b) \in Nat /\ Len(a) \in Nat  BY LenProperties
<1> DEFINE dp == Common(b, a)
<1>w. PICK w : /\ Script(b, a) = w[<<Len(b), Len(a)>>]
               /\ \A i \in 0..Len(b), j \in 0..Len(a) : w[<<i, j>>] = Steps(w, dp, b, a, i, j)
  BY <1>0, ScriptIs
<1> DEFINE Holds(k) == \A i \in 0..Len(b), j \in 0..Len(a) : i + j = k => Path(w[<<i, j>>], S, b, a, i, j)
           G == {k \in Nat : Holds(k)}
<1>1. ASSUME NEW k \in Nat, \A l \in 0..(k - 1) : l \in G PROVE k \in G
  <2> SUFFICES ASSUME NEW i \in 0..Len(b), NEW j \in 0..Len(a), i + j = k
               PROVE  Path(w[<<i, j>>], S, b, a, i, j)
    OBVIOUS
  <2>1. w[<<i, j>>] = Steps(w, dp, b, a, i, j)  BY <1>w
  <2>2. dp[<<i, j>>] = Cell(dp, b, a, i, j)  BY <1>0, TableCell
  <2>3. /\ i > 0 => b[i] \in S
        /\ j > 0 => a[j] \in S
    BY <1>0, ElementOfSeq
  <2>4. /\ dp[<<i, j>>] \in Nat
        /\ i > 0 => dp[<<i - 1, j>>] \in Nat
        /\ j > 0 => dp[<<i, j - 1>>] \in Nat
        /\ i > 0 /\ j > 0 => dp[<<i - 1, j - 1>>] \in Nat
    <3>1. i > 0 => i - 1 \in 0..Len(b)  BY <1>0
    <3>2. j > 0 => j - 1 \in 0..Len(a)  BY <1>0
    <3> QED  BY <1>0, <3>1, <3>2, TableTyped
  <2>5. CASE i = 0 /\ j = 0
    <3>1. w[<<i, j>>] = <<>>  BY <2>1, <2>5 DEF Steps
    <3> QED  BY <2>5, <3>1 DEF Path, AtOf, ToOf
  <2>6. CASE i > 0 /\ j > 0 /\ b[i] = a[j]
    <3> DEFINE e == Edit("equal", b[i], i, j)
    <3>1. w[<<i, j>>] = Append(w[<<i - 1, j - 1>>], e)  BY <2>1, <2>6 DEF Steps
    <3>2. Path(w[<<i - 1, j - 1>>], S, b, a, i - 1, j - 1)
      <4>1. i - 1 \in 0..Len(b) /\ j - 1 \in 0..Len(a) /\ (i - 1) + (j - 1) \in 0..(k - 1)
        BY SMTT(40), <1>0, <2>6
      <4>2. Holds((i - 1) + (j - 1))  BY <1>1, <4>1
      <4> QED  BY <4>1, <4>2
    <3>3. e \in Edits(S) /\ e.at = i /\ e.to = j  BY <2>3, <2>6 DEF Edit, Edits, Kinds
    <3>4. IsStep(dp, b, a, e, i - 1, j - 1)  BY <2>2, <2>4, <2>6 DEF IsStep, Edit, Cell
    <3> HIDE DEF e
    <3>5. i - 1 \in Nat /\ j - 1 \in Nat  BY <2>6
    <3> QED  BY <3>1, <3>2, <3>3, <3>4, <3>5, PathLonger
  <2>7. CASE ~(i > 0 /\ j > 0 /\ b[i] = a[j]) /\ PrefersAdded(dp, i, j)
    <3> DEFINE e == Edit("insert", a[j], i, j)
    <3>0. j > 0  BY <2>7 DEF PrefersAdded
    <3>1. w[<<i, j>>] = Append(w[<<i, j - 1>>], e)  BY <2>1, <2>7, <3>0 DEF Steps
    <3>2. Path(w[<<i, j - 1>>], S, b, a, i, j - 1)
      <4>1. i \in 0..Len(b) /\ j - 1 \in 0..Len(a) /\ i + (j - 1) \in 0..(k - 1)
        BY <1>0, <3>0
      <4>2. Holds(i + (j - 1))  BY <1>1, <4>1
      <4> QED  BY <4>1, <4>2
    <3>3. e \in Edits(S) /\ e.at = i /\ e.to = j  BY <2>3, <3>0 DEF Edit, Edits, Kinds
    <3>4. dp[<<i, j>>] = dp[<<i, j - 1>>]
      <4>1. CASE i = 0
        <5>1. dp[<<i, j - 1>>] = Cell(dp, b, a, i, j - 1)
          <6>1. j - 1 \in 0..Len(a)  BY <1>0, <3>0
          <6> QED  BY <1>0, <6>1, TableCell
        <5> QED  BY <2>2, <4>1, <5>1 DEF Cell
      <4>2. CASE i # 0  BY <2>2, <2>4, <2>7, <3>0, <4>2 DEF Cell, PrefersAdded, Larger
      <4> QED  BY <4>1, <4>2
    <3>5. IsStep(dp, b, a, e, i, j - 1)  BY <2>7, <3>0, <3>4 DEF IsStep, Edit
    <3> HIDE DEF e
    <3>6. i \in Nat /\ j - 1 \in Nat  BY <3>0
    <3> QED  BY <3>1, <3>2, <3>3, <3>5, <3>6, PathLonger
  <2>8. CASE ~(i = 0 /\ j = 0) /\ ~(i > 0 /\ j > 0 /\ b[i] = a[j]) /\ ~PrefersAdded(dp, i, j)
    <3> DEFINE e == Edit("delete", b[i], i, j)
    <3>0. i > 0  BY <2>8 DEF PrefersAdded
    <3>1. w[<<i, j>>] = Append(w[<<i - 1, j>>], e)  BY <2>1, <2>8, <3>0 DEF Steps
    <3>2. Path(w[<<i - 1, j>>], S, b, a, i - 1, j)
      <4>1. i - 1 \in 0..Len(b) /\ j \in 0..Len(a) /\ (i - 1) + j \in 0..(k - 1)
        BY <1>0, <3>0
      <4>2. Holds((i - 1) + j)  BY <1>1, <4>1
      <4> QED  BY <4>1, <4>2
    <3>3. e \in Edits(S) /\ e.at = i /\ e.to = j  BY <2>3, <3>0 DEF Edit, Edits, Kinds
    <3>4. dp[<<i, j>>] = dp[<<i - 1, j>>]
      <4>1. CASE j = 0
        <5>1. dp[<<i - 1, j>>] = Cell(dp, b, a, i - 1, j)
          <6>1. i - 1 \in 0..Len(b)  BY <1>0, <3>0
          <6> QED  BY <1>0, <6>1, TableCell
        <5> QED  BY <2>2, <4>1, <5>1 DEF Cell
      <4>2. CASE j # 0  BY <2>2, <2>4, <2>8, <3>0, <4>2 DEF Cell, PrefersAdded, Larger
      <4> QED  BY <4>1, <4>2
    <3>5. IsStep(dp, b, a, e, i - 1, j)  BY <2>8, <3>0, <3>4 DEF IsStep, Edit
    <3> HIDE DEF e
    <3>6. i - 1 \in Nat /\ j \in Nat  BY <3>0
    <3> QED  BY <3>1, <3>2, <3>3, <3>5, <3>6, PathLonger
  <2> QED  BY <2>5, <2>6, <2>7, <2>8
<1>2. \A k \in Nat : k \in G
  <2> HIDE DEF G
  <2>1. G \in SUBSET Nat  BY DEF G
  <2> QED  BY <1>1, <2>1, Least
<1>3. Holds(Len(b) + Len(a))  BY <1>0, <1>2
<1>4. Path(w[<<Len(b), Len(a)>>], S, b, a, Len(b), Len(a))
  <2>1. Len(b) \in 0..Len(b) /\ Len(a) \in 0..Len(a)  BY <1>0
  <2> QED  BY <1>3, <2>1
<1> QED  BY <1>4, <1>w

-----------------------------------------------------------------------------
\* What a loop of n rounds keeps: the first value, and after each round what the step
\* makes of the value before it.
IsRun(f, n, v0, step) == f[0] = v0 /\ \A k \in 1..n : f[k] = step[k][f[k - 1]]

\* Every loop has a run.
LEMMA LoopRuns ==
  ASSUME NEW n \in Nat, NEW V, NEW v0 \in V, NEW step \in [1..n -> [V -> V]]
  PROVE  \E f \in [0..n -> V] : IsRun(f, n, v0, step)
<1> DEFINE Upto(f, m) == f[0] = v0 /\ \A k \in 1..n : k <= m => f[k] = step[k][f[k - 1]]
           G == {m \in Nat : \E f \in [0..n -> V] : Upto(f, m)}
<1>1. 0 \in G
  <2> DEFINE f == [k \in 0..n |-> v0]
  <2>1. f \in [0..n -> V] /\ Upto(f, 0)  OBVIOUS
  <2> QED  BY <2>1
<1>2. ASSUME NEW m \in Nat, NEW f \in [0..n -> V], Upto(f, m)
      PROVE  \E g \in [0..n -> V] : Upto(g, m + 1)
  <2>1. CASE m + 1 > n
    <3>1. Upto(f, m + 1)  BY <1>2, <2>1
    <3> QED  BY <3>1
  <2>2. CASE m + 1 <= n
    <3>1. m + 1 \in 1..n /\ m \in 0..n  BY <2>2
    <3> DEFINE v == step[m + 1][f[m]]
               g == [f EXCEPT ![m + 1] = v]
    <3>2. v \in V
      <4>1. step[m + 1] \in [V -> V] /\ f[m] \in V  BY <3>1
      <4> QED  BY <4>1
    <3>3. g \in [0..n -> V]  BY <3>1, <3>2
    <3>4. g[m + 1] = v /\ \A k \in 0..n : k # m + 1 => g[k] = f[k]  BY <3>1
    <3> HIDE DEF g
    <3>5. g[0] = v0  BY <1>2, <3>4
    <3>6. ASSUME NEW k \in 1..n, k <= m + 1 PROVE g[k] = step[k][g[k - 1]]
      <4>1. CASE k = m + 1
        <5>1. k - 1 = m /\ g[m] = f[m]  BY <3>1, <3>4, <4>1
        <5> QED  BY <3>4, <4>1, <5>1
      <4>2. CASE k # m + 1
        <5>1. k <= m /\ k - 1 \in 0..n /\ k - 1 # m + 1  BY <3>6, <4>2
        <5>2. g[k] = f[k] /\ g[k - 1] = f[k - 1]  BY <3>4, <4>2, <5>1
        <5> QED  BY <1>2, <5>1, <5>2
      <4> QED  BY <4>1, <4>2
    <3> QED  BY <3>3, <3>5, <3>6
  <2> QED  BY <2>1, <2>2
<1>3. ASSUME NEW k \in Nat, \A l \in 0..(k - 1) : l \in G PROVE k \in G
  <2>1. CASE k = 0  BY <2>1, <1>1
  <2>2. CASE k # 0
    <3>1. k - 1 \in Nat /\ (k - 1) + 1 = k /\ k - 1 \in 0..(k - 1)  BY <2>2
    <3>2. k - 1 \in G
      <4> HIDE DEF G
      <4> QED  BY <1>3, <3>1
    <3>3. PICK f \in [0..n -> V] : Upto(f, k - 1)  BY <3>2
    <3> HIDE DEF Upto
    <3>4. \E g \in [0..n -> V] : Upto(g, k)  BY <1>2, <3>1, <3>3
    <3> QED  BY <3>4
  <2> QED  BY <2>1, <2>2
<1>4. n \in G
  <2> HIDE DEF G
  <2>1. G \in SUBSET Nat  BY DEF G
  <2> QED  BY <1>3, <2>1, Least
<1>5. PICK f \in [0..n -> V] : Upto(f, n)  BY <1>4
<1>6. IsRun(f, n, v0, step)  BY <1>5 DEF IsRun
<1> QED  BY <1>6

\* The lines of the first edits that are of some kinds, edit by edit.
IsText(t, ops, kinds) ==
  /\ TextOf(ops, kinds) = t[Len(ops)]
  /\ t[0] = <<>>
  /\ \A k \in 1..Len(ops) :
       t[k] = IF ops[k].type \in kinds THEN Append(t[k - 1], ops[k].line) ELSE t[k - 1]

\* There are such texts.
LEMMA TextSteps ==
  ASSUME NEW S, NEW ops \in Seq(Edits(S)), NEW kinds
  PROVE  \E t \in [0..Len(ops) -> Seq(S)] : IsText(t, ops, kinds)
<1> DEFINE n == Len(ops)
           D(h) == [k \in 0..n |-> IF k = 0 THEN <<>>
                      ELSE IF ops[k].type \in kinds THEN Append(h[k - 1], ops[k].line) ELSE h[k - 1]]
           t == CHOOSE h : h = D(h)
           step == [k \in 1..n |-> [v \in Seq(S) |->
                      IF ops[k].type \in kinds THEN Append(v, ops[k].line) ELSE v]]
<1>1. TextOf(ops, kinds) = t[n]  BY DEF TextOf
<1>2. n \in Nat /\ \A k \in 1..n : ops[k] \in Edits(S) /\ ops[k].line \in S
  <2>1. n \in Nat  BY LenProperties
  <2>2. \A k \in 1..n : ops[k] \in Edits(S)  BY ElementOfSeq
  <2> QED  BY <2>1, <2>2 DEF Edits
<1>3. step \in [1..n -> [Seq(S) -> Seq(S)]]
  <2>1. \A k \in 1..n : \A v \in Seq(S) : Append(v, ops[k].line) \in Seq(S)
    BY <1>2, AppendProperties
  <2> QED  BY <2>1
<1>4. <<>> \in Seq(S)  BY EmptySeq
<1>5. PICK f \in [0..n -> Seq(S)] : IsRun(f, n, <<>>, step)
  <2> HIDE DEF step
  <2>1. n \in Nat  BY <1>2
  <2> QED  BY <2>1, <1>3, <1>4, LoopRuns
<1>6. ASSUME NEW k \in 1..n
      PROVE  f[k] = IF ops[k].type \in kinds THEN Append(f[k - 1], ops[k].line) ELSE f[k - 1]
  <2>1. k - 1 \in 0..n  BY <1>2
  <2>2. f[k - 1] \in Seq(S)  BY <2>1
  <2>3. f[k] = step[k][f[k - 1]]
    <3> HIDE DEF step
    <3> QED  BY <1>5 DEF IsRun
  <2> QED  BY <2>2, <2>3
<1>7. f = D(f)
  <2>1. \A k \in 0..n : f[k] = D(f)[k]
    <3> SUFFICES ASSUME NEW k \in 0..n PROVE f[k] = D(f)[k]  OBVIOUS
    <3>1. CASE k = 0  BY <1>5, <3>1 DEF IsRun
    <3>2. CASE k # 0
      <4>1. k \in 1..n  BY <1>2, <3>2
      <4> QED  BY <1>6, <3>2, <4>1
    <3> QED  BY <3>1, <3>2
  <2>2. f = [k \in 0..n |-> f[k]] /\ D(f) = [k \in 0..n |-> D(f)[k]]  OBVIOUS
  <2> HIDE DEF D
  <2> QED  BY <2>1, <2>2
<1>8. t = D(t)
  <2> HIDE DEF D
  <2> QED  BY <1>7, Zenon
<1>9. t[0] = <<>> /\ \A k \in 1..n :
        t[k] = IF ops[k].type \in kinds THEN Append(t[k - 1], ops[k].line) ELSE t[k - 1]
  <2> HIDE DEF t
  <2>1. \A k \in 0..n : t[k] = D(t)[k]
    <3> HIDE DEF D
    <3> QED  BY <1>8
  <2> QED  BY <1>2, <2>1
<1>10. t \in [0..n -> Seq(S)]
  <2> DEFINE G == {k \in Nat : k <= n => t[k] \in Seq(S)}
  <2>1. ASSUME NEW k \in Nat, \A l \in 0..(k - 1) : l \in G PROVE k \in G
    <3> HIDE DEF t
    <3>1. CASE k = 0  BY <1>4, <1>9, <3>1
    <3>2. CASE k # 0 /\ k <= n
      <4>1. k \in 1..n /\ k - 1 \in 0..(k - 1)  BY <1>2, <3>2
      <4>2. t[k - 1] \in Seq(S)  BY <2>1, <4>1, <1>2
      <4>3. Append(t[k - 1], ops[k].line) \in Seq(S)  BY <1>2, <4>1, <4>2, AppendProperties
      <4> QED  BY <1>9, <4>1, <4>2, <4>3
    <3> QED  BY <3>1, <3>2
  <2>2. \A k \in Nat : k \in G
    <3> HIDE DEF G
    <3>1. G \in SUBSET Nat  BY DEF G
    <3> QED  BY <2>1, <3>1, Least
  <2> HIDE DEF t
  <2>3. \A k \in 0..n : t[k] \in Seq(S)  BY <1>2, <2>2
  <2>4. t = [k \in 0..n |-> t[k]]  BY <1>8
  <2> QED  BY <2>3, <2>4
<1> HIDE DEF t
<1>11. IsText(t, ops, kinds)  BY <1>1, <1>9 DEF IsText
<1> QED  BY <1>10, <1>11

\* Each edit moves on in the text s by one line, its own, or not at all.
Follows(p, ops, kinds, s) ==
  \A k \in 1..Len(ops) :
    IF ops[k].type \in kinds THEN p[k] = p[k - 1] + 1 /\ ops[k].line = s[p[k]] ELSE p[k] = p[k - 1]

\* Then the lines told are a piece of that text.
LEMMA TextIs ==
  ASSUME NEW S, NEW ops \in Seq(Edits(S)), NEW kinds, NEW s \in Seq(S),
         NEW p \in [0..Len(ops) -> 0..Len(s)], Follows(p, ops, kinds, s)
  PROVE  /\ TextOf(ops, kinds) = SubSeq(s, p[0] + 1, p[Len(ops)])
         /\ p[0] <= p[Len(ops)]
         /\ Len(TextOf(ops, kinds)) = p[Len(ops)] - p[0]
<1> DEFINE n == Len(ops)
<1>0. n \in Nat /\ Len(s) \in Nat  BY LenProperties
<1>t. PICK t \in [0..n -> Seq(S)] : IsText(t, ops, kinds)  BY TextSteps
<1>1. /\ TextOf(ops, kinds) = t[n]
      /\ t[0] = <<>>
      /\ \A k \in 1..n : t[k] = IF ops[k].type \in kinds THEN Append(t[k - 1], ops[k].line) ELSE t[k - 1]
  BY <1>t DEF IsText
<1> DEFINE Holds(k) == p[0] <= p[k] /\ t[k] = SubSeq(s, p[0] + 1, p[k])
           G == {k \in Nat : k <= n => Holds(k)}
<1>2. \A k \in 0..n : p[k] \in Nat /\ p[k] <= Len(s)
  <2> SUFFICES ASSUME NEW k \in 0..n PROVE p[k] \in Nat /\ p[k] <= Len(s)  OBVIOUS
  <2>1. p[k] \in 0..Len(s)  OBVIOUS
  <2> QED  BY <1>0, <2>1
<1>3. ASSUME NEW k \in Nat, \A l \in 0..(k - 1) : l \in G PROVE k \in G
  <2>1. CASE k = 0
    <3>1. p[0] \in Nat  BY <1>0, <1>2
    <3>2. SubSeq(s, p[0] + 1, p[0]) = <<>>  BY <3>1, SubSeqEmpty
    <3>3. Holds(0)  BY <1>1, <3>1, <3>2
    <3> QED  BY <2>1, <3>3
  <2>2. CASE k # 0 /\ k <= n
    <3>1. k \in 1..n /\ k - 1 \in 0..(k - 1) /\ k - 1 \in 0..n /\ k \in 0..n /\ 0 \in 0..n
      BY <1>0, <2>2
    <3>2. Holds(k - 1)
      <4>1. k - 1 \in G
        <5> HIDE DEF G
        <5> QED  BY <1>3, <3>1
      <4> HIDE DEF Holds
      <4> QED  BY <1>0, <3>1, <4>1
    <3>3. p[0] \in Nat /\ p[k] \in Nat /\ p[k - 1] \in Nat /\ p[k] <= Len(s)  BY <1>2, <3>1
    <3>4. CASE ops[k].type \in kinds
      <4>1. p[k] = p[k - 1] + 1 /\ ops[k].line = s[p[k]]  BY <3>1, <3>4 DEF Follows
      <4>0. p[0] <= p[k - 1]  BY <3>2
      <4>2. p[0] + 1 \in 1..Len(s) /\ p[k] \in (p[0] + 1)..Len(s)  BY <1>0, <3>3, <4>0, <4>1
      <4>3. SubSeq(s, p[0] + 1, p[k]) = SubSeq(s, p[0] + 1, p[k] - 1) \o <<s[p[k]]>>
        BY <4>2, SubSeqRecursiveSecond
      <4>4. s[p[k]] \in S /\ t[k - 1] \in Seq(S)
        <5>1. p[k] \in 1..Len(s)  BY <4>2
        <5> QED  BY <3>1, <5>1, ElementOfSeq
      <4>5. Append(t[k - 1], s[p[k]]) = t[k - 1] \o <<s[p[k]]>>  BY <4>4, AppendIsConcat
      <4>6. p[k] - 1 = p[k - 1]  BY <3>3, <4>1
      <4>7. t[k] = Append(t[k - 1], s[p[k]])  BY <1>1, <3>1, <3>4, <4>1
      <4>8. t[k] = SubSeq(s, p[0] + 1, p[k])  BY <3>2, <4>3, <4>5, <4>6, <4>7
      <4> QED  BY <3>2, <3>3, <4>1, <4>8
    <3>5. CASE ops[k].type \notin kinds
      <4>1. p[k] = p[k - 1] /\ t[k] = t[k - 1]  BY <1>1, <3>1, <3>5 DEF Follows
      <4> QED  BY <3>2, <4>1
    <3> QED  BY <3>4, <3>5
  <2> QED  BY <1>0, <2>1, <2>2
<1>4. \A k \in Nat : k \in G
  <2> HIDE DEF G
  <2>1. G \in SUBSET Nat  BY DEF G
  <2> QED  BY <1>3, <2>1, Least
<1>5. Holds(n)  BY <1>0, <1>4
<1>6. Len(SubSeq(s, p[0] + 1, p[n])) = p[n] - p[0]
  <2>1. p[0] \in Nat /\ p[n] \in Nat /\ p[n] <= Len(s)  BY <1>0, <1>2
  <2>2. \A i \in (p[0] + 1)..p[n] : s[i] \in S
    <3> SUFFICES ASSUME NEW i \in (p[0] + 1)..p[n] PROVE s[i] \in S  OBVIOUS
    <3>1. i \in 1..Len(s)  BY <1>0, <2>1
    <3> QED  BY <3>1, ElementOfSeq
  <2>3. Len(SubSeq(s, p[0] + 1, p[n])) = IF p[0] + 1 <= p[n] THEN p[n] - (p[0] + 1) + 1 ELSE 0
    BY <2>1, <2>2, SubSeqProperties
  <2> QED  BY <1>5, <2>1, <2>3
<1> QED  BY <1>1, <1>5, <1>6

-----------------------------------------------------------------------------
\* A path from the first cell of the table to the last.
WholePath(ops, S, b, a) == b \in Seq(S) /\ a \in Seq(S) /\ Path(ops, S, b, a, Len(b), Len(a))

\* Where a path is before and after each of its edits.
LEMMA PathSteps ==
  ASSUME NEW S, NEW b, NEW a, NEW ops, WholePath(ops, S, b, a)
  PROVE  /\ Len(ops) \in Nat /\ Len(b) \in Nat /\ Len(a) \in Nat
         /\ \A k \in 0..Len(ops) : AtOf(ops, k) \in 0..Len(b) /\ ToOf(ops, k) \in 0..Len(a)
         /\ \A k \in 1..Len(ops) :
              /\ ops[k] \in Edits(S) /\ ops[k].type \in Kinds
              /\ ops[k].at = AtOf(ops, k) /\ ops[k].to = ToOf(ops, k)
              /\ IsStep(Common(b, a), b, a, ops[k], AtOf(ops, k - 1), ToOf(ops, k - 1))
         /\ AtOf(ops, 0) = 0 /\ ToOf(ops, 0) = 0
         /\ AtOf(ops, Len(ops)) = Len(b) /\ ToOf(ops, Len(ops)) = Len(a)
<1>1. Len(ops) \in Nat /\ Len(b) \in Nat /\ Len(a) \in Nat
  BY LenProperties DEF WholePath, Path
<1>2. ASSUME NEW k \in 1..Len(ops)
      PROVE  /\ ops[k] \in Edits(S) /\ ops[k].type \in Kinds
             /\ ops[k].at = AtOf(ops, k) /\ ops[k].to = ToOf(ops, k)
             /\ ops[k].at \in 0..Len(b) /\ ops[k].to \in 0..Len(a)
             /\ IsStep(Common(b, a), b, a, ops[k], AtOf(ops, k - 1), ToOf(ops, k - 1))
  <2>1. ops[k] \in Edits(S)  BY ElementOfSeq DEF WholePath, Path
  <2>2. ops[k].at <= Len(b) /\ ops[k].to <= Len(a)  BY DEF WholePath, Path
  <2>3. ops[k].at \in Nat /\ ops[k].to \in Nat /\ ops[k].type \in Kinds  BY <2>1 DEF Edits
  <2>4. IsStep(Common(b, a), b, a, ops[k], AtOf(ops, k - 1), ToOf(ops, k - 1))  BY DEF WholePath, Path
  <2>5. k # 0  BY <1>1
  <2> QED  BY <1>1, <2>1, <2>2, <2>3, <2>4, <2>5 DEF AtOf, ToOf
<1>3. AtOf(ops, 0) = 0 /\ ToOf(ops, 0) = 0  BY DEF AtOf, ToOf
<1>4. ASSUME NEW k \in 0..Len(ops) PROVE AtOf(ops, k) \in 0..Len(b) /\ ToOf(ops, k) \in 0..Len(a)
  <2>1. CASE k = 0  BY <1>1, <1>3, <2>1
  <2>2. CASE k # 0
    <3>1. k \in 1..Len(ops)  BY <1>1, <2>2
    <3> QED  BY <1>2, <3>1
  <2> QED  BY <2>1, <2>2
<1> QED  BY <1>1, <1>2, <1>3, <1>4 DEF WholePath, Path

\* The edit k moves on in the texts it has a line of, by that line.
MovesOn(ops, b, a, k) ==
  /\ IF ops[k].type \in OfOld
       THEN AtOf(ops, k) = AtOf(ops, k - 1) + 1 /\ ops[k].line = b[AtOf(ops, k)]
       ELSE AtOf(ops, k) = AtOf(ops, k - 1)
  /\ IF ops[k].type \in OfNew
       THEN ToOf(ops, k) = ToOf(ops, k - 1) + 1 /\ ops[k].line = a[ToOf(ops, k)]
       ELSE ToOf(ops, k) = ToOf(ops, k - 1)

\* A line told of one text only is not that of the other there.
Differs(ops, b, a, k) ==
  ops[k].type # "equal" => AtOf(ops, k) = 0 \/ ToOf(ops, k) = 0 \/ b[AtOf(ops, k)] # a[ToOf(ops, k)]

\* Every edit does; a line that is told of one text only is not that of the other there,
\* and the table grows by the lines told of both.
LEMMA PathMoves ==
  ASSUME NEW S, NEW b, NEW a, NEW ops, WholePath(ops, S, b, a), NEW k \in 1..Len(ops)
  PROVE  /\ MovesOn(ops, b, a, k)
         /\ ops[k].type \in OfOld \/ ops[k].type \in OfNew
         /\ Differs(ops, b, a, k)
         /\ IF ops[k].type = "equal"
              THEN Common(b, a)[<<AtOf(ops, k), ToOf(ops, k)>>] =
                     Common(b, a)[<<AtOf(ops, k - 1), ToOf(ops, k - 1)>>] + 1
              ELSE Common(b, a)[<<AtOf(ops, k), ToOf(ops, k)>>] =
                     Common(b, a)[<<AtOf(ops, k - 1), ToOf(ops, k - 1)>>]
<1> DEFINE x == AtOf(ops, k - 1)  y == ToOf(ops, k - 1)  e == ops[k]
<1>1. /\ e.at = AtOf(ops, k) /\ e.to = ToOf(ops, k)
      /\ IsStep(Common(b, a), b, a, e, x, y)
      /\ x \in Nat /\ y \in Nat
  <2>1. k - 1 \in 0..Len(ops)  BY PathSteps
  <2>2. x \in 0..Len(b) /\ y \in 0..Len(a)  BY <2>1, PathSteps
  <2>3. Len(b) \in Nat /\ Len(a) \in Nat  BY PathSteps
  <2> HIDE DEF x, y
  <2>4. x \in Nat /\ y \in Nat  BY <2>2, <2>3
  <2> QED  BY <2>4, PathSteps DEF x, y
<1> HIDE DEF x, y, e
<1>2. \/ e.type = "equal" \/ e.type = "insert" \/ e.type = "delete"  BY <1>1 DEF IsStep
<1>3. /\ "equal" \in OfOld /\ "delete" \in OfOld /\ "insert" \notin OfOld
      /\ "equal" \in OfNew /\ "insert" \in OfNew /\ "delete" \notin OfNew
  BY DEF OfOld, OfNew
<1>4. CASE e.type = "equal"  BY <1>1, <1>3, <1>4 DEF IsStep, MovesOn, Differs, e, x, y
<1>5. CASE e.type = "insert"  BY <1>1, <1>3, <1>5 DEF IsStep, MovesOn, Differs, e, x, y
<1>6. CASE e.type = "delete"  BY <1>1, <1>3, <1>6 DEF IsStep, MovesOn, Differs, e, x, y
<1> QED  BY <1>2, <1>4, <1>5, <1>6

\* A piece of a path tells the lines of either text between the cells it runs from and to.
LEMMA PathPiece ==
  ASSUME NEW S, NEW b, NEW a, NEW ops, WholePath(ops, S, b, a),
         NEW s \in 1..(Len(ops) + 1), NEW e \in (s - 1)..Len(ops)
  PROVE  /\ TextOf(SubSeq(ops, s, e), OfOld) = SubSeq(b, AtOf(ops, s - 1) + 1, AtOf(ops, e))
         /\ TextOf(SubSeq(ops, s, e), OfNew) = SubSeq(a, ToOf(ops, s - 1) + 1, ToOf(ops, e))
         /\ Len(TextOf(SubSeq(ops, s, e), OfOld)) = AtOf(ops, e) - AtOf(ops, s - 1)
         /\ Len(TextOf(SubSeq(ops, s, e), OfNew)) = ToOf(ops, e) - ToOf(ops, s - 1)
         /\ AtOf(ops, s - 1) <= AtOf(ops, e) /\ ToOf(ops, s - 1) <= ToOf(ops, e)
<1> DEFINE o == SubSeq(ops, s, e)  n == e - s + 1
           x == [k \in 0..n |-> AtOf(ops, s - 1 + k)]
           y == [k \in 0..n |-> ToOf(ops, s - 1 + k)]
<1>0. /\ Len(ops) \in Nat /\ s \in Nat /\ e \in Nat /\ n \in Nat /\ b \in Seq(S) /\ a \in Seq(S)
      /\ \A k \in 0..n : s - 1 + k \in 0..Len(ops)
      /\ \A k \in 1..n : s - 1 + k \in 1..Len(ops)
      /\ s - 1 + n = e /\ s - 1 + 0 = s - 1
  <2>1. Len(ops) \in Nat /\ b \in Seq(S) /\ a \in Seq(S)  BY PathSteps DEF WholePath
  <2> QED  BY <2>1
<1>1. o \in Seq(Edits(S)) /\ Len(o) = n /\ \A k \in 1..n : o[k] = ops[s - 1 + k]
  <2>1. \A k \in s..e : ops[k] \in Edits(S)
    <3> SUFFICES ASSUME NEW k \in s..e PROVE ops[k] \in Edits(S)  OBVIOUS
    <3>1. k \in 1..Len(ops)  BY <1>0
    <3> QED  BY <3>1, PathSteps
  <2>2. /\ o \in Seq(Edits(S))
        /\ Len(o) = IF s <= e THEN e - s + 1 ELSE 0
        /\ \A k \in 1..(e - s + 1) : o[k] = ops[s + k - 1]
    <3>1. s \in Int /\ e \in Int  BY <1>0
    <3> QED  BY <2>1, <3>1, SubSeqProperties
  <2>3. \A k \in 1..n : s + k - 1 = s - 1 + k  BY <1>0
  <2> QED  BY <1>0, <2>2, <2>3
<1> HIDE DEF o
<1>2. x \in [0..n -> 0..Len(b)] /\ y \in [0..n -> 0..Len(a)]
  <2>1. \A k \in 0..n : AtOf(ops, s - 1 + k) \in 0..Len(b) /\ ToOf(ops, s - 1 + k) \in 0..Len(a)
    BY <1>0, PathSteps
  <2> QED  BY <2>1
<1>3. ASSUME NEW k \in 1..n
      PROVE  /\ IF o[k].type \in OfOld THEN x[k] = x[k - 1] + 1 /\ o[k].line = b[x[k]] ELSE x[k] = x[k - 1]
             /\ IF o[k].type \in OfNew THEN y[k] = y[k - 1] + 1 /\ o[k].line = a[y[k]] ELSE y[k] = y[k - 1]
  <2> DEFINE l == s - 1 + k
  <2>1. l \in 1..Len(ops) /\ o[k] = ops[l]  BY <1>0, <1>1
  <2>2. k \in 0..n /\ k - 1 \in 0..n /\ l - 1 = s - 1 + (k - 1)  BY <1>0
  <2>3. /\ x[k] = AtOf(ops, l) /\ y[k] = ToOf(ops, l)
        /\ x[k - 1] = AtOf(ops, l - 1) /\ y[k - 1] = ToOf(ops, l - 1)
    BY <2>2
  <2> HIDE DEF x, y, l
  <2>4. MovesOn(ops, b, a, l)  BY <2>1, PathMoves
  <2> QED  BY <2>1, <2>3, <2>4 DEF MovesOn
<1>4. /\ x[0] = AtOf(ops, s - 1) /\ y[0] = ToOf(ops, s - 1)
      /\ x[n] = AtOf(ops, e) /\ y[n] = ToOf(ops, e)
  BY <1>0
<1> HIDE DEF x, y, n
<1>5. /\ TextOf(o, OfOld) = SubSeq(b, x[0] + 1, x[n]) /\ x[0] <= x[n]
      /\ Len(TextOf(o, OfOld)) = x[n] - x[0]
  <2>1. x \in [0..Len(o) -> 0..Len(b)]  BY <1>1, <1>2
  <2>2. Follows(x, o, OfOld, b)  BY <1>1, <1>3 DEF Follows
  <2>3. o \in Seq(Edits(S)) /\ b \in Seq(S)  BY <1>0, <1>1
  <2>4. /\ TextOf(o, OfOld) = SubSeq(b, x[0] + 1, x[Len(o)]) /\ x[0] <= x[Len(o)]
        /\ Len(TextOf(o, OfOld)) = x[Len(o)] - x[0]
    BY <2>1, <2>2, <2>3, TextIs
  <2> QED  BY <1>1, <2>4
<1>6. /\ TextOf(o, OfNew) = SubSeq(a, y[0] + 1, y[n]) /\ y[0] <= y[n]
      /\ Len(TextOf(o, OfNew)) = y[n] - y[0]
  <2>1. y \in [0..Len(o) -> 0..Len(a)]  BY <1>1, <1>2
  <2>2. Follows(y, o, OfNew, a)  BY <1>1, <1>3 DEF Follows
  <2>3. o \in Seq(Edits(S)) /\ a \in Seq(S)  BY <1>0, <1>1
  <2>4. /\ TextOf(o, OfNew) = SubSeq(a, y[0] + 1, y[Len(o)]) /\ y[0] <= y[Len(o)]
        /\ Len(TextOf(o, OfNew)) = y[Len(o)] - y[0]
    BY <2>1, <2>2, <2>3, TextIs
  <2> QED  BY <1>1, <2>4
<1> QED  BY <1>4, <1>5, <1>6 DEF o

\* A whole path tells both texts.
LEMMA PathTells ==
  ASSUME NEW S, NEW b, NEW a, NEW ops, WholePath(ops, S, b, a)
  PROVE  TextOf(ops, OfOld) = b /\ TextOf(ops, OfNew) = a
<1>1. Len(ops) \in Nat /\ Len(b) \in Nat /\ Len(a) \in Nat  BY PathSteps
<1>2. ops \in Seq(Edits(S)) /\ b \in Seq(S) /\ a \in Seq(S)  BY DEF WholePath, Path
<1>3. SubSeq(ops, 1, Len(ops)) = ops  BY <1>2, SubSeqFull
<1>4. SubSeq(b, 1, Len(b)) = b /\ SubSeq(a, 1, Len(a)) = a  BY <1>2, SubSeqFull
<1>5. /\ AtOf(ops, 0) = 0 /\ ToOf(ops, 0) = 0
      /\ AtOf(ops, Len(ops)) = Len(b) /\ ToOf(ops, Len(ops)) = Len(a)
  BY PathSteps
<1>6. 1 \in 1..(Len(ops) + 1) /\ Len(ops) \in (1 - 1)..Len(ops) /\ 1 - 1 = 0 /\ 0 + 1 = 1  BY <1>1
<1>7. /\ TextOf(SubSeq(ops, 1, Len(ops)), OfOld) = SubSeq(b, AtOf(ops, 1 - 1) + 1, AtOf(ops, Len(ops)))
      /\ TextOf(SubSeq(ops, 1, Len(ops)), OfNew) = SubSeq(a, ToOf(ops, 1 - 1) + 1, ToOf(ops, Len(ops)))
  BY <1>6, PathPiece
<1> QED  BY <1>3, <1>4, <1>5, <1>6, <1>7

\* A piece of a path that has a line of a text gets on in it; one that has none does not.
LEMMA PathGrows ==
  ASSUME NEW S, NEW b, NEW a, NEW ops, WholePath(ops, S, b, a),
         NEW s \in 1..(Len(ops) + 1), NEW e \in (s - 1)..Len(ops)
  PROVE  /\ (\E k \in s..e : ops[k].type \in OfOld) => AtOf(ops, s - 1) < AtOf(ops, e)
         /\ (\E k \in s..e : ops[k].type \in OfNew) => ToOf(ops, s - 1) < ToOf(ops, e)
<1>0. Len(ops) \in Nat  BY PathSteps
<1>1. ASSUME NEW k \in s..e
      PROVE  /\ k \in 1..Len(ops) /\ k - 1 \in 0..Len(ops) /\ e \in 0..Len(ops) /\ s - 1 \in 0..Len(ops)
             /\ AtOf(ops, s - 1) <= AtOf(ops, k - 1) /\ ToOf(ops, s - 1) <= ToOf(ops, k - 1)
             /\ AtOf(ops, k) <= AtOf(ops, e) /\ ToOf(ops, k) <= ToOf(ops, e)
  <2>1. /\ k \in 1..Len(ops) /\ k - 1 \in 0..Len(ops) /\ e \in 0..Len(ops) /\ s - 1 \in 0..Len(ops)
        /\ k - 1 \in (s - 1)..Len(ops)
        /\ k + 1 \in 1..(Len(ops) + 1) /\ e \in ((k + 1) - 1)..Len(ops) /\ (k + 1) - 1 = k
    BY <1>0
  <2>2. AtOf(ops, s - 1) <= AtOf(ops, k - 1) /\ ToOf(ops, s - 1) <= ToOf(ops, k - 1)
    BY <2>1, PathPiece
  <2>3. AtOf(ops, (k + 1) - 1) <= AtOf(ops, e) /\ ToOf(ops, (k + 1) - 1) <= ToOf(ops, e)
    BY <2>1, PathPiece
  <2> QED  BY <2>1, <2>2, <2>3
<1>2. \A l \in 0..Len(ops) : AtOf(ops, l) \in Nat /\ ToOf(ops, l) \in Nat
  <2> SUFFICES ASSUME NEW l \in 0..Len(ops) PROVE AtOf(ops, l) \in Nat /\ ToOf(ops, l) \in Nat  OBVIOUS
  <2>1. AtOf(ops, l) \in 0..Len(b) /\ ToOf(ops, l) \in 0..Len(a)  BY PathSteps
  <2>2. Len(b) \in Nat /\ Len(a) \in Nat  BY PathSteps
  <2> QED  BY <2>1, <2>2
<1>3. ASSUME NEW k \in s..e, ops[k].type \in OfOld PROVE AtOf(ops, s - 1) < AtOf(ops, e)
  <2>1. MovesOn(ops, b, a, k)  BY <1>1, PathMoves
  <2>2. AtOf(ops, k) = AtOf(ops, k - 1) + 1  BY <1>3, <2>1 DEF MovesOn
  <2>3. k \in 0..Len(ops)  BY <1>0, <1>1
  <2>4. /\ AtOf(ops, s - 1) \in Nat /\ AtOf(ops, k - 1) \in Nat /\ AtOf(ops, e) \in Nat
    BY <1>1, <1>2
  <2>5. AtOf(ops, s - 1) <= AtOf(ops, k - 1) /\ AtOf(ops, k) <= AtOf(ops, e)  BY <1>1
  <2> QED  BY <2>2, <2>4, <2>5
<1>4. ASSUME NEW k \in s..e, ops[k].type \in OfNew PROVE ToOf(ops, s - 1) < ToOf(ops, e)
  <2>1. MovesOn(ops, b, a, k)  BY <1>1, PathMoves
  <2>2. ToOf(ops, k) = ToOf(ops, k - 1) + 1  BY <1>4, <2>1 DEF MovesOn
  <2>4. /\ ToOf(ops, s - 1) \in Nat /\ ToOf(ops, k - 1) \in Nat /\ ToOf(ops, e) \in Nat
    BY <1>1, <1>2
  <2>5. ToOf(ops, s - 1) <= ToOf(ops, k - 1) /\ ToOf(ops, k) <= ToOf(ops, e)  BY <1>1
  <2> QED  BY <2>2, <2>4, <2>5
<1> QED  BY <1>3, <1>4

LEMMA PathStill ==
  ASSUME NEW S, NEW b, NEW a, NEW ops, WholePath(ops, S, b, a),
         NEW s \in 1..(Len(ops) + 1), NEW e \in (s - 1)..Len(ops)
  PROVE  /\ (\A k \in s..e : ops[k].type \notin OfOld) => AtOf(ops, s - 1) = AtOf(ops, e)
         /\ (\A k \in s..e : ops[k].type \notin OfNew) => ToOf(ops, s - 1) = ToOf(ops, e)
<1>0. Len(ops) \in Nat /\ s \in Nat /\ e \in Nat  BY PathSteps
<1>1. ASSUME \A k \in s..e : ops[k].type \notin OfOld PROVE AtOf(ops, s - 1) = AtOf(ops, e)
  <2> DEFINE G == {k \in Nat : s - 1 + k <= e => AtOf(ops, s - 1 + k) = AtOf(ops, s - 1)}
  <2>1. ASSUME NEW k \in Nat, \A l \in 0..(k - 1) : l \in G PROVE k \in G
    <3>1. CASE k = 0
      <4>1. s - 1 + k = s - 1  BY <1>0, <3>1
      <4> QED  BY <4>1
    <3>2. CASE k # 0 /\ s - 1 + k <= e
      <4>1. k - 1 \in 0..(k - 1) /\ s - 1 + (k - 1) <= e  BY <1>0, <3>2
      <4>2. AtOf(ops, s - 1 + (k - 1)) = AtOf(ops, s - 1)  BY <2>1, <4>1
      <4> DEFINE l == s - 1 + k
      <4>3. l \in s..e /\ l \in 1..Len(ops) /\ l - 1 = s - 1 + (k - 1)  BY <1>0, <3>2
      <4> HIDE DEF l
      <4>4. MovesOn(ops, b, a, l)  BY <4>3, PathMoves
      <4>5. AtOf(ops, l) = AtOf(ops, l - 1)  BY <1>1, <4>3, <4>4 DEF MovesOn
      <4>6. AtOf(ops, l) = AtOf(ops, s - 1)  BY <4>2, <4>3, <4>5
      <4> QED  BY <4>6 DEF l
    <3> QED  BY <3>1, <3>2
  <2>2. \A k \in Nat : k \in G
    <3> HIDE DEF G
    <3>1. G \in SUBSET Nat  BY DEF G
    <3> QED  BY <2>1, <3>1, Least
  <2>3. e - (s - 1) \in Nat /\ s - 1 + (e - (s - 1)) = e /\ e <= e  BY <1>0
  <2>4. e - (s - 1) \in G  BY <2>2, <2>3
  <2>5. AtOf(ops, s - 1 + (e - (s - 1))) = AtOf(ops, s - 1)  BY <2>3, <2>4
  <2> QED  BY <2>3, <2>5
<1>2. ASSUME \A k \in s..e : ops[k].type \notin OfNew PROVE ToOf(ops, s - 1) = ToOf(ops, e)
  <2> DEFINE G == {k \in Nat : s - 1 + k <= e => ToOf(ops, s - 1 + k) = ToOf(ops, s - 1)}
  <2>1. ASSUME NEW k \in Nat, \A l \in 0..(k - 1) : l \in G PROVE k \in G
    <3>1. CASE k = 0
      <4>1. s - 1 + k = s - 1  BY <1>0, <3>1
      <4> QED  BY <4>1
    <3>2. CASE k # 0 /\ s - 1 + k <= e
      <4>1. k - 1 \in 0..(k - 1) /\ s - 1 + (k - 1) <= e  BY <1>0, <3>2
      <4>2. ToOf(ops, s - 1 + (k - 1)) = ToOf(ops, s - 1)  BY <2>1, <4>1
      <4> DEFINE l == s - 1 + k
      <4>3. l \in s..e /\ l \in 1..Len(ops) /\ l - 1 = s - 1 + (k - 1)  BY <1>0, <3>2
      <4> HIDE DEF l
      <4>4. MovesOn(ops, b, a, l)  BY <4>3, PathMoves
      <4>5. ToOf(ops, l) = ToOf(ops, l - 1)  BY <1>2, <4>3, <4>4 DEF MovesOn
      <4>6. ToOf(ops, l) = ToOf(ops, s - 1)  BY <4>2, <4>3, <4>5
      <4> QED  BY <4>6 DEF l
    <3> QED  BY <3>1, <3>2
  <2>2. \A k \in Nat : k \in G
    <3> HIDE DEF G
    <3>1. G \in SUBSET Nat  BY DEF G
    <3> QED  BY <2>1, <3>1, Least
  <2>3. e - (s - 1) \in Nat /\ s - 1 + (e - (s - 1)) = e /\ e <= e  BY <1>0
  <2>4. e - (s - 1) \in G  BY <2>2, <2>3
  <2>5. ToOf(ops, s - 1 + (e - (s - 1))) = ToOf(ops, s - 1)  BY <2>3, <2>4
  <2> QED  BY <2>3, <2>5
<1> QED  BY <1>1, <1>2

\* No edit from s to e is a change.
Quiet(ops, s, e) == \A k \in s..e : ops[k].type = "equal"

\* Where a path makes no change it tells the same lines of both texts.
LEMMA PathSame ==
  ASSUME NEW S, NEW b, NEW a, NEW ops, WholePath(ops, S, b, a),
         NEW s \in 1..(Len(ops) + 1), NEW e \in (s - 1)..Len(ops), Quiet(ops, s, e)
  PROVE  TextOf(SubSeq(ops, s, e), OfOld) = TextOf(SubSeq(ops, s, e), OfNew)
<1> DEFINE o == SubSeq(ops, s, e)
<1>0. Len(ops) \in Nat  BY PathSteps
<1>1. o \in Seq(Edits(S)) /\ \A k \in 1..Len(o) : o[k].type = "equal"
  <2>1. \A k \in s..e : ops[k] \in Edits(S)
    <3> SUFFICES ASSUME NEW k \in s..e PROVE ops[k] \in Edits(S)  OBVIOUS
    <3>1. k \in 1..Len(ops)  BY <1>0
    <3> QED  BY <3>1, PathSteps
  <2>2. /\ o \in Seq(Edits(S))
        /\ Len(o) = IF s <= e THEN e - s + 1 ELSE 0
        /\ \A k \in 1..(e - s + 1) : o[k] = ops[s + k - 1]
    <3>1. s \in Int /\ e \in Int  BY <1>0
    <3> QED  BY <2>1, <3>1, SubSeqProperties
  <2> HIDE DEF o
  <2>3. ASSUME NEW k \in 1..Len(o) PROVE o[k].type = "equal"
    <3>1. s + k - 1 \in s..e /\ k \in 1..(e - s + 1)  BY <1>0, <2>2
    <3>2. o[k] = ops[s + k - 1]  BY <2>2, <3>1
    <3> QED  BY <3>1, <3>2 DEF Quiet
  <2> QED  BY <2>2, <2>3
<1> HIDE DEF o
<1>2. "equal" \in OfOld /\ "equal" \in OfNew  BY DEF OfOld, OfNew
<1>3. PICK t \in [0..Len(o) -> Seq(S)] : IsText(t, o, OfOld)  BY <1>1, TextSteps
<1>4. PICK u \in [0..Len(o) -> Seq(S)] : IsText(u, o, OfNew)  BY <1>1, TextSteps
<1> DEFINE G == {k \in Nat : k <= Len(o) => t[k] = u[k]}
<1>5. Len(o) \in Nat  BY <1>1, LenProperties
<1>6. ASSUME NEW k \in Nat, \A l \in 0..(k - 1) : l \in G PROVE k \in G
  <2>1. CASE k = 0  BY <1>3, <1>4, <2>1 DEF IsText
  <2>2. CASE k # 0 /\ k <= Len(o)
    <3>1. k \in 1..Len(o) /\ k - 1 \in 0..(k - 1) /\ k - 1 <= Len(o)  BY <1>5, <2>2
    <3>2. t[k - 1] = u[k - 1]  BY <1>6, <3>1
    <3>3. t[k] = Append(t[k - 1], o[k].line)  BY <1>1, <1>2, <1>3, <3>1 DEF IsText
    <3>4. u[k] = Append(u[k - 1], o[k].line)  BY <1>1, <1>2, <1>4, <3>1 DEF IsText
    <3> QED  BY <3>2, <3>3, <3>4
  <2> QED  BY <2>1, <2>2
<1>7. \A k \in Nat : k \in G
  <2> HIDE DEF G
  <2>1. G \in SUBSET Nat  BY DEF G
  <2> QED  BY <1>6, <2>1, Least
<1>8. TextOf(o, OfOld) = TextOf(o, OfNew)  BY <1>3, <1>4, <1>5, <1>7 DEF IsText
<1> QED  BY <1>8 DEF o

\* A path tells as many lines of both texts as the table says.
LEMMA PathKeeps ==
  ASSUME NEW S, NEW b, NEW a, NEW ops, WholePath(ops, S, b, a)
  PROVE  Len(TextOf(ops, {"equal"})) = Common(b, a)[<<Len(b), Len(a)>>]
<1> DEFINE dp == Common(b, a)  n == Len(ops)  kinds == {"equal"}
<1>0. n \in Nat /\ Len(b) \in Nat /\ Len(a) \in Nat /\ ops \in Seq(Edits(S))  BY PathSteps DEF WholePath, Path
<1>1. PICK t \in [0..n -> Seq(S)] : IsText(t, ops, kinds)  BY <1>0, TextSteps
<1> DEFINE Holds(k) == Len(t[k]) = dp[<<AtOf(ops, k), ToOf(ops, k)>>]
           G == {k \in Nat : k <= n => Holds(k)}
<1>2. ASSUME NEW k \in Nat, \A l \in 0..(k - 1) : l \in G PROVE k \in G
  <2>1. CASE k = 0
    <3>1. t[0] = <<>> /\ AtOf(ops, 0) = 0 /\ ToOf(ops, 0) = 0  BY <1>1, PathSteps DEF IsText
    <3>2. dp[<<0, 0>>] = Cell(dp, b, a, 0, 0)
      <4>1. 0 \in 0..Len(b) /\ 0 \in 0..Len(a)  BY <1>0
      <4> QED  BY <1>0, <4>1, TableCell
    <3>3. dp[<<0, 0>>] = 0  BY <3>2 DEF Cell
    <3>4. Len(t[0]) = 0  BY <3>1
    <3> HIDE DEF dp
    <3>5. Holds(0)  BY <3>1, <3>3, <3>4
    <3> HIDE DEF Holds
    <3> QED  BY <2>1, <3>5
  <2>2. CASE k # 0 /\ k <= n
    <3>1. k \in 1..n /\ k - 1 \in 0..(k - 1) /\ k - 1 <= n /\ k - 1 \in 0..n  BY <1>0, <2>2
    <3>2. Holds(k - 1)
      <4> HIDE DEF Holds
      <4> QED  BY <1>2, <3>1
    <3>3. /\ ops[k].type = "equal" =>
               dp[<<AtOf(ops, k), ToOf(ops, k)>>] = dp[<<AtOf(ops, k - 1), ToOf(ops, k - 1)>>] + 1
          /\ ops[k].type # "equal" =>
               dp[<<AtOf(ops, k), ToOf(ops, k)>>] = dp[<<AtOf(ops, k - 1), ToOf(ops, k - 1)>>]
      BY <3>1, PathMoves
    <3>4. t[k - 1] \in Seq(S) /\ ops[k].line \in S
      <4>1. ops[k] \in Edits(S)  BY <3>1, PathSteps
      <4> QED  BY <3>1, <4>1 DEF Edits
    <3>5. t[k] = IF ops[k].type \in kinds THEN Append(t[k - 1], ops[k].line) ELSE t[k - 1]
      BY <1>1, <3>1 DEF IsText
    <3>6. Len(Append(t[k - 1], ops[k].line)) = Len(t[k - 1]) + 1  BY <3>4, AppendProperties
    <3> HIDE DEF dp
    <3>7. CASE ops[k].type = "equal"  BY <3>2, <3>3, <3>5, <3>6, <3>7
    <3>8. CASE ops[k].type # "equal"  BY <3>2, <3>3, <3>5, <3>8
    <3> QED  BY <3>7, <3>8
  <2> QED  BY <2>1, <2>2
<1>3. \A k \in Nat : k \in G
  <2> HIDE DEF G
  <2>1. G \in SUBSET Nat  BY DEF G
  <2> QED  BY <1>2, <2>1, Least
<1>4. Holds(n)  BY <1>0, <1>3
<1>5. AtOf(ops, n) = Len(b) /\ ToOf(ops, n) = Len(a) /\ TextOf(ops, kinds) = t[n]
  BY <1>1, PathSteps DEF IsText
<1> HIDE DEF dp
<1>6. Len(TextOf(ops, kinds)) = dp[<<Len(b), Len(a)>>]  BY <1>4, <1>5
<1> QED  BY <1>6 DEF dp

\* A text compared with itself shows no change.
LEMMA PathOfSame ==
  ASSUME NEW S, NEW b, NEW ops, WholePath(ops, S, b, b)
  PROVE  \A k \in 1..Len(ops) : ops[k].type = "equal"
<1> DEFINE n == Len(ops)
           Holds(k) == AtOf(ops, k) = ToOf(ops, k)
           G == {k \in Nat : k <= n => Holds(n - k)}
<1>0. n \in Nat /\ Len(b) \in Nat  BY PathSteps
<1>1. ASSUME NEW k \in 1..n, Holds(k) PROVE ops[k].type = "equal" /\ Holds(k - 1)
  <2>1. MovesOn(ops, b, b, k) /\ (ops[k].type \in OfOld \/ ops[k].type \in OfNew)  BY PathMoves
  <2>2. AtOf(ops, k - 1) \in Nat /\ ToOf(ops, k - 1) \in Nat
    <3>1. k - 1 \in 0..n  BY <1>0
    <3>2. AtOf(ops, k - 1) \in 0..Len(b) /\ ToOf(ops, k - 1) \in 0..Len(b)  BY <3>1, PathSteps
    <3> QED  BY <1>0, <3>2
  <2>3. AtOf(ops, k) > 0
    <3>1. CASE ops[k].type \in OfOld
      <4>1. AtOf(ops, k) = AtOf(ops, k - 1) + 1  BY <2>1, <3>1 DEF MovesOn
      <4> QED  BY <2>2, <4>1
    <3>2. CASE ops[k].type \in OfNew
      <4>1. ToOf(ops, k) = ToOf(ops, k - 1) + 1  BY <2>1, <3>2 DEF MovesOn
      <4> QED  BY <1>1, <2>2, <4>1
    <3> QED  BY <2>1, <3>1, <3>2
  <2>4. Differs(ops, b, b, k)  BY PathMoves
  <2>5. ops[k].type = "equal"  BY <1>1, <2>3, <2>4 DEF Differs
  <2>6. "equal" \in OfOld /\ "equal" \in OfNew  BY DEF OfOld, OfNew
  <2>7. AtOf(ops, k) = AtOf(ops, k - 1) + 1 /\ ToOf(ops, k) = ToOf(ops, k - 1) + 1
    BY <2>1, <2>5, <2>6 DEF MovesOn
  <2>8. AtOf(ops, k) = ToOf(ops, k)  BY <1>1
  <2>9. AtOf(ops, k - 1) + 1 = ToOf(ops, k - 1) + 1  BY <2>7, <2>8
  <2>10. AtOf(ops, k - 1) = ToOf(ops, k - 1)
    <3> DEFINE x == AtOf(ops, k - 1)  y == ToOf(ops, k - 1)
    <3>1. x \in Nat /\ y \in Nat /\ x + 1 = y + 1  BY <2>2, <2>9
    <3> HIDE DEF x, y
    <3>2. x = y  BY <3>1
    <3> QED  BY <3>2 DEF x, y
  <2> QED  BY <2>5, <2>10
<1>2. ASSUME NEW k \in Nat, \A l \in 0..(k - 1) : l \in G PROVE k \in G
  <2>1. CASE k = 0
    <3>1. n - k = n  BY <1>0, <2>1
    <3>2. Holds(n)  BY PathSteps
    <3> QED  BY <3>1, <3>2
  <2>2. CASE k # 0 /\ k <= n
    <3>1. k - 1 \in 0..(k - 1) /\ k - 1 <= n /\ n - (k - 1) \in 1..n /\ (n - (k - 1)) - 1 = n - k
      BY <1>0, <2>2
    <3> DEFINE l == n - (k - 1)
    <3>2. Holds(l)
      <4>1. k - 1 \in G
        <5> HIDE DEF G
        <5> QED  BY <1>2, <3>1
      <4> HIDE DEF Holds
      <4> QED  BY <3>1, <4>1
    <3> HIDE DEF Holds
    <3>3. Holds(l - 1)  BY <1>1, <3>1, <3>2
    <3> QED  BY <3>1, <3>3
  <2> QED  BY <2>1, <2>2
<1>3. \A k \in Nat : k \in G
  <2> HIDE DEF G
  <2>1. G \in SUBSET Nat  BY DEF G
  <2> QED  BY <1>2, <2>1, Least
<1>4. ASSUME NEW k \in 1..n PROVE ops[k].type = "equal"
  <2>1. n - k \in Nat /\ n - k <= n /\ n - (n - k) = k  BY <1>0
  <2> HIDE DEF Holds
  <2>2. Holds(k)  BY <1>3, <2>1
  <2> QED  BY <1>1, <2>2
<1> QED  BY <1>4

-----------------------------------------------------------------------------
\* The least number of a set and the greatest.
LEMMA MinIs ==
  ASSUME NEW I \in SUBSET Nat, I # {}
  PROVE  Min(I) \in I /\ \A y \in I : Min(I) <= y
<1>1. \E x \in I : \A y \in I : x <= y  BY LeastIs
<1>2. Min(I) = CHOOSE x \in I : \A y \in I : x <= y  BY DEF Min
<1> QED  BY <1>1, <1>2, Zenon

LEMMA MaxIs ==
  ASSUME NEW I \in SUBSET Nat, I # {}, NEW n \in Nat, \A y \in I : y <= n
  PROVE  Max(I) \in I /\ \A y \in I : Max(I) >= y
<1> DEFINE J == {k \in Nat : n - k \in I}
<1>1. J \in SUBSET Nat /\ J # {}
  <2>1. PICK y \in I : TRUE  OBVIOUS
  <2>2. n - y \in Nat /\ n - (n - y) = y  BY <2>1
  <2>3. n - y \in J  BY <2>1, <2>2
  <2> QED  BY <2>3
<1>2. PICK k \in J : \A l \in J : k <= l
  <2> HIDE DEF J
  <2> QED  BY <1>1, LeastIs
<1>3. n - k \in I  BY <1>2
<1>4. ASSUME NEW y \in I PROVE n - k >= y
  <2>1. y \in Nat /\ y <= n  OBVIOUS
  <2>2. n - y \in Nat /\ n - (n - y) = y  BY <2>1
  <2>3. n - y \in J  BY <2>2
  <2>4. k <= n - y  BY <1>2, <2>3
  <2>5. k \in Nat  BY <1>2
  <2> QED  BY <2>1, <2>4, <2>5
<1>5. \E x \in I : \A y \in I : x >= y  BY <1>3, <1>4
<1>6. Max(I) = CHOOSE x \in I : \A y \in I : x >= y  BY DEF Max
<1> QED  BY <1>5, <1>6, Zenon

\* A range starts with an unchanged line, or where it cannot have one before it; and ends so.
Opens(ops, s) == s = 1 \/ ops[s].type = "equal" \/ ops[s - 1].type # "equal"
Closes(ops, e) == e = Len(ops) + 1 \/ ops[e - 1].type = "equal" \/ ops[e].type # "equal"

\* The window of a change is around it, and has a line of context where there is one.
LEMMA WindowIs ==
  ASSUME NEW ops, Len(ops) \in Nat, NEW k \in 1..Len(ops)
  PROVE  LET w == Window(ops, k)
         IN  /\ w = [start |-> w.start, end |-> w.end]
             /\ w.start \in 1..k /\ Opens(ops, w.start)
             /\ w.end \in (k + 1)..(Len(ops) + 1) /\ Closes(ops, w.end)
<1> DEFINE I == {s \in 1..k : k <= s + Context /\ \A l \in s..(k - 1) : ops[l].type = "equal"}
           J == {e \in k..Len(ops) : e <= k + Context /\ \A l \in (k + 1)..e : ops[l].type = "equal"}
<1>0. Context \in Nat /\ Context # 0  BY ContextAssumption
<1>1. Window(ops, k) = [start |-> Min(I), end |-> 1 + Max(J)]  BY DEF Window
<1>2. I \in SUBSET Nat /\ k \in I  BY <1>0
<1>3. J \in SUBSET Nat /\ k \in J /\ \A e \in J : e <= Len(ops)  BY <1>0
<1>4. Min(I) \in I /\ \A y \in I : Min(I) <= y
  <2> HIDE DEF I
  <2> QED  BY <1>2, MinIs
<1>5. Max(J) \in J /\ \A y \in J : Max(J) >= y
  <2> HIDE DEF J
  <2> QED  BY <1>3, MaxIs
<1> DEFINE s == Min(I)  e == Max(J)
<1>6. s \in 1..k /\ \A l \in s..(k - 1) : ops[l].type = "equal"
  <2> HIDE DEF s
  <2>1. s \in I  BY <1>4 DEF s
  <2> QED  BY <2>1
<1>7. e \in k..Len(ops) /\ \A l \in (k + 1)..e : ops[l].type = "equal"
  <2> HIDE DEF e
  <2>1. e \in J  BY <1>5 DEF e
  <2> QED  BY <2>1
<1>8. Opens(ops, s)
  <2>0. \A y \in I : s <= y  BY <1>4
  <2> HIDE DEF s
  <2>1. CASE s < k
    <3>1. s \in s..(k - 1)  BY <1>6, <2>1
    <3> QED  BY <1>6, <3>1 DEF Opens
  <2>2. CASE s = k /\ k # 1
    <3>1. k - 1 \notin I  BY <1>6, <2>0, <2>2
    <3>2. k - 1 \in 1..k /\ k <= (k - 1) + Context  BY <1>0, <2>2
    <3>3. ops[k - 1].type # "equal"
      <4> SUFFICES ASSUME ops[k - 1].type = "equal" PROVE FALSE  OBVIOUS
      <4>1. \A l \in (k - 1)..(k - 1) : ops[l].type = "equal"
        <5>1. \A l \in (k - 1)..(k - 1) : l = k - 1  OBVIOUS
        <5> QED  BY <5>1
      <4> QED  BY <3>1, <3>2, <4>1
    <3> QED  BY <2>2, <3>3 DEF Opens
  <2>3. CASE s = 1  BY <2>3 DEF Opens
  <2> QED  BY <1>6, <2>1, <2>2, <2>3
<1>9. Closes(ops, e + 1)
  <2>0. \A y \in J : e >= y  BY <1>5
  <2> HIDE DEF e
  <2>9. (e + 1) - 1 = e  BY <1>7
  <2>1. CASE e > k
    <3>1. e \in (k + 1)..e  BY <1>7, <2>1
    <3>2. ops[e].type = "equal"  BY <1>7, <3>1
    <3> QED  BY <2>9, <3>2 DEF Closes
  <2>2. CASE e = k /\ k # Len(ops)
    <3>1. k + 1 \notin J  BY <1>7, <2>0, <2>2
    <3>2. k + 1 \in k..Len(ops) /\ k + 1 <= k + Context  BY <1>0, <2>2
    <3>3. ops[k + 1].type # "equal"
      <4> SUFFICES ASSUME ops[k + 1].type = "equal" PROVE FALSE  OBVIOUS
      <4>1. \A l \in (k + 1)..(k + 1) : ops[l].type = "equal"
        <5>1. \A l \in (k + 1)..(k + 1) : l = k + 1  OBVIOUS
        <5> QED  BY <5>1
      <4> QED  BY <3>1, <3>2, <4>1
    <3> QED  BY <2>2, <3>3 DEF Closes
  <2>3. CASE e = Len(ops)  BY <2>3 DEF Closes
  <2> QED  BY <1>7, <2>1, <2>2, <2>3
<1> HIDE DEF s, e
<1>10. Window(ops, k) = [start |-> s, end |-> 1 + e] /\ 1 + e = e + 1  BY <1>1, <1>7 DEF s, e
<1>11. e + 1 \in (k + 1)..(Len(ops) + 1)  BY <1>7
<1> QED  BY <1>6, <1>8, <1>9, <1>10, <1>11

RangeSet == [start : Nat, end : Nat]

\* The ranges made of the first k edits: in order and apart, around every change so far.
InOrder(rs, ops, k) ==
  /\ rs \in Seq(RangeSet)
  /\ \A i \in 1..Len(rs) :
       /\ rs[i].start \in 1..k /\ rs[i].end \in (rs[i].start + 1)..(Len(ops) + 1)
       /\ Opens(ops, rs[i].start) /\ Closes(ops, rs[i].end)
  /\ \A i \in 1..Len(rs) : \A j \in 1..Len(rs) : i < j => rs[i].end < rs[j].start
  /\ \A c \in 1..k : ops[c].type # "equal" =>
       \E i \in 1..Len(rs) : rs[i].start <= c /\ c < rs[i].end

\* A window more keeps them so.
LEMMA ApartJoined ==
  ASSUME NEW ops, Len(ops) \in Nat, NEW k \in 1..Len(ops), NEW rs, InOrder(rs, ops, k - 1)
  PROVE  InOrder(Joined(rs, Window(ops, k)), ops, k)
<1> DEFINE w == Window(ops, k)  n == Len(rs)
<1>1. /\ w = [start |-> w.start, end |-> w.end]
      /\ w.start \in 1..k /\ Opens(ops, w.start)
      /\ w.end \in (k + 1)..(Len(ops) + 1) /\ Closes(ops, w.end)
  BY WindowIs
<1>2. w \in RangeSet /\ w.start \in Nat /\ w.end \in Nat
  <2>1. w.start \in Nat /\ w.end \in Nat  BY <1>1
  <2> HIDE DEF w
  <2> QED  BY <1>1, <2>1 DEF RangeSet
<1> HIDE DEF w
<1>3. rs \in Seq(RangeSet) /\ n \in Nat /\ \A i \in 1..n : rs[i] \in RangeSet
  <2>1. rs \in Seq(RangeSet)  BY DEF InOrder
  <2> QED  BY <2>1, LenProperties, ElementOfSeq
<1>4. \A i \in 1..n : /\ rs[i].start \in 1..(k - 1) /\ rs[i].end \in (rs[i].start + 1)..(Len(ops) + 1)
                      /\ Opens(ops, rs[i].start) /\ Closes(ops, rs[i].end)
  BY DEF InOrder
<1>5. \A i \in 1..n : \A j \in 1..n : i < j => rs[i].end < rs[j].start  BY DEF InOrder
<1>6. \A c \in 1..(k - 1) : ops[c].type # "equal" =>
        \E i \in 1..n : rs[i].start <= c /\ c < rs[i].end
  BY DEF InOrder
<1>7. CASE rs # <<>> /\ w.start <= rs[n].end
  <2> DEFINE x == Larger(rs[n].end, w.end)
             q == [start |-> rs[n].start, end |-> x]
             o == [rs EXCEPT ![n] = q]
  <2>1. n \in 1..n
    <3>1. n # 0  BY <1>3, <1>7, EmptySeq
    <3> QED  BY <1>3, <3>1
  <2>2. /\ rs[n] \in RangeSet /\ rs[n].start \in Nat /\ rs[n].end \in Nat
        /\ rs[n].start \in 1..(k - 1) /\ rs[n].end \in (rs[n].start + 1)..(Len(ops) + 1)
        /\ Opens(ops, rs[n].start) /\ Closes(ops, rs[n].end)
    BY <1>3, <1>4, <2>1 DEF RangeSet
  <2>3. x = rs[n].end \/ x = w.end  BY DEF Larger
  <2>4. x \in Nat /\ x >= rs[n].end /\ x >= w.end  BY <1>2, <2>2 DEF Larger
  <2>5. q \in RangeSet /\ q.start = rs[n].start /\ q.end = x  BY <2>2, <2>4 DEF RangeSet
  <2>6. Joined(rs, w) = o
    <3>1. Joined(rs, w) = [rs EXCEPT ![n].end = x]  BY <1>7 DEF Joined
    <3>2. [rs[n] EXCEPT !.end = x] = q  BY <2>2 DEF RangeSet
    <3>3. [rs EXCEPT ![n].end = x] = [rs EXCEPT ![n] = [rs[n] EXCEPT !.end = x]]  OBVIOUS
    <3> QED  BY <3>1, <3>2, <3>3
  <2> HIDE DEF x, q
  <2>7. o \in Seq(RangeSet) /\ Len(o) = n /\ \A j \in 1..n : o[j] = IF j = n THEN q ELSE rs[j]
    BY <1>3, <2>1, <2>5, ExceptSeq
  <2> HIDE DEF o
  <2>8. \A i \in 1..Len(o) : /\ o[i].start \in 1..k /\ o[i].end \in (o[i].start + 1)..(Len(ops) + 1)
                             /\ Opens(ops, o[i].start) /\ Closes(ops, o[i].end)
    <3> SUFFICES ASSUME NEW i \in 1..n
                 PROVE  /\ o[i].start \in 1..k /\ o[i].end \in (o[i].start + 1)..(Len(ops) + 1)
                        /\ Opens(ops, o[i].start) /\ Closes(ops, o[i].end)
      BY <2>7
    <3>1. CASE i = n
      <4>1. o[i].start = rs[n].start /\ o[i].end = x  BY <2>5, <2>7, <3>1
      <4>2. rs[n].start \in 1..k  BY <2>2
      <4>3. x \in (rs[n].start + 1)..(Len(ops) + 1)  BY <1>1, <2>2, <2>3, <2>4
      <4>4. Closes(ops, x)  BY <1>1, <2>2, <2>3
      <4> QED  BY <2>2, <4>1, <4>2, <4>3, <4>4
    <3>2. CASE i # n
      <4>1. o[i] = rs[i] /\ rs[i].start \in 1..(k - 1)  BY <1>4, <2>7, <3>2
      <4>2. rs[i].start \in 1..k  BY <4>1
      <4> QED  BY <1>4, <4>1, <4>2
    <3> QED  BY <3>1, <3>2
  <2>9. \A i \in 1..Len(o) : \A j \in 1..Len(o) : i < j => o[i].end < o[j].start
    <3> SUFFICES ASSUME NEW i \in 1..n, NEW j \in 1..n, i < j PROVE o[i].end < o[j].start
      BY <2>7
    <3>1. i # n  BY <1>3
    <3>2. o[i] = rs[i]  BY <2>7, <3>1
    <3>3. o[j].start = rs[j].start  BY <2>5, <2>7
    <3> QED  BY <1>5, <3>2, <3>3
  <2>10. \A c \in 1..k : ops[c].type # "equal" => \E i \in 1..Len(o) : o[i].start <= c /\ c < o[i].end
    <3> SUFFICES ASSUME NEW c \in 1..k, ops[c].type # "equal"
                 PROVE  \E i \in 1..n : o[i].start <= c /\ c < o[i].end
      BY <2>7
    <3>1. o[n].start = rs[n].start /\ o[n].end = x  BY <2>1, <2>5, <2>7
    <3>2. CASE c = k
      <4>1. rs[n].start <= k /\ k < x  BY <1>1, <1>2, <2>2, <2>4
      <4> QED  BY <2>1, <3>1, <3>2, <4>1
    <3>3. CASE c # k
      <4>1. c \in 1..(k - 1)  BY <3>3
      <4>2. PICK i \in 1..n : rs[i].start <= c /\ c < rs[i].end  BY <1>6, <4>1
      <4>3. CASE i = n
        <5>1. c < x  BY <2>2, <2>4, <4>2, <4>3
        <5> QED  BY <2>1, <3>1, <4>2, <4>3, <5>1
      <4>4. CASE i # n
        <5>1. o[i] = rs[i]  BY <2>7, <4>4
        <5> QED  BY <4>2, <5>1
      <4> QED  BY <4>3, <4>4
    <3> QED  BY <3>2, <3>3
  <2>11. InOrder(o, ops, k)  BY <2>7, <2>8, <2>9, <2>10 DEF InOrder
  <2> QED  BY <2>6, <2>11 DEF w
<1>8. CASE ~(rs # <<>> /\ w.start <= rs[n].end)
  <2> DEFINE o == Append(rs, w)
  <2>1. Joined(rs, w) = o  BY <1>8 DEF Joined
  <2>2. o \in Seq(RangeSet) /\ Len(o) = n + 1 /\ (\A i \in 1..n : o[i] = rs[i]) /\ o[n + 1] = w
    BY <1>2, <1>3, AppendProperties
  <2> HIDE DEF o
  <2>3. n # 0 => rs[n].end < w.start
    <3> SUFFICES ASSUME n # 0 PROVE rs[n].end < w.start  OBVIOUS
    <3>1. n \in 1..n /\ rs # <<>>
      <4>1. Len(<<>>) = 0  OBVIOUS
      <4> QED  BY <1>3, <4>1
    <3>2. rs[n].end \in Nat  BY <1>3, <3>1 DEF RangeSet
    <3> QED  BY <1>2, <1>8, <3>1, <3>2
  <2>4. \A i \in 1..Len(o) : /\ o[i].start \in 1..k /\ o[i].end \in (o[i].start + 1)..(Len(ops) + 1)
                             /\ Opens(ops, o[i].start) /\ Closes(ops, o[i].end)
    <3> SUFFICES ASSUME NEW i \in 1..(n + 1)
                 PROVE  /\ o[i].start \in 1..k /\ o[i].end \in (o[i].start + 1)..(Len(ops) + 1)
                        /\ Opens(ops, o[i].start) /\ Closes(ops, o[i].end)
      BY <2>2
    <3>1. CASE i = n + 1
      <4>1. o[i] = w  BY <2>2, <3>1
      <4>2. w.end \in (w.start + 1)..(Len(ops) + 1)  BY <1>1
      <4> QED  BY <1>1, <4>1, <4>2
    <3>2. CASE i # n + 1
      <4>1. i \in 1..n  BY <1>3, <3>2
      <4>2. o[i] = rs[i] /\ rs[i].start \in 1..(k - 1)  BY <1>4, <2>2, <4>1
      <4>3. rs[i].start \in 1..k  BY <4>2
      <4> QED  BY <1>4, <4>1, <4>2, <4>3
    <3> QED  BY <3>1, <3>2
  <2>5. \A i \in 1..Len(o) : \A j \in 1..Len(o) : i < j => o[i].end < o[j].start
    <3> SUFFICES ASSUME NEW i \in 1..(n + 1), NEW j \in 1..(n + 1), i < j PROVE o[i].end < o[j].start
      BY <2>2
    <3>1. i \in 1..n /\ o[i] = rs[i]
      <4>1. i \in 1..n  BY <1>3
      <4> QED  BY <2>2, <4>1
    <3>2. CASE j = n + 1
      <4>1. o[j] = w /\ n # 0 /\ n \in 1..n  BY <1>3, <2>2, <3>1, <3>2
      <4>2. rs[n].end < w.start  BY <2>3, <4>1
      <4>3. CASE i = n  BY <3>1, <4>1, <4>2, <4>3
      <4>4. CASE i # n
        <5>1. rs[i].end < rs[n].start  BY <1>3, <1>5, <3>1, <4>1, <4>4
        <5>2. rs[n].start < rs[n].end /\ rs[n].start \in Nat /\ rs[n].end \in Nat /\ rs[i].end \in Nat
          BY <1>3, <1>4, <3>1, <4>1 DEF RangeSet
        <5>3. rs[i].end < w.start  BY <1>2, <4>2, <5>1, <5>2
        <5> QED  BY <3>1, <4>1, <5>3
      <4> QED  BY <4>3, <4>4
    <3>3. CASE j # n + 1
      <4>1. j \in 1..n  BY <1>3, <3>3
      <4>2. o[j] = rs[j]  BY <2>2, <4>1
      <4> QED  BY <1>5, <3>1, <4>1, <4>2
    <3> QED  BY <3>2, <3>3
  <2>6. \A c \in 1..k : ops[c].type # "equal" => \E i \in 1..Len(o) : o[i].start <= c /\ c < o[i].end
    <3> SUFFICES ASSUME NEW c \in 1..k, ops[c].type # "equal"
                 PROVE  \E i \in 1..(n + 1) : o[i].start <= c /\ c < o[i].end
      BY <2>2
    <3>1. CASE c = k
      <4>1. n + 1 \in 1..(n + 1) /\ o[n + 1] = w  BY <1>3, <2>2
      <4>2. w.start <= k /\ k < w.end  BY <1>1
      <4> QED  BY <3>1, <4>1, <4>2
    <3>2. CASE c # k
      <4>1. c \in 1..(k - 1)  BY <3>2
      <4>2. PICK i \in 1..n : rs[i].start <= c /\ c < rs[i].end  BY <1>6, <4>1
      <4>3. i \in 1..(n + 1) /\ o[i] = rs[i]  BY <1>3, <2>2, <4>2
      <4> QED  BY <4>2, <4>3
    <3> QED  BY <3>1, <3>2
  <2>7. InOrder(o, ops, k)  BY <2>2, <2>4, <2>5, <2>6 DEF InOrder
  <2> QED  BY <2>1, <2>7 DEF w
<1> QED  BY <1>7, <1>8

\* The ranges made edit by edit are made of all of them.
LEMMA RangesApart ==
  ASSUME NEW ops, Len(ops) \in Nat
  PROVE  InOrder(Ranges(ops), ops, Len(ops))
<1> DEFINE n == Len(ops)
           V == Seq(RangeSet)
           D(h) == [k \in 0..n |-> IF k = 0 THEN <<>>
                      ELSE IF ops[k].type = "equal" THEN h[k - 1]
                      ELSE Joined(h[k - 1], Window(ops, k))]
           r == CHOOSE h : h = D(h)
           step == [k \in 1..n |-> [v \in V |->
                      IF ops[k].type = "equal" THEN v ELSE Joined(v, Window(ops, k))]]
<1>1. Ranges(ops) = r[n]  BY DEF Ranges
<1>2. ASSUME NEW k \in 1..n, NEW v \in V PROVE Joined(v, Window(ops, k)) \in V
  <2> DEFINE w == Window(ops, k)
  <2>1. w \in RangeSet
    <3>1. /\ w = [start |-> w.start, end |-> w.end]
          /\ w.start \in 1..k /\ w.end \in (k + 1)..(Len(ops) + 1)
      BY WindowIs
    <3> HIDE DEF w
    <3>2. w.start \in Nat /\ w.end \in Nat  BY <3>1
    <3> QED  BY <3>1, <3>2 DEF RangeSet
  <2> HIDE DEF w
  <2>2. CASE v # <<>> /\ w.start <= v[Len(v)].end
    <3> DEFINE m == Len(v)
               x == Larger(v[m].end, w.end)
               q == [start |-> v[m].start, end |-> x]
    <3>1. m \in 1..m
      <4>1. m \in Nat /\ m # 0  BY <2>2, EmptySeq, LenProperties
      <4> QED  BY <4>1
    <3>2. v[m] \in RangeSet  BY <3>1, ElementOfSeq
    <3>3. x \in Nat  BY <2>1, <3>2 DEF Larger, RangeSet
    <3>4. q \in RangeSet  BY <3>2, <3>3 DEF RangeSet
    <3>5. Joined(v, w) = [v EXCEPT ![m] = q]
      <4>1. Joined(v, w) = [v EXCEPT ![m].end = x]  BY <2>2 DEF Joined
      <4>2. [v[m] EXCEPT !.end = x] = q  BY <3>2 DEF RangeSet
      <4>3. [v EXCEPT ![m].end = x] = [v EXCEPT ![m] = [v[m] EXCEPT !.end = x]]  OBVIOUS
      <4> QED  BY <4>1, <4>2, <4>3
    <3> HIDE DEF q
    <3>6. [v EXCEPT ![m] = q] \in V  BY <3>1, <3>4, ExceptSeq
    <3> QED  BY <3>5, <3>6 DEF w
  <2>3. CASE ~(v # <<>> /\ w.start <= v[Len(v)].end)
    <3>1. Joined(v, w) = Append(v, w)  BY <2>3 DEF Joined
    <3>2. Append(v, w) \in V  BY <2>1, AppendProperties
    <3> QED  BY <3>1, <3>2 DEF w
  <2> QED  BY <2>2, <2>3
<1>3. step \in [1..n -> [V -> V]]
  <2> HIDE DEF V
  <2>1. \A k \in 1..n : \A v \in V :
          (IF ops[k].type = "equal" THEN v ELSE Joined(v, Window(ops, k))) \in V
    BY <1>2
  <2> QED  BY <2>1
<1>4. <<>> \in V  BY EmptySeq
<1>5. PICK f \in [0..n -> V] : IsRun(f, n, <<>>, step)
  <2> HIDE DEF step, V
  <2> QED  BY <1>3, <1>4, LoopRuns
<1>6. ASSUME NEW k \in 1..n
      PROVE  f[k] = IF ops[k].type = "equal" THEN f[k - 1] ELSE Joined(f[k - 1], Window(ops, k))
  <2> HIDE DEF V
  <2>1. k - 1 \in 0..n  OBVIOUS
  <2>2. f[k - 1] \in V  BY <2>1
  <2>3. f[k] = step[k][f[k - 1]]
    <3> HIDE DEF step
    <3> QED  BY <1>5 DEF IsRun
  <2> QED  BY <2>2, <2>3
<1>7. f = D(f)
  <2> HIDE DEF V
  <2>1. \A k \in 0..n : f[k] = D(f)[k]
    <3> SUFFICES ASSUME NEW k \in 0..n PROVE f[k] = D(f)[k]  OBVIOUS
    <3>1. CASE k = 0  BY <1>5, <3>1 DEF IsRun
    <3>2. CASE k # 0
      <4>1. k \in 1..n  BY <3>2
      <4> QED  BY <1>6, <3>2, <4>1
    <3> QED  BY <3>1, <3>2
  <2>2. f = [k \in 0..n |-> f[k]] /\ D(f) = [k \in 0..n |-> D(f)[k]]  OBVIOUS
  <2> HIDE DEF D
  <2> QED  BY <2>1, <2>2
<1>8. r = D(r)
  <2> HIDE DEF D
  <2> QED  BY <1>7, Zenon
<1>9. r[0] = <<>> /\ \A k \in 1..n :
        r[k] = IF ops[k].type = "equal" THEN r[k - 1] ELSE Joined(r[k - 1], Window(ops, k))
  <2> HIDE DEF r
  <2>1. \A k \in 0..n : r[k] = D(r)[k]
    <3> HIDE DEF D
    <3> QED  BY <1>8
  <2> QED  BY <2>1
<1> HIDE DEF r
<1> DEFINE I == {k \in Nat : k <= n => InOrder(r[k], ops, k)}
<1>10. ASSUME NEW k \in Nat, \A l \in 0..(k - 1) : l \in I PROVE k \in I
  <2>1. CASE k = 0
    <3>1. <<>> \in Seq(RangeSet) /\ Len(<<>>) = 0  BY EmptySeq
    <3>2. InOrder(<<>>, ops, 0)  BY <3>1 DEF InOrder
    <3> QED  BY <1>9, <2>1, <3>2
  <2>2. CASE k # 0 /\ k <= n
    <3>1. k \in 1..n /\ k - 1 \in 0..(k - 1) /\ k - 1 <= n  BY <2>2
    <3>2. InOrder(r[k - 1], ops, k - 1)  BY <1>10, <3>1
    <3>3. CASE ops[k].type = "equal"
      <4>1. r[k] = r[k - 1]  BY <1>9, <3>1, <3>3
      <4> DEFINE rs == r[k - 1]
      <4> HIDE DEF rs
      <4>2. InOrder(rs, ops, k - 1)  BY <3>2 DEF rs
      <4>3. \A x \in 1..(k - 1) : x \in 1..k  BY <3>1
      <4>4. \A i \in 1..Len(rs) :
               /\ rs[i].start \in 1..k /\ rs[i].end \in (rs[i].start + 1)..(Len(ops) + 1)
               /\ Opens(ops, rs[i].start) /\ Closes(ops, rs[i].end)
        BY <4>2, <4>3 DEF InOrder
      <4>5. \A c \in 1..k : ops[c].type # "equal" =>
              \E i \in 1..Len(rs) : rs[i].start <= c /\ c < rs[i].end
        <5> SUFFICES ASSUME NEW c \in 1..k, ops[c].type # "equal"
                     PROVE  \E i \in 1..Len(rs) : rs[i].start <= c /\ c < rs[i].end
          OBVIOUS
        <5>1. c # k  BY <3>3
        <5>2. c \in 1..(k - 1)  BY <5>1
        <5> QED  BY <4>2, <5>2 DEF InOrder
      <4>6. InOrder(rs, ops, k)  BY <4>2, <4>4, <4>5 DEF InOrder
      <4> QED  BY <4>1, <4>6 DEF rs
    <3>4. CASE ops[k].type # "equal"
      <4>1. r[k] = Joined(r[k - 1], Window(ops, k))  BY <1>9, <3>1, <3>4
      <4>2. InOrder(Joined(r[k - 1], Window(ops, k)), ops, k)  BY <3>1, <3>2, ApartJoined
      <4> QED  BY <4>1, <4>2
    <3> QED  BY <3>3, <3>4
  <2> QED  BY <2>1, <2>2
<1>11. n \in I
  <2> HIDE DEF I
  <2>1. I \in SUBSET Nat  BY DEF I
  <2> QED  BY <1>10, <2>1, Least
<1> QED  BY <1>1, <1>11

\* A range of changes only is all there is: a change next to it would belong to it.
LEMMA RangeOfAll ==
  ASSUME NEW ops, Len(ops) \in Nat, NEW rs, InOrder(rs, ops, Len(ops)), NEW i \in 1..Len(rs),
         \A k \in rs[i].start..(rs[i].end - 1) : ops[k].type # "equal"
  PROVE  rs[i].start = 1 /\ rs[i].end = Len(ops) + 1
<1> DEFINE n == Len(ops)  s == rs[i].start  e == rs[i].end
<1>0. Len(rs) \in Nat
  <2>1. rs \in Seq(RangeSet)  BY DEF InOrder
  <2> QED  BY <2>1, LenProperties
<1>1. /\ s \in 1..n /\ e \in (s + 1)..(n + 1)
      /\ Opens(ops, s) /\ Closes(ops, e)
  BY DEF InOrder
<1>2. \A j \in 1..Len(rs) : /\ rs[j].start \in 1..n /\ rs[j].end \in (rs[j].start + 1)..(n + 1)
                            /\ j < i => rs[j].end < s
                            /\ i < j => e < rs[j].start
  BY DEF InOrder
<1>3. \A c \in 1..n : ops[c].type # "equal" => \E j \in 1..Len(rs) : rs[j].start <= c /\ c < rs[j].end
  BY DEF InOrder
<1>4. s = 1
  <2> SUFFICES ASSUME s # 1 PROVE FALSE  OBVIOUS
  <2>1. s \in s..(e - 1)  BY <1>1
  <2>2. ops[s].type # "equal"  BY <2>1
  <2>3. s - 1 \in 1..n /\ ops[s - 1].type # "equal"  BY <1>1, <2>2 DEF Opens
  <2>4. PICK j \in 1..Len(rs) : rs[j].start <= s - 1 /\ s - 1 < rs[j].end  BY <1>3, <2>3
  <2> HIDE DEF s, e
  <2>5. /\ rs[j].start \in 1..n /\ rs[j].end \in (rs[j].start + 1)..(n + 1)
        /\ j < i => rs[j].end < s
        /\ i < j => e < rs[j].start
    BY <1>2
  <2>6. j = i => rs[j].start = s  BY DEF s
  <2>7. CASE j = i  BY <1>1, <2>4, <2>6, <2>7
  <2>8. CASE j < i  BY <1>1, <2>4, <2>5, <2>8
  <2>9. CASE i < j  BY <1>1, <2>4, <2>5, <2>9
  <2> QED  BY <1>0, <2>7, <2>8, <2>9
<1>5. e = n + 1
  <2> SUFFICES ASSUME e # n + 1 PROVE FALSE  OBVIOUS
  <2>1. e - 1 \in s..(e - 1)  BY <1>1
  <2>2. ops[e - 1].type # "equal"  BY <2>1
  <2>3. e \in 1..n /\ ops[e].type # "equal"  BY <1>1, <2>2 DEF Closes
  <2>4. PICK j \in 1..Len(rs) : rs[j].start <= e /\ e < rs[j].end  BY <1>3, <2>3
  <2> HIDE DEF s, e
  <2>5. /\ rs[j].start \in 1..n /\ rs[j].end \in (rs[j].start + 1)..(n + 1)
        /\ j < i => rs[j].end < s
        /\ i < j => e < rs[j].start
    BY <1>2
  <2>6. j = i => rs[j].end = e  BY DEF e
  <2>7. CASE j = i  BY <1>1, <2>4, <2>6, <2>7
  <2>8. CASE j < i  BY <1>1, <2>4, <2>5, <2>8
  <2>9. CASE i < j  BY <1>1, <2>4, <2>5, <2>9
  <2> QED  BY <1>0, <2>7, <2>8, <2>9
<1> QED  BY <1>4, <1>5

\* So a range has a line of either text: texts hold at least one.
LEMMA RangeHas ==
  ASSUME NEW S, NEW b, NEW a, NEW ops, WholePath(ops, S, b, a), Len(b) # 0, Len(a) # 0,
         NEW rs, InOrder(rs, ops, Len(ops)), NEW i \in 1..Len(rs)
  PROVE  /\ \E k \in rs[i].start..(rs[i].end - 1) : ops[k].type \in OfOld
         /\ \E k \in rs[i].start..(rs[i].end - 1) : ops[k].type \in OfNew
<1> DEFINE n == Len(ops)  I == rs[i].start..(rs[i].end - 1)
<1>0. n \in Nat  BY PathSteps
<1>1. "equal" \in OfOld /\ "equal" \in OfNew  BY DEF OfOld, OfNew
<1>2. /\ AtOf(ops, 0) = 0 /\ ToOf(ops, 0) = 0
      /\ AtOf(ops, n) = Len(b) /\ ToOf(ops, n) = Len(a)
  BY PathSteps
<1>3. 1 \in 1..(n + 1) /\ n \in (1 - 1)..n /\ 1 - 1 = 0 /\ (n + 1) - 1 = n  BY <1>0
<1>4. ASSUME \A k \in I : ops[k].type \notin OfOld PROVE FALSE
  <2>1. \A k \in I : ops[k].type # "equal"  BY <1>1, <1>4
  <2>2. rs[i].start = 1 /\ rs[i].end = n + 1  BY <1>0, <2>1, RangeOfAll
  <2>3. \A k \in 1..n : ops[k].type \notin OfOld  BY <1>3, <1>4, <2>2
  <2>4. AtOf(ops, 1 - 1) = AtOf(ops, n)  BY <1>3, <2>3, PathStill
  <2> QED  BY <1>2, <1>3, <2>4
<1>5. ASSUME \A k \in I : ops[k].type \notin OfNew PROVE FALSE
  <2>1. \A k \in I : ops[k].type # "equal"  BY <1>1, <1>5
  <2>2. rs[i].start = 1 /\ rs[i].end = n + 1  BY <1>0, <2>1, RangeOfAll
  <2>3. \A k \in 1..n : ops[k].type \notin OfNew  BY <1>3, <1>5, <2>2
  <2>4. ToOf(ops, 1 - 1) = ToOf(ops, n)  BY <1>3, <2>3, PathStill
  <2> QED  BY <1>2, <1>3, <2>4
<1> QED  BY <1>4, <1>5

\* The hunk h of the edits from s to before e: where it starts in either text, how many
\* lines it has of it, and at least one.
IsHunk(h, ops, s, e) ==
  /\ h.edits = SubSeq(ops, s, e - 1)
  /\ h.beforeStart = AtOf(ops, s - 1) + 1
  /\ h.beforeCount = AtOf(ops, e - 1) - AtOf(ops, s - 1)
  /\ h.afterStart = ToOf(ops, s - 1) + 1
  /\ h.afterCount = ToOf(ops, e - 1) - ToOf(ops, s - 1)
  /\ AtOf(ops, s - 1) < AtOf(ops, e - 1) /\ ToOf(ops, s - 1) < ToOf(ops, e - 1)

\* The headers of the hunks are where the path is before and after the range.
LEMMA HunkIs ==
  ASSUME NEW S, NEW b, NEW a, NEW ops, WholePath(ops, S, b, a),
         NEW r, r.start \in 1..Len(ops), r.end \in (r.start + 1)..(Len(ops) + 1),
         \E k \in r.start..(r.end - 1) : ops[k].type \in OfOld,
         \E k \in r.start..(r.end - 1) : ops[k].type \in OfNew
  PROVE  IsHunk(HunkOf(ops, r), ops, r.start, r.end)
<1> DEFINE s == r.start  e == r.end  h == HunkOf(ops, r)
           I == Having(ops, r, OfOld)  J == Having(ops, r, OfNew)
<1>0. /\ Len(ops) \in Nat /\ s \in Nat /\ e \in Nat
      /\ s \in 1..(Len(ops) + 1) /\ e - 1 \in (s - 1)..Len(ops)
  <2>1. Len(ops) \in Nat  BY PathSteps
  <2> QED  BY <2>1
<1>1. /\ h.edits = SubSeq(ops, s, e - 1)
      /\ h.beforeCount = Len(TextOf(SubSeq(ops, s, e - 1), OfOld))
      /\ h.afterCount = Len(TextOf(SubSeq(ops, s, e - 1), OfNew))
      /\ h.beforeStart = IF I = {} THEN 0 ELSE ops[Min(I)].at
      /\ h.afterStart = IF J = {} THEN 0 ELSE ops[Min(J)].to
  BY DEF HunkOf
<1>2. /\ Len(TextOf(SubSeq(ops, s, e - 1), OfOld)) = AtOf(ops, e - 1) - AtOf(ops, s - 1)
      /\ Len(TextOf(SubSeq(ops, s, e - 1), OfNew)) = ToOf(ops, e - 1) - ToOf(ops, s - 1)
  <2> HIDE DEF s, e
  <2> QED  BY <1>0, PathPiece
<1>3. AtOf(ops, s - 1) < AtOf(ops, e - 1) /\ ToOf(ops, s - 1) < ToOf(ops, e - 1)
  BY <1>0, PathGrows
<1>4. h.beforeStart = AtOf(ops, s - 1) + 1
  <2>1. I \in SUBSET Nat /\ I # {} /\ \A k \in I : k \in s..(e - 1) /\ ops[k].type \in OfOld
    BY <1>0 DEF Having
  <2> DEFINE m == Min(I)
  <2>2. m \in I /\ \A y \in I : m <= y
    <3> HIDE DEF I
    <3> QED  BY <2>1, MinIs
  <2> HIDE DEF m
  <2>3. m \in s..(e - 1) /\ ops[m].type \in OfOld  BY <2>1, <2>2
  <2>4. m - 1 \in (s - 1)..Len(ops) /\ m \in 1..Len(ops)  BY <1>0, <2>3
  <2>5. \A k \in s..(m - 1) : ops[k].type \notin OfOld
    <3> SUFFICES ASSUME NEW k \in s..(m - 1), ops[k].type \in OfOld PROVE FALSE  OBVIOUS
    <3>1. k \in s..(e - 1) /\ k < m  BY <1>0, <2>3
    <3>2. k \in I  BY <3>1 DEF Having
    <3> HIDE DEF I
    <3>3. m <= k  BY <2>2, <3>2
    <3> QED  BY <2>4, <3>1, <3>3
  <2>6. AtOf(ops, s - 1) = AtOf(ops, m - 1)
    <3> HIDE DEF s, e, I, J
    <3> DEFINE l == m - 1
    <3>1. l \in (s - 1)..Len(ops) /\ s \in 1..(Len(ops) + 1) /\ \A k \in s..l : ops[k].type \notin OfOld
      BY <1>0, <2>4, <2>5
    <3> HIDE DEF l
    <3>2. AtOf(ops, s - 1) = AtOf(ops, l)  BY <3>1, PathStill
    <3> QED  BY <3>2 DEF l
  <2>7. MovesOn(ops, b, a, m)  BY <2>4, PathMoves
  <2>10. ops[m].at = AtOf(ops, m)
    <3>1. m # 0  BY <2>4
    <3> QED  BY <3>1 DEF AtOf
  <2>8. ops[m].at = AtOf(ops, m - 1) + 1  BY <2>3, <2>7, <2>10 DEF MovesOn
  <2>9. h.beforeStart = ops[m].at  BY <1>1, <2>1 DEF m
  <2> QED  BY <2>6, <2>8, <2>9
<1>5. h.afterStart = ToOf(ops, s - 1) + 1
  <2>1. J \in SUBSET Nat /\ J # {} /\ \A k \in J : k \in s..(e - 1) /\ ops[k].type \in OfNew
    BY <1>0 DEF Having
  <2> DEFINE m == Min(J)
  <2>2. m \in J /\ \A y \in J : m <= y
    <3> HIDE DEF J
    <3> QED  BY <2>1, MinIs
  <2> HIDE DEF m
  <2>3. m \in s..(e - 1) /\ ops[m].type \in OfNew  BY <2>1, <2>2
  <2>4. m - 1 \in (s - 1)..Len(ops) /\ m \in 1..Len(ops)  BY <1>0, <2>3
  <2>5. \A k \in s..(m - 1) : ops[k].type \notin OfNew
    <3> SUFFICES ASSUME NEW k \in s..(m - 1), ops[k].type \in OfNew PROVE FALSE  OBVIOUS
    <3>1. k \in s..(e - 1) /\ k < m  BY <1>0, <2>3
    <3>2. k \in J  BY <3>1 DEF Having
    <3> HIDE DEF J
    <3>3. m <= k  BY <2>2, <3>2
    <3> QED  BY <2>4, <3>1, <3>3
  <2>6. ToOf(ops, s - 1) = ToOf(ops, m - 1)
    <3> HIDE DEF s, e, I, J
    <3> DEFINE l == m - 1
    <3>1. l \in (s - 1)..Len(ops) /\ s \in 1..(Len(ops) + 1) /\ \A k \in s..l : ops[k].type \notin OfNew
      BY <1>0, <2>4, <2>5
    <3> HIDE DEF l
    <3>2. ToOf(ops, s - 1) = ToOf(ops, l)  BY <3>1, PathStill
    <3> QED  BY <3>2 DEF l
  <2>7. MovesOn(ops, b, a, m)  BY <2>4, PathMoves
  <2>10. ops[m].to = ToOf(ops, m)
    <3>1. m # 0  BY <2>4
    <3> QED  BY <3>1 DEF ToOf
  <2>8. ops[m].to = ToOf(ops, m - 1) + 1  BY <2>3, <2>7, <2>10 DEF MovesOn
  <2>9. h.afterStart = ops[m].to  BY <1>1, <2>1 DEF m
  <2> QED  BY <2>6, <2>8, <2>9
<1> HIDE DEF h
<1> QED  BY <1>1, <1>2, <1>3, <1>4, <1>5 DEF IsHunk, h

\* Where the edits start that are between a range and the next, and where the next starts.
EndOf(rs, i) == IF i = 0 THEN 1 ELSE rs[i].end
StartOf(rs, ops, i) == IF i = Len(rs) + 1 THEN Len(ops) + 1 ELSE rs[i].start

\* There is no change there.
LEMMA BetweenRanges ==
  ASSUME NEW ops, Len(ops) \in Nat, NEW rs, InOrder(rs, ops, Len(ops)), NEW i \in 0..Len(rs)
  PROVE  /\ EndOf(rs, i) \in 1..(Len(ops) + 1)
         /\ StartOf(rs, ops, i + 1) \in EndOf(rs, i)..(Len(ops) + 1)
         /\ i # 0 /\ i # Len(rs) => EndOf(rs, i) < StartOf(rs, ops, i + 1)
         /\ \A k \in EndOf(rs, i)..(StartOf(rs, ops, i + 1) - 1) : ops[k].type = "equal"
<1> DEFINE n == Len(ops)  m == Len(rs)  x == EndOf(rs, i)  y == StartOf(rs, ops, i + 1)
<1>0. m \in Nat /\ i \in Nat /\ i <= m
  <2>1. rs \in Seq(RangeSet)  BY DEF InOrder
  <2> QED  BY <2>1, LenProperties
<1>1. \A j \in 1..m : /\ rs[j].start \in 1..n /\ rs[j].end \in (rs[j].start + 1)..(n + 1)
                      /\ j < i => rs[j].end < rs[i].start
                      /\ i < j /\ i # 0 => rs[i].end < rs[j].start
                      /\ i + 1 < j => rs[i + 1].end < rs[j].start
  <2> SUFFICES ASSUME NEW j \in 1..m
               PROVE  /\ rs[j].start \in 1..n /\ rs[j].end \in (rs[j].start + 1)..(n + 1)
                      /\ j < i => rs[j].end < rs[i].start
                      /\ i < j /\ i # 0 => rs[i].end < rs[j].start
                      /\ i + 1 < j => rs[i + 1].end < rs[j].start
    OBVIOUS
  <2>1. j < i => i \in 1..m  BY <1>0
  <2>2. i # 0 => i \in 1..m  BY <1>0
  <2>3. i + 1 < j => i + 1 \in 1..m  BY <1>0
  <2> QED  BY <2>1, <2>2, <2>3 DEF InOrder
<1>2. \A c \in 1..n : ops[c].type # "equal" => \E j \in 1..m : rs[j].start <= c /\ c < rs[j].end
  BY DEF InOrder
<1>3. i # 0 => i \in 1..m /\ x = rs[i].end  BY <1>0 DEF EndOf
<1>4. i = 0 => x = 1  BY DEF EndOf
<1>5. i # m => i + 1 \in 1..m /\ y = rs[i + 1].start  BY <1>0 DEF StartOf
<1>6. i = m => y = n + 1  BY DEF StartOf
<1> HIDE DEF x, y
<1>7. x \in 1..(n + 1)
  <2>1. CASE i = 0  BY <1>4, <2>1
  <2>2. CASE i # 0  BY <1>1, <1>3, <2>2
  <2> QED  BY <2>1, <2>2
<1>8. y \in 1..(n + 1)
  <2>1. CASE i = m  BY <1>6, <2>1
  <2>2. CASE i # m  BY <1>1, <1>5, <2>2
  <2> QED  BY <2>1, <2>2
<1>9. i # 0 /\ i # m => x < y
  <2> SUFFICES ASSUME i # 0, i # m PROVE x < y  OBVIOUS
  <2>1. i < i + 1 /\ i + 1 \in 1..m  BY <1>0
  <2>2. rs[i].end < rs[i + 1].start  BY <1>1, <2>1
  <2> QED  BY <1>3, <1>5, <2>2
<1>10. x <= y
  <2>1. CASE i = 0  BY <1>4, <1>8, <2>1
  <2>2. CASE i = m  BY <1>6, <1>7, <2>2
  <2>3. CASE i # 0 /\ i # m  BY <1>7, <1>8, <1>9, <2>3
  <2> QED  BY <2>1, <2>2, <2>3
<1>11. ASSUME NEW k \in x..(y - 1) PROVE ops[k].type = "equal"
  <2> SUFFICES ASSUME ops[k].type # "equal" PROVE FALSE  OBVIOUS
  <2>1. k \in 1..n  BY <1>7, <1>8
  <2>2. PICK j \in 1..m : rs[j].start <= k /\ k < rs[j].end  BY <1>2, <2>1
  <2>3. rs[j].start \in 1..n /\ rs[j].end \in (rs[j].start + 1)..(n + 1)  BY <1>1
  <2>4. CASE j <= i
    <3>1. i # 0 /\ i \in 1..m  BY <1>0, <2>4
    <3>2. x = rs[i].end /\ rs[i].start < x /\ rs[i].start \in Nat  BY <1>1, <1>3, <3>1
    <3>3. CASE j = i  BY <1>7, <2>2, <3>2, <3>3
    <3>4. CASE j < i
      <4>1. rs[j].end < rs[i].start  BY <1>1, <3>4
      <4> QED  BY <1>7, <2>2, <2>3, <3>2, <4>1
    <3> QED  BY <1>0, <2>4, <3>3, <3>4
  <2>5. CASE j > i
    <3>1. i # m /\ i + 1 \in 1..m  BY <1>0, <2>5
    <3>2. y = rs[i + 1].start /\ y < rs[i + 1].end /\ rs[i + 1].end \in Nat  BY <1>1, <1>5, <3>1
    <3>3. CASE j = i + 1  BY <1>8, <2>2, <3>2, <3>3
    <3>4. CASE j # i + 1
      <4>1. i + 1 < j  BY <1>0, <2>5, <3>4
      <4>2. rs[i + 1].end < rs[j].start  BY <1>1, <4>1
      <4> QED  BY <1>8, <2>2, <2>3, <3>2, <4>2
    <3> QED  BY <3>3, <3>4
  <2> QED  BY <1>0, <2>4, <2>5
<1>12. y \in x..(n + 1)  BY <1>7, <1>8, <1>10
<1> QED  BY <1>7, <1>9, <1>11, <1>12 DEF x, y

\* Pieces of a text.
LEMMA PieceOf ==
  ASSUME NEW S, NEW s \in Seq(S), NEW i \in Nat, NEW j \in 0..Len(s)
  PROVE  SubSeq(s, i + 1, j) \in Seq(S)
<1>1. Len(s) \in Nat  BY LenProperties
<1>2. \A k \in (i + 1)..j : s[k] \in S
  <2> SUFFICES ASSUME NEW k \in (i + 1)..j PROVE s[k] \in S  OBVIOUS
  <2>1. k \in 1..Len(s)  BY <1>1
  <2> QED  BY <2>1, ElementOfSeq
<1>3. i + 1 \in Int /\ j \in Int  BY <1>1
<1> QED  BY <1>2, <1>3, SubSeqProperties

\* The text after the first i hunks is the new one up to there.
LEMMA Patching ==
  ASSUME NEW S, NEW b, NEW a, NEW ops, WholePath(ops, S, b, a),
         NEW rs, InOrder(rs, ops, Len(ops)), NEW hs, Len(hs) = Len(rs),
         \A i \in 1..Len(rs) : IsHunk(hs[i], ops, rs[i].start, rs[i].end)
  PROVE  Patched(b, hs) = a
<1> DEFINE n == Len(ops)  m == Len(rs)
           V == Seq(S)
           end(i) == IF i = 0 THEN 0 ELSE hs[i].beforeStart + hs[i].beforeCount - 1
           Gap(i) == SubSeq(b, end(i - 1) + 1, hs[i].beforeStart - 1)
           D(h) == [i \in 0..Len(hs) |-> IF i = 0 THEN <<>>
                      ELSE h[i - 1] \o SubSeq(b, end(i - 1) + 1, hs[i].beforeStart - 1)
                                    \o TextOf(hs[i].edits, OfNew)]
           out == CHOOSE h : h = D(h)
           step == [i \in 1..m |-> [v \in V |-> v \o Gap(i) \o TextOf(hs[i].edits, OfNew)]]
<1>1. Patched(b, hs) = out[Len(hs)] \o SubSeq(b, end(Len(hs)) + 1, Len(b))  BY DEF Patched
<1>0. /\ n \in Nat /\ m \in Nat /\ Len(b) \in Nat /\ Len(a) \in Nat
      /\ b \in Seq(S) /\ a \in Seq(S)
  <2>1. n \in Nat /\ Len(b) \in Nat /\ Len(a) \in Nat  BY PathSteps
  <2>2. rs \in Seq(RangeSet)  BY DEF InOrder
  <2>3. m \in Nat  BY <2>2, LenProperties
  <2> QED  BY <2>1, <2>3 DEF WholePath
<1> DEFINE E(i) == EndOf(rs, i) - 1   \* the last edit of the range i
           F(i) == StartOf(rs, ops, i) - 1   \* the last edit before it
<1>2. ASSUME NEW k \in 0..n
      PROVE  AtOf(ops, k) \in 0..Len(b) /\ ToOf(ops, k) \in 0..Len(a)
  BY PathSteps
<1>3. ASSUME NEW i \in 0..m
      PROVE  /\ E(i) \in 0..n /\ F(i + 1) \in E(i)..n
             /\ \A k \in (E(i) + 1)..F(i + 1) : ops[k].type = "equal"
             /\ E(i) + 1 \in 1..(n + 1) /\ (E(i) + 1) - 1 = E(i)
  <2> DEFINE x == EndOf(rs, i)  y == StartOf(rs, ops, i + 1)
  <2>1. x \in 1..(n + 1) /\ y \in x..(n + 1) /\ \A k \in x..(y - 1) : ops[k].type = "equal"
    BY <1>0, BetweenRanges
  <2> HIDE DEF x, y
  <2>2. /\ x - 1 \in 0..n /\ y - 1 \in (x - 1)..n /\ (x - 1) + 1 = x
        /\ (x - 1) + 1 \in 1..(n + 1)
    BY <1>0, <2>1
  <2> QED  BY <2>1, <2>2 DEF x, y
<1>4. ASSUME NEW i \in 1..m
      PROVE  /\ hs[i].beforeStart = AtOf(ops, F(i)) + 1
             /\ hs[i].beforeStart + hs[i].beforeCount - 1 = AtOf(ops, E(i))
             /\ TextOf(hs[i].edits, OfNew) = SubSeq(a, ToOf(ops, F(i)) + 1, ToOf(ops, E(i)))
             /\ F(i) \in 0..n /\ E(i) \in F(i)..n /\ ToOf(ops, F(i)) <= ToOf(ops, E(i))
  <2>1. E(i) = rs[i].end - 1 /\ F(i) = rs[i].start - 1  BY <1>0 DEF EndOf, StartOf
  <2>2. rs[i].start \in 1..n /\ rs[i].end \in (rs[i].start + 1)..(n + 1)  BY DEF InOrder
  <2>3. F(i) \in 0..n /\ E(i) \in F(i)..n /\ F(i) + 1 \in 1..(n + 1) /\ (F(i) + 1) - 1 = F(i)
    BY SMTT(40), <1>0, <2>1, <2>2
  <2>4. /\ hs[i].edits = SubSeq(ops, F(i) + 1, E(i))
        /\ hs[i].beforeStart = AtOf(ops, F(i)) + 1
        /\ hs[i].beforeCount = AtOf(ops, E(i)) - AtOf(ops, F(i))
    <3>1. IsHunk(hs[i], ops, rs[i].start, rs[i].end)  OBVIOUS
    <3>2. F(i) + 1 = rs[i].start  BY <2>1, <2>2
    <3> HIDE DEF E, F
    <3> QED  BY <2>1, <3>1, <3>2 DEF IsHunk
  <2> HIDE DEF E, F
  <2>5. E(i) \in 0..n  BY <1>0, <2>3
  <2>6. AtOf(ops, F(i)) \in 0..Len(b) /\ AtOf(ops, E(i)) \in 0..Len(b)
    BY <1>2, <2>3, <2>5
  <2>7. hs[i].beforeStart + hs[i].beforeCount - 1 = AtOf(ops, E(i))  BY <1>0, <2>4, <2>6
  <2>8. F(i) + 1 \in 1..(n + 1) /\ E(i) \in ((F(i) + 1) - 1)..n  BY <2>3
  <2>9. /\ TextOf(SubSeq(ops, F(i) + 1, E(i)), OfNew)
             = SubSeq(a, ToOf(ops, (F(i) + 1) - 1) + 1, ToOf(ops, E(i)))
        /\ ToOf(ops, (F(i) + 1) - 1) <= ToOf(ops, E(i))
    BY <2>8, PathPiece
  <2> QED  BY <2>3, <2>4, <2>7, <2>9
<1>5. ASSUME NEW i \in 0..m PROVE end(i) = AtOf(ops, E(i)) /\ E(0) = 0
  <2>1. E(0) = 0 /\ AtOf(ops, 0) = 0  BY DEF EndOf, AtOf
  <2>2. CASE i = 0  BY <2>1, <2>2
  <2>3. CASE i # 0
    <3>1. i \in 1..m  BY <1>0, <2>3
    <3> HIDE DEF E, F
    <3> QED  BY <1>4, <2>1, <2>3, <3>1
  <2> QED  BY <2>2, <2>3
\* What is left out between two hunks is the same in both texts.
<1>6. ASSUME NEW i \in 0..m
      PROVE  /\ SubSeq(b, end(i) + 1, AtOf(ops, F(i + 1)))
                  = SubSeq(a, ToOf(ops, E(i)) + 1, ToOf(ops, F(i + 1)))
             /\ ToOf(ops, E(i)) <= ToOf(ops, F(i + 1))
  <2> HIDE DEF E, F
  <2>1. /\ E(i) + 1 \in 1..(n + 1) /\ F(i + 1) \in ((E(i) + 1) - 1)..n /\ (E(i) + 1) - 1 = E(i)
        /\ \A k \in (E(i) + 1)..F(i + 1) : ops[k].type = "equal"
    BY <1>3
  <2>2. SubSeq(b, AtOf(ops, (E(i) + 1) - 1) + 1, AtOf(ops, F(i + 1)))
          = SubSeq(a, ToOf(ops, (E(i) + 1) - 1) + 1, ToOf(ops, F(i + 1)))
    <3> DEFINE x == E(i) + 1  y == F(i + 1)  o == SubSeq(ops, x, y)
    <3>1. x \in 1..(n + 1) /\ y \in (x - 1)..n /\ \A k \in x..y : ops[k].type = "equal"
      BY <2>1
    <3> HIDE DEF x, y
    <3>2. Quiet(ops, x, y)  BY <3>1 DEF Quiet
    <3>3. TextOf(o, OfOld) = TextOf(o, OfNew)  BY <3>1, <3>2, PathSame
    <3>4. /\ TextOf(o, OfOld) = SubSeq(b, AtOf(ops, x - 1) + 1, AtOf(ops, y))
          /\ TextOf(o, OfNew) = SubSeq(a, ToOf(ops, x - 1) + 1, ToOf(ops, y))
      BY <3>1, PathPiece
    <3> HIDE DEF o
    <3>5. SubSeq(b, AtOf(ops, x - 1) + 1, AtOf(ops, y)) = SubSeq(a, ToOf(ops, x - 1) + 1, ToOf(ops, y))
      BY <3>3, <3>4
    <3> QED  BY <3>5 DEF x, y
  <2>3. ToOf(ops, (E(i) + 1) - 1) <= ToOf(ops, F(i + 1))  BY <2>1, PathPiece
  <2>4. end(i) = AtOf(ops, E(i))  BY <1>5
  <2> HIDE DEF end
  <2> QED  BY <2>1, <2>2, <2>3, <2>4
<1>7. ASSUME NEW i \in 1..m
      PROVE  /\ Gap(i) = SubSeq(a, ToOf(ops, E(i - 1)) + 1, ToOf(ops, F(i)))
             /\ ToOf(ops, E(i - 1)) <= ToOf(ops, F(i))
             /\ ToOf(ops, E(i - 1)) \in 0..Len(a) /\ ToOf(ops, F(i)) \in 0..Len(a)
             /\ ToOf(ops, E(i)) \in 0..Len(a)
  <2> HIDE DEF E, F
  <2>1. i - 1 \in 0..m /\ (i - 1) + 1 = i /\ i \in 0..m  BY <1>0
  <2>2. /\ SubSeq(b, end(i - 1) + 1, AtOf(ops, F(i)))
              = SubSeq(a, ToOf(ops, E(i - 1)) + 1, ToOf(ops, F(i)))
        /\ ToOf(ops, E(i - 1)) <= ToOf(ops, F(i))
    <3> HIDE DEF end
    <3>1. \A l \in 0..m : /\ SubSeq(b, end(l) + 1, AtOf(ops, F(l + 1)))
                                = SubSeq(a, ToOf(ops, E(l)) + 1, ToOf(ops, F(l + 1)))
                          /\ ToOf(ops, E(l)) <= ToOf(ops, F(l + 1))
      BY <1>6
    <3>2. /\ SubSeq(b, end(i - 1) + 1, AtOf(ops, F((i - 1) + 1)))
                = SubSeq(a, ToOf(ops, E(i - 1)) + 1, ToOf(ops, F((i - 1) + 1)))
          /\ ToOf(ops, E(i - 1)) <= ToOf(ops, F((i - 1) + 1))
      BY <2>1, <3>1
    <3> QED  BY <2>1, <3>2
  <2>3. F(i) \in 0..n /\ E(i) \in 0..n /\ E(i - 1) \in 0..n  BY <1>3, <1>4, <2>1
  <2>4. hs[i].beforeStart - 1 = AtOf(ops, F(i))
    <3>1. hs[i].beforeStart = AtOf(ops, F(i)) + 1  BY <1>4
    <3>2. AtOf(ops, F(i)) \in 0..Len(b)  BY <1>2, <2>3
    <3> QED  BY <1>0, <3>1, <3>2
  <2> HIDE DEF end
  <2>5. Gap(i) = SubSeq(a, ToOf(ops, E(i - 1)) + 1, ToOf(ops, F(i)))  BY <2>2, <2>4
  <2> QED  BY <1>2, <2>2, <2>3, <2>5
<1> HIDE DEF E, F, Gap
<1>8. ASSUME NEW i \in 1..m
      PROVE  /\ Gap(i) \in V /\ TextOf(hs[i].edits, OfNew) \in V
             /\ TextOf(hs[i].edits, OfNew) = SubSeq(a, ToOf(ops, F(i)) + 1, ToOf(ops, E(i)))
             /\ ToOf(ops, F(i)) <= ToOf(ops, E(i))
  <2>1. /\ ToOf(ops, E(i - 1)) \in 0..Len(a) /\ ToOf(ops, F(i)) \in 0..Len(a)
        /\ ToOf(ops, E(i)) \in 0..Len(a)
    BY <1>7
  <2>2. /\ SubSeq(a, ToOf(ops, E(i - 1)) + 1, ToOf(ops, F(i))) \in V
        /\ SubSeq(a, ToOf(ops, F(i)) + 1, ToOf(ops, E(i))) \in V
    BY <1>0, <2>1, PieceOf
  <2> QED  BY <1>4, <1>7, <2>2
<1>9. step \in [1..m -> [V -> V]]
  <2> HIDE DEF V
  <2>1. \A i \in 1..m : \A v \in V : v \o Gap(i) \o TextOf(hs[i].edits, OfNew) \in V
    BY <1>8, ConcatProperties DEF V
  <2> QED  BY <2>1
<1>10. <<>> \in V  BY EmptySeq
<1>11. PICK f \in [0..m -> V] : IsRun(f, m, <<>>, step)
  <2> HIDE DEF step, V
  <2> QED  BY <1>0, <1>9, <1>10, LoopRuns
<1>12. ASSUME NEW i \in 1..m
       PROVE  f[i] = f[i - 1] \o Gap(i) \o TextOf(hs[i].edits, OfNew)
  <2> HIDE DEF V
  <2>1. i - 1 \in 0..m  BY <1>0
  <2>2. f[i - 1] \in V  BY <2>1
  <2>3. f[i] = step[i][f[i - 1]]
    <3> HIDE DEF step
    <3> QED  BY <1>11 DEF IsRun
  <2> QED  BY <2>2, <2>3
<1>13. f = D(f)
  <2> HIDE DEF V
  <2>1. \A i \in 0..Len(hs) : f[i] = D(f)[i]
    <3> SUFFICES ASSUME NEW i \in 0..Len(hs) PROVE f[i] = D(f)[i]  OBVIOUS
    <3>1. CASE i = 0  BY <1>11, <3>1 DEF IsRun
    <3>2. CASE i # 0
      <4>1. i \in 1..m  BY <1>0, <3>2
      <4>2. f[i] = f[i - 1] \o Gap(i) \o TextOf(hs[i].edits, OfNew)  BY <1>12, <4>1
      <4>3. D(f)[i] = f[i - 1] \o SubSeq(b, end(i - 1) + 1, hs[i].beforeStart - 1)
                               \o TextOf(hs[i].edits, OfNew)
        <5> HIDE DEF end
        <5> QED  BY <3>2
      <4> QED  BY <4>2, <4>3 DEF Gap
    <3> QED  BY <3>1, <3>2
  <2>2. f = [i \in 0..Len(hs) |-> f[i]] /\ D(f) = [i \in 0..Len(hs) |-> D(f)[i]]
    <3> HIDE DEF end
    <3> QED  OBVIOUS
  <2> HIDE DEF D
  <2> QED  BY <2>1, <2>2
<1>14. out = D(out)
  <2> HIDE DEF D
  <2> QED  BY <1>13, Zenon
<1>15. /\ out[0] = <<>>
       /\ \A i \in 1..m : out[i] = out[i - 1] \o Gap(i) \o TextOf(hs[i].edits, OfNew)
  <2> HIDE DEF out, end
  <2>1. \A i \in 0..Len(hs) : out[i] = D(out)[i]
    <3> HIDE DEF D
    <3> QED  BY <1>14
  <2>2. out[0] = <<>>  BY <1>0, <2>1
  <2>3. ASSUME NEW i \in 1..m PROVE out[i] = out[i - 1] \o Gap(i) \o TextOf(hs[i].edits, OfNew)
    <3>1. i \in 0..Len(hs) /\ i # 0  BY <1>0
    <3> QED  BY <2>1, <3>1 DEF Gap
  <2> QED  BY <2>2, <2>3
<1> HIDE DEF out, end
<1> DEFINE I == {i \in Nat : i <= m => out[i] = SubSeq(a, 1, ToOf(ops, E(i)))}
<1>16. ASSUME NEW i \in Nat, \A l \in 0..(i - 1) : l \in I PROVE i \in I
  <2>1. CASE i = 0
    <3>1. ToOf(ops, E(0)) = 0
      <4>1. E(0) = 0  BY <1>0, <1>5
      <4> QED  BY <4>1 DEF ToOf
    <3>2. SubSeq(a, 1, 0) = <<>>  BY SubSeqEmpty
    <3> QED  BY <1>15, <2>1, <3>1, <3>2
  <2>2. CASE i # 0 /\ i <= m
    <3>1. i \in 1..m /\ i - 1 \in 0..(i - 1) /\ i - 1 <= m  BY <1>0, <2>2
    <3> DEFINE x == ToOf(ops, E(i - 1))  y == ToOf(ops, F(i))  z == ToOf(ops, E(i))
    <3>2. out[i - 1] = SubSeq(a, 1, x)  BY <1>16, <3>1
    <3>3. out[i] = SubSeq(a, 1, x) \o SubSeq(a, x + 1, y) \o SubSeq(a, y + 1, z)
      BY <1>7, <1>8, <1>15, <3>1, <3>2
    <3>4. /\ x \in 0..Len(a) /\ y \in 0..Len(a) /\ z \in 0..Len(a) /\ x <= y /\ y <= z
      BY <1>7, <1>8, <3>1
    <3> HIDE DEF x, y, z
    <3>5. /\ 1 \in 1..(Len(a) + 1) /\ x \in (1 - 1)..Len(a) /\ y \in x..Len(a)
          /\ y \in (1 - 1)..Len(a) /\ z \in y..Len(a)
      BY <1>0, <3>4
    <3>6. SubSeq(a, 1, x) \o SubSeq(a, x + 1, y) = SubSeq(a, 1, y)
      BY <1>0, <3>5, ConcatAdjacentSubSeq
    <3>7. SubSeq(a, 1, y) \o SubSeq(a, y + 1, z) = SubSeq(a, 1, z)
      BY <1>0, <3>5, ConcatAdjacentSubSeq
    <3>8. out[i] = SubSeq(a, 1, z)  BY <3>3, <3>6, <3>7
    <3> QED  BY <3>8 DEF z
  <2> QED  BY <2>1, <2>2
<1>17. m \in I
  <2> HIDE DEF I
  <2>1. I \in SUBSET Nat  BY DEF I
  <2> QED  BY <1>0, <1>16, <2>1, Least
<1>18. out[m] = SubSeq(a, 1, ToOf(ops, E(m)))  BY <1>0, <1>17
<1>19. F(m + 1) = n /\ AtOf(ops, n) = Len(b) /\ ToOf(ops, n) = Len(a)
  <2>1. F(m + 1) = n  BY <1>0 DEF F, StartOf
  <2> QED  BY <2>1, PathSteps
<1>20. /\ SubSeq(b, end(m) + 1, Len(b)) = SubSeq(a, ToOf(ops, E(m)) + 1, Len(a))
       /\ ToOf(ops, E(m)) \in 0..Len(a)
  <2>1. m \in 0..m  BY <1>0
  <2>2. SubSeq(b, end(m) + 1, AtOf(ops, F(m + 1))) = SubSeq(a, ToOf(ops, E(m)) + 1, ToOf(ops, F(m + 1)))
    BY <1>6, <2>1
  <2>3. ToOf(ops, E(m)) \in 0..Len(a)  BY <1>2, <1>3, <2>1
  <2> QED  BY <1>19, <2>2, <2>3
<1>21. Patched(b, hs) = SubSeq(a, 1, ToOf(ops, E(m))) \o SubSeq(a, ToOf(ops, E(m)) + 1, Len(a))
  BY <1>1, <1>18, <1>20 DEF out, end
<1>22. SubSeq(a, 1, ToOf(ops, E(m))) \o SubSeq(a, ToOf(ops, E(m)) + 1, Len(a)) = SubSeq(a, 1, Len(a))
  <2>1. /\ 1 \in 1..(Len(a) + 1) /\ ToOf(ops, E(m)) \in (1 - 1)..Len(a)
        /\ Len(a) \in ToOf(ops, E(m))..Len(a)
    BY <1>0, <1>20
  <2> QED  BY <1>0, <2>1, ConcatAdjacentSubSeq
<1> QED  BY <1>0, <1>21, <1>22, SubSeqFull

-----------------------------------------------------------------------------
\* No common subsequence is longer than what the walk keeps.
LEMMA MostKept ==
  ASSUME NEW S, NEW b \in Seq(S), NEW a \in Seq(S), NEW m \in CommonLengths(b, a)
  PROVE  m <= Len(TextOf(Script(b, a), {"equal"}))
<1>0. /\ Len(b) \in Nat /\ Len(a) \in Nat
      /\ DOMAIN b = 1..Len(b) /\ DOMAIN a = 1..Len(a)
  BY LenProperties
<1>1. PICK T \in SUBSET (1..Len(b)) :
        /\ m = Cardinality(T)
        /\ \E f \in [T -> 1..Len(a)] :
             \A i, j \in T : b[i] = a[f[i]] /\ (i < j => f[i] < f[j])
  BY <1>0 DEF CommonLengths
<1>2. PICK f \in [T -> 1..Len(a)] : \A i, j \in T : b[i] = a[f[i]] /\ (i < j => f[i] < f[j])
  BY <1>1
<1>3. Aligned(b, a, Len(b), Len(a), T, f)  BY <1>2 DEF Aligned
<1>4. Cardinality(T) <= Common(b, a)[<<Len(b), Len(a)>>]
  <2>1. Len(b) \in 0..Len(b) /\ Len(a) \in 0..Len(a)  BY <1>0
  <2>2. \A i \in 0..Len(b), j \in 0..Len(a) : \A U, g :
           Aligned(b, a, i, j, U, g) => Cardinality(U) <= Common(b, a)[<<i, j>>]
    BY <1>0, TableBounds
  <2> QED  BY <1>3, <2>1, <2>2
<1>5. WholePath(Script(b, a), S, b, a)  BY ScriptPath DEF WholePath
<1>6. Len(TextOf(Script(b, a), {"equal"})) = Common(b, a)[<<Len(b), Len(a)>>]  BY <1>5, PathKeeps
<1> QED  BY <1>1, <1>4, <1>6

\* The hunks hs of a diff, made of the ranges rs of a path.
HunksOf(hs, ops, rs, S, b, a) ==
  /\ WholePath(ops, S, b, a) /\ InOrder(rs, ops, Len(ops))
  /\ Len(hs) = Len(rs) /\ Len(rs) \in Nat /\ DOMAIN hs = 1..Len(rs)
  /\ \A i \in 1..Len(rs) : IsHunk(hs[i], ops, rs[i].start, rs[i].end)

\* The diff of two texts that differ is made so.
LEMMA UnifiedIs ==
  ASSUME NEW S, NEW b \in Seq(S), NEW a \in Seq(S), b # <<>>, a # <<>>, b # a
  PROVE  HunksOf(Unified(b, a), Script(b, a), Ranges(Script(b, a)), S, b, a)
<1> DEFINE ops == Script(b, a)  rs == Ranges(ops)  hs == Unified(b, a)
           T == {HunkOf(ops, rs[i]) : i \in 1..Len(rs)}
<1>1. WholePath(ops, S, b, a)  BY ScriptPath DEF WholePath
<1>2. Len(ops) \in Nat /\ Len(b) # 0 /\ Len(a) # 0  BY <1>1, PathSteps, EmptySeq
<1> HIDE DEF ops
<1>3. InOrder(rs, ops, Len(ops))  BY <1>2, RangesApart
<1>4. Len(rs) \in Nat /\ DOMAIN rs = 1..Len(rs)
  <2>1. rs \in Seq(RangeSet)  BY <1>3 DEF InOrder
  <2> QED  BY <2>1, LenProperties
<1> HIDE DEF rs
<1>5. hs = [i \in 1..Len(rs) |-> HunkOf(ops, rs[i])]  BY <1>4 DEF Unified, ops, rs
<1>6. hs \in Seq(T)
  <2>1. hs \in [1..Len(rs) -> T]  BY <1>5
  <2> HIDE DEF T, hs
  <2> QED  BY <1>4, <2>1, SeqDef
<1>7. DOMAIN hs = 1..Len(rs)  BY <1>5
<1>8. Len(hs) = Len(rs)
  <2> HIDE DEF hs, T
  <2>1. Len(hs) \in Nat /\ DOMAIN hs = 1..Len(hs)  BY <1>6, LenProperties
  <2> QED  BY <1>4, <1>7, <2>1
<1>9. ASSUME NEW i \in 1..Len(rs) PROVE IsHunk(hs[i], ops, rs[i].start, rs[i].end)
  <2>1. hs[i] = HunkOf(ops, rs[i])  BY <1>5
  <2>2. rs[i].start \in 1..Len(ops) /\ rs[i].end \in (rs[i].start + 1)..(Len(ops) + 1)
    BY <1>3 DEF InOrder
  <2>3. /\ \E k \in rs[i].start..(rs[i].end - 1) : ops[k].type \in OfOld
        /\ \E k \in rs[i].start..(rs[i].end - 1) : ops[k].type \in OfNew
    BY <1>1, <1>2, <1>3, RangeHas
  <2> DEFINE r == rs[i]
  <2> HIDE DEF r, hs
  <2>4. IsHunk(HunkOf(ops, r), ops, r.start, r.end)  BY <1>1, <2>2, <2>3, HunkIs DEF r
  <2> QED  BY <2>1, <2>4 DEF r
<1> HIDE DEF hs
<1>10. HunksOf(hs, ops, rs, S, b, a)  BY <1>1, <1>3, <1>4, <1>7, <1>8, <1>9 DEF HunksOf
<1> QED  BY <1>10 DEF hs, ops, rs

\* A path without a change is one between equal texts.
LEMMA QuietPath ==
  ASSUME NEW S, NEW b, NEW a, NEW ops, WholePath(ops, S, b, a), Quiet(ops, 1, Len(ops))
  PROVE  b = a
<1>1. Len(ops) \in Nat  BY PathSteps
<1>2. ops \in Seq(Edits(S))  BY DEF WholePath, Path
<1>3. SubSeq(ops, 1, Len(ops)) = ops  BY <1>2, SubSeqFull
<1>4. 1 \in 1..(Len(ops) + 1) /\ Len(ops) \in (1 - 1)..Len(ops)  BY <1>1
<1>5. TextOf(SubSeq(ops, 1, Len(ops)), OfOld) = TextOf(SubSeq(ops, 1, Len(ops)), OfNew)
  BY <1>4, PathSame
<1>6. TextOf(ops, OfOld) = b /\ TextOf(ops, OfNew) = a  BY PathTells
<1> QED  BY <1>3, <1>5, <1>6

\* What each hunk says of itself is so, and it is after the one before it.
LEMMA HunksApart ==
  ASSUME NEW S, NEW b, NEW a, NEW ops, NEW rs, NEW hs, HunksOf(hs, ops, rs, S, b, a),
         NEW i \in 1..Len(rs)
  PROVE  /\ TextOf(hs[i].edits, OfOld) =
              SubSeq(b, hs[i].beforeStart, hs[i].beforeStart + hs[i].beforeCount - 1)
         /\ TextOf(hs[i].edits, OfNew) =
              SubSeq(a, hs[i].afterStart, hs[i].afterStart + hs[i].afterCount - 1)
         /\ i > 1 => /\ hs[i].beforeStart > hs[i - 1].beforeStart + hs[i - 1].beforeCount
                     /\ hs[i].afterStart > hs[i - 1].afterStart + hs[i - 1].afterCount
<1> DEFINE n == Len(ops)
<1>0. /\ WholePath(ops, S, b, a) /\ InOrder(rs, ops, n) /\ Len(rs) \in Nat
      /\ \A j \in 1..Len(rs) : IsHunk(hs[j], ops, rs[j].start, rs[j].end)
  BY DEF HunksOf
<1>1. n \in Nat /\ Len(b) \in Nat /\ Len(a) \in Nat  BY <1>0, PathSteps
<1>2. ASSUME NEW k \in 0..n PROVE AtOf(ops, k) \in Nat /\ ToOf(ops, k) \in Nat
  <2>1. AtOf(ops, k) \in 0..Len(b) /\ ToOf(ops, k) \in 0..Len(a)  BY <1>0, PathSteps
  <2> QED  BY <1>1, <2>1
<1>3. ASSUME NEW j \in 1..Len(rs)
      PROVE  /\ rs[j].start \in 1..n /\ rs[j].end \in (rs[j].start + 1)..(n + 1)
             /\ rs[j].start - 1 \in 0..n /\ rs[j].end - 1 \in 0..n
             /\ hs[j].edits = SubSeq(ops, rs[j].start, rs[j].end - 1)
             /\ hs[j].beforeStart = AtOf(ops, rs[j].start - 1) + 1
             /\ hs[j].beforeStart + hs[j].beforeCount = AtOf(ops, rs[j].end - 1) + 1
             /\ hs[j].afterStart = ToOf(ops, rs[j].start - 1) + 1
             /\ hs[j].afterStart + hs[j].afterCount = ToOf(ops, rs[j].end - 1) + 1
             /\ hs[j].beforeStart \in Int /\ hs[j].beforeCount \in Int
             /\ hs[j].afterStart \in Int /\ hs[j].afterCount \in Int
  <2>1. rs[j].start \in 1..n /\ rs[j].end \in (rs[j].start + 1)..(n + 1)  BY <1>0 DEF InOrder
  <2>2. rs[j].start - 1 \in 0..n /\ rs[j].end - 1 \in 0..n  BY SMTT(40), <1>1, <2>1
  <2> DEFINE x == AtOf(ops, rs[j].start - 1)  y == AtOf(ops, rs[j].end - 1)
             u == ToOf(ops, rs[j].start - 1)  v == ToOf(ops, rs[j].end - 1)
  <2>3. x \in Nat /\ y \in Nat /\ u \in Nat /\ v \in Nat  BY <1>2, <2>2
  <2>4. /\ hs[j].edits = SubSeq(ops, rs[j].start, rs[j].end - 1)
        /\ hs[j].beforeStart = x + 1 /\ hs[j].beforeCount = y - x
        /\ hs[j].afterStart = u + 1 /\ hs[j].afterCount = v - u
    BY <1>0 DEF IsHunk
  <2> HIDE DEF x, y, u, v
  <2>5. /\ hs[j].beforeStart + hs[j].beforeCount = y + 1 /\ hs[j].afterStart + hs[j].afterCount = v + 1
        /\ hs[j].beforeStart \in Int /\ hs[j].beforeCount \in Int
        /\ hs[j].afterStart \in Int /\ hs[j].afterCount \in Int
    BY SMTT(40), <2>3, <2>4
  <2> QED  BY <2>1, <2>2, <2>4, <2>5 DEF x, y, u, v
<1>4. /\ TextOf(hs[i].edits, OfOld) =
              SubSeq(b, hs[i].beforeStart, hs[i].beforeStart + hs[i].beforeCount - 1)
      /\ TextOf(hs[i].edits, OfNew) =
              SubSeq(a, hs[i].afterStart, hs[i].afterStart + hs[i].afterCount - 1)
  <2> DEFINE s == rs[i].start  e == rs[i].end - 1
  <2>1. s \in 1..(n + 1) /\ e \in (s - 1)..n /\ s - 1 \in 0..n /\ e \in 0..n
    <3>1. rs[i].start \in 1..n /\ rs[i].end \in (rs[i].start + 1)..(n + 1)  BY <1>3
    <3> QED  BY SMTT(40), <1>1, <3>1
  <2>2. /\ hs[i].edits = SubSeq(ops, s, e)
        /\ hs[i].beforeStart = AtOf(ops, s - 1) + 1 /\ hs[i].afterStart = ToOf(ops, s - 1) + 1
        /\ hs[i].beforeStart + hs[i].beforeCount = AtOf(ops, e) + 1
        /\ hs[i].afterStart + hs[i].afterCount = ToOf(ops, e) + 1
    BY <1>3
  <2> HIDE DEF s, e
  <2>3. /\ TextOf(SubSeq(ops, s, e), OfOld) = SubSeq(b, AtOf(ops, s - 1) + 1, AtOf(ops, e))
        /\ TextOf(SubSeq(ops, s, e), OfNew) = SubSeq(a, ToOf(ops, s - 1) + 1, ToOf(ops, e))
    BY <1>0, <2>1, PathPiece
  <2>4. AtOf(ops, e) \in Nat /\ ToOf(ops, e) \in Nat  BY <1>2, <2>1
  <2>5. /\ hs[i].beforeStart + hs[i].beforeCount - 1 = AtOf(ops, e)
        /\ hs[i].afterStart + hs[i].afterCount - 1 = ToOf(ops, e)
    <3> DEFINE x == hs[i].beforeStart  y == hs[i].beforeCount
               u == hs[i].afterStart  v == hs[i].afterCount
               p == AtOf(ops, e)  q == ToOf(ops, e)
    <3>1. x \in Int /\ y \in Int /\ u \in Int /\ v \in Int  BY <1>3
    <3>2. x + y = p + 1 /\ u + v = q + 1 /\ p \in Nat /\ q \in Nat  BY <2>2, <2>4
    <3> HIDE DEF x, y, u, v, p, q
    <3>3. x + y - 1 = p /\ u + v - 1 = q  BY <3>1, <3>2
    <3> QED  BY <3>3 DEF x, y, u, v, p, q
  <2> QED  BY <2>2, <2>3, <2>5
<1>5. ASSUME i > 1
      PROVE  /\ hs[i].beforeStart > hs[i - 1].beforeStart + hs[i - 1].beforeCount
             /\ hs[i].afterStart > hs[i - 1].afterStart + hs[i - 1].afterCount
  <2>1. i - 1 \in 1..Len(rs) /\ i - 1 \in 0..Len(rs) /\ i - 1 # 0 /\ i - 1 # Len(rs) /\ (i - 1) + 1 = i
    BY <1>0, <1>5
  <2> DEFINE s == rs[i - 1].end  e == rs[i].start - 1
  <2>2. s = EndOf(rs, i - 1) /\ rs[i].start = StartOf(rs, ops, (i - 1) + 1)
    <3>1. i # Len(rs) + 1  BY <1>0
    <3> QED  BY <2>1, <3>1 DEF EndOf, StartOf
  <2>3. /\ EndOf(rs, i - 1) \in 1..(n + 1)
        /\ EndOf(rs, i - 1) < StartOf(rs, ops, (i - 1) + 1)
        /\ \A k \in EndOf(rs, i - 1)..(StartOf(rs, ops, (i - 1) + 1) - 1) : ops[k].type = "equal"
    BY <1>0, <1>1, <2>1, BetweenRanges
  <2>4. /\ s \in 1..(n + 1) /\ s < rs[i].start /\ rs[i].start \in 1..n
        /\ \A k \in s..e : ops[k].type = "equal"
    BY <1>3, <2>2, <2>3
  <2>5. /\ s \in s..e /\ e \in (s - 1)..n /\ s - 1 \in 0..n /\ e \in 0..n
    BY SMTT(40), <1>1, <2>4
  <2> HIDE DEF s, e
  <2>6. "equal" \in OfOld /\ "equal" \in OfNew  BY DEF OfOld, OfNew
  <2>7. (\E k \in s..e : ops[k].type \in OfOld) /\ (\E k \in s..e : ops[k].type \in OfNew)
    BY <2>4, <2>5, <2>6
  <2>8. AtOf(ops, s - 1) < AtOf(ops, e) /\ ToOf(ops, s - 1) < ToOf(ops, e)
    BY <1>0, <2>4, <2>5, <2>7, PathGrows
  <2>9. /\ hs[i].beforeStart = AtOf(ops, e) + 1 /\ hs[i].afterStart = ToOf(ops, e) + 1
        /\ hs[i - 1].beforeStart + hs[i - 1].beforeCount = AtOf(ops, s - 1) + 1
        /\ hs[i - 1].afterStart + hs[i - 1].afterCount = ToOf(ops, s - 1) + 1
    BY <1>3, <2>1 DEF s, e
  <2>10. AtOf(ops, e) \in Nat /\ ToOf(ops, e) \in Nat /\ AtOf(ops, s - 1) \in Nat /\ ToOf(ops, s - 1) \in Nat
    BY <1>2, <2>5
  <2> QED  BY <2>8, <2>9, <2>10
<1> QED  BY <1>4, <1>5

\* A text of the wiki is a sequence of lines, and has one.
LEMMA TextHas ==
  ASSUME NEW S, NEW m, m \in Nat, NEW s \in UNION {[1..l -> S] : l \in 1..m}
  PROVE  s \in Seq(S) /\ s # <<>> /\ Len(s) \in 1..m /\ DOMAIN s = 1..Len(s)
<1>1. PICK l \in 1..m : s \in [1..l -> S]  OBVIOUS
<1>2. l \in Nat /\ DOMAIN s = 1..l  BY <1>1
<1>3. s \in Seq(S)  BY <1>1, <1>2, SeqDef
<1>4. Len(s) \in Nat /\ DOMAIN s = 1..Len(s)  BY <1>3, LenProperties
<1>5. Len(s) = l  BY <1>2, <1>4
<1>6. s # <<>>
  <2>1. Len(<<>>) = 0  OBVIOUS
  <2> QED  BY <1>1, <1>2, <1>5, <2>1
<1> QED  BY <1>3, <1>4, <1>5, <1>6

\* The unified diff of two texts of the wiki is a patch, the least one, with its hunks apart.
LEMMA UnifiedOf ==
  ASSUME old \in WikiTexts, new \in WikiTexts
  PROVE  UnifiedSound
<1> DEFINE S == WikiLines  hs == Unified(old, new)  ops == Script(old, new)  rs == Ranges(ops)
<1>0. MaxLength \in Nat  BY ContextAssumption
<1>1. old \in Seq(S) /\ old # <<>> /\ new \in Seq(S) /\ new # <<>>
  <2>1. old \in UNION {[1..l -> S] : l \in 1..MaxLength}  BY DEF WikiTexts
  <2>2. new \in UNION {[1..l -> S] : l \in 1..MaxLength}  BY DEF WikiTexts
  <2> QED  BY <1>0, <2>1, <2>2, TextHas
<1>2. \A m \in CommonLengths(old, new) : m <= Len(TextOf(Script(old, new), {"equal"}))
  BY <1>1, MostKept
<1>3. CASE old = new
  <2>1. hs = <<>>  BY <1>3 DEF Unified
  <2>2. WholePath(ops, S, old, old)  BY <1>1, <1>3, ScriptPath DEF WholePath
  <2> HIDE DEF ops, S
  <2>3. \A k \in 1..Len(ops) : ops[k].type = "equal"  BY <2>2, PathOfSame
  <2>4. InOrder(<<>>, ops, Len(ops))
    <3>1. <<>> \in Seq(RangeSet) /\ Len(<<>>) = 0  BY EmptySeq
    <3> QED  BY <2>3, <3>1 DEF InOrder
  <2>5. Patched(old, <<>>) = old
    <3> DEFINE em == <<>>
    <3>1. Len(em) = 0 /\ \A i \in 1..Len(em) : IsHunk(em[i], ops, em[i].start, em[i].end)  OBVIOUS
    <3>2. InOrder(em, ops, Len(ops))  BY <2>4
    <3> HIDE DEF em
    <3>3. Patched(old, em) = old  BY <2>2, <3>1, <3>2, Patching
    <3> QED  BY <3>3 DEF em
  <2>6. DOMAIN hs = {}  BY <2>1
  <2> HIDE DEF hs
  <2>7. Patched(old, hs) = new  BY <1>3, <2>1, <2>5
  <2> QED  BY <1>2, <1>3, <2>1, <2>6, <2>7 DEF UnifiedSound, hs
<1>4. CASE old # new
  <2>1. HunksOf(hs, ops, rs, S, old, new)  BY <1>1, <1>4, UnifiedIs
  <2> HIDE DEF ops, rs, hs, S
  <2>2. /\ WholePath(ops, S, old, new) /\ InOrder(rs, ops, Len(ops))
        /\ Len(hs) = Len(rs) /\ Len(rs) \in Nat /\ DOMAIN hs = 1..Len(rs)
        /\ \A i \in 1..Len(rs) : IsHunk(hs[i], ops, rs[i].start, rs[i].end)
    BY <2>1 DEF HunksOf
  <2>3. Patched(old, hs) = new  BY <2>2, Patching
  <2>4. hs # <<>>
    <3> SUFFICES ASSUME hs = <<>> PROVE FALSE  OBVIOUS
    <3>1. Len(rs) = 0  BY <2>2
    <3>2. \A c \in 1..Len(ops) : ops[c].type # "equal" =>
            \E i \in 1..Len(rs) : rs[i].start <= c /\ c < rs[i].end
      BY <2>2 DEF InOrder
    <3>3. Quiet(ops, 1, Len(ops))  BY <3>1, <3>2 DEF Quiet
    <3> QED  BY <1>4, <2>2, <3>3, QuietPath
  <2>5. \A i \in DOMAIN hs :
             /\ TextOf(hs[i].edits, OfOld) =
                  SubSeq(old, hs[i].beforeStart, hs[i].beforeStart + hs[i].beforeCount - 1)
             /\ TextOf(hs[i].edits, OfNew) =
                  SubSeq(new, hs[i].afterStart, hs[i].afterStart + hs[i].afterCount - 1)
             /\ i > 1 => /\ hs[i].beforeStart > hs[i - 1].beforeStart + hs[i - 1].beforeCount
                         /\ hs[i].afterStart > hs[i - 1].afterStart + hs[i - 1].afterCount
    BY <2>1, <2>2, HunksApart
  <2> QED  BY <1>2, <1>4, <2>3, <2>4, <2>5 DEF UnifiedSound, hs
<1> QED  BY <1>3, <1>4

-----------------------------------------------------------------------------
\* One edit more tells its line, if it is of the kinds meant.
LEMMA TextAppend ==
  ASSUME NEW S, NEW ops \in Seq(Edits(S)), NEW e \in Edits(S), NEW kinds
  PROVE  TextOf(Append(ops, e), kinds) =
           IF e.type \in kinds THEN Append(TextOf(ops, kinds), e.line) ELSE TextOf(ops, kinds)
<1> DEFINE o == Append(ops, e)  n == Len(ops)
<1>1. /\ o \in Seq(Edits(S)) /\ Len(o) = n + 1 /\ n \in Nat
      /\ \A k \in 1..n : o[k] = ops[k]
      /\ o[n + 1] = e
  BY AppendProperties, LenProperties
<1> HIDE DEF o
<1>2. PICK t \in [0..Len(ops) -> Seq(S)] : IsText(t, ops, kinds)  BY TextSteps
<1>3. PICK u \in [0..Len(o) -> Seq(S)] : IsText(u, o, kinds)  BY <1>1, TextSteps
<1> DEFINE G == {k \in Nat : k <= n => t[k] = u[k]}
<1>4. ASSUME NEW k \in Nat, \A l \in 0..(k - 1) : l \in G PROVE k \in G
  <2>1. CASE k = 0  BY <1>2, <1>3, <2>1 DEF IsText
  <2>2. CASE k # 0 /\ k <= n
    <3>1. k \in 1..n /\ k \in 1..Len(o) /\ k - 1 \in 0..(k - 1) /\ k - 1 <= n  BY <1>1, <2>2
    <3>2. t[k - 1] = u[k - 1] /\ o[k] = ops[k]  BY <1>1, <1>4, <3>1
    <3>3. t[k] = IF ops[k].type \in kinds THEN Append(t[k - 1], ops[k].line) ELSE t[k - 1]
      BY <1>2, <3>1 DEF IsText
    <3>4. u[k] = IF o[k].type \in kinds THEN Append(u[k - 1], o[k].line) ELSE u[k - 1]
      BY <1>3, <3>1 DEF IsText
    <3> QED  BY <3>2, <3>3, <3>4
  <2> QED  BY <2>1, <2>2
<1>5. \A k \in Nat : k \in G
  <2> HIDE DEF G
  <2>1. G \in SUBSET Nat  BY DEF G
  <2> QED  BY <1>4, <2>1, Least
<1>6. t[n] = u[n] /\ TextOf(ops, kinds) = t[n] /\ TextOf(o, kinds) = u[n + 1]
  BY <1>1, <1>2, <1>3, <1>5 DEF IsText
<1>7. u[n + 1] = IF e.type \in kinds THEN Append(u[n], e.line) ELSE u[n]
  <2>1. n + 1 \in 1..Len(o) /\ (n + 1) - 1 = n  BY <1>1
  <2>2. u[n + 1] = IF o[n + 1].type \in kinds THEN Append(u[(n + 1) - 1], o[n + 1].line)
                   ELSE u[(n + 1) - 1]
    BY <1>3, <2>1 DEF IsText
  <2> QED  BY <1>1, <2>1, <2>2
<1>8. TextOf(o, kinds) =
           IF e.type \in kinds THEN Append(TextOf(ops, kinds), e.line) ELSE TextOf(ops, kinds)
  BY <1>6, <1>7
<1> QED  BY <1>8 DEF o

\* A script h of added lines only.
AllAdded(h, d) == h = [i \in DOMAIN d |-> Edit("insert", d[i], 0, i)]

\* It tells the new text.
LEMMA AddedTells ==
  ASSUME NEW S, NEW d \in Seq(S), NEW h, AllAdded(h, d)
  PROVE  /\ TextOf(h, OfOld) = <<>> /\ TextOf(h, OfNew) = d
         /\ Len(TextOf(h, {"equal"})) = 0
<1> DEFINE n == Len(d)
<1>1. n \in Nat /\ DOMAIN d = 1..n /\ \A i \in 1..n : d[i] \in S  BY LenProperties, ElementOfSeq
<1>2. \A i \in 1..n : /\ h[i] \in Edits(S) /\ h[i].type = "insert" /\ h[i].line = d[i]
  <2> SUFFICES ASSUME NEW i \in 1..n
               PROVE  /\ h[i] \in Edits(S) /\ h[i].type = "insert" /\ h[i].line = d[i]
    OBVIOUS
  <2>1. h[i] = [type |-> "insert", line |-> d[i], at |-> 0, to |-> i]  BY <1>1 DEF Edit, AllAdded
  <2>2. i \in Nat /\ d[i] \in S  BY <1>1
  <2> QED  BY <2>1, <2>2 DEF Edits, Kinds
<1>3. h \in Seq(Edits(S)) /\ Len(h) = n
  <2>1. h \in [1..n -> Edits(S)] /\ DOMAIN h = 1..n  BY <1>1, <1>2 DEF AllAdded
  <2>2. h \in Seq(Edits(S))  BY <1>1, <2>1, SeqDef
  <2>3. Len(h) \in Nat /\ DOMAIN h = 1..Len(h)  BY <2>2, LenProperties
  <2> QED  BY <1>1, <2>1, <2>2, <2>3
<1>4. "insert" \notin OfOld /\ "insert" \in OfNew /\ "insert" \notin {"equal"}  BY DEF OfOld, OfNew
<1> DEFINE z == [k \in 0..n |-> 0]  y == [k \in 0..n |-> k]
<1>5. z \in [0..n -> 0..Len(d)] /\ y \in [0..n -> 0..Len(d)]  BY <1>1
<1>6. \A k \in 1..n : k - 1 \in 0..n /\ k \in 0..n /\ z[k] = z[k - 1] /\ y[k] = y[k - 1] + 1 /\ y[k] = k
  BY <1>1
<1>7. z[0] = 0 /\ z[n] = 0 /\ y[0] = 0 /\ y[n] = n  BY <1>1
<1> HIDE DEF z, y
<1>8. \A k \in 1..Len(h) : /\ h[k].type = "insert" /\ h[k].line = d[k]
                            /\ z[k] = z[k - 1] /\ y[k] = y[k - 1] + 1 /\ y[k] = k
  BY <1>2, <1>3, <1>6
<1>9. Follows(z, h, OfOld, d)  BY <1>4, <1>8 DEF Follows
<1>10. Follows(z, h, {"equal"}, d)
  <2> DEFINE K == {"equal"}
  <2>1. "insert" \notin K  BY <1>4
  <2> HIDE DEF K
  <2>2. Follows(z, h, K, d)  BY <1>8, <2>1 DEF Follows
  <2> QED  BY <2>2 DEF K
<1>11. Follows(y, h, OfNew, d)
  <2> SUFFICES ASSUME NEW k \in 1..Len(h)
               PROVE  h[k].type \in OfNew /\ y[k] = y[k - 1] + 1 /\ h[k].line = d[y[k]]
    BY DEF Follows
  <2> QED  BY <1>4, <1>8
<1>12. ASSUME NEW K, NEW q \in [0..n -> 0..Len(d)], Follows(q, h, K, d)
       PROVE  TextOf(h, K) = SubSeq(d, q[0] + 1, q[n]) /\ Len(TextOf(h, K)) = q[n] - q[0]
  <2>1. h \in Seq(Edits(S))  BY <1>3
  <2>2. q \in [0..Len(h) -> 0..Len(d)]  BY <1>3
  <2>3. /\ TextOf(h, K) = SubSeq(d, q[0] + 1, q[Len(h)])
        /\ Len(TextOf(h, K)) = q[Len(h)] - q[0]
    BY <1>12, <2>1, <2>2, TextIs
  <2> QED  BY <1>3, <2>3
<1>13. TextOf(h, OfOld) = SubSeq(d, z[0] + 1, z[n])  BY <1>5, <1>9, <1>12
<1>14. Len(TextOf(h, {"equal"})) = z[n] - z[0]  BY <1>5, <1>10, <1>12
<1>15. TextOf(h, OfNew) = SubSeq(d, y[0] + 1, y[n])  BY <1>5, <1>11, <1>12
<1>16. SubSeq(d, 0 + 1, 0) = <<>>  BY SubSeqEmpty
<1>17. z[n] = 0 /\ y[n] = n  BY <1>7
<1>18. TextOf(h, OfOld) = <<>>
  <2>1. TextOf(h, OfOld) = SubSeq(d, 0 + 1, 0)  BY <1>7, <1>13, <1>17
  <2> QED  BY <1>16, <2>1
<1>19. TextOf(h, OfNew) = d
  <2>1. TextOf(h, OfNew) = SubSeq(d, 0 + 1, n)  BY <1>7, <1>15, <1>17
  <2>2. 0 + 1 = 1 /\ SubSeq(d, 1, n) = d  BY SubSeqFull
  <2> QED  BY <2>1, <2>2
<1>20. Len(TextOf(h, {"equal"})) = 0
  <2>1. Len(TextOf(h, {"equal"})) = 0 - 0  BY <1>7, <1>14, <1>17
  <2> QED  BY <2>1
<1> QED  BY <1>18, <1>19, <1>20

\* The first lines of a text, which are all of it unless it is too long.
LEMMA CutIs ==
  ASSUME NEW S, NEW s \in Seq(S), MaxLines \in Nat \ {0}
  PROVE  Cut(s) \in Seq(S) /\ (Cut(s) = s <=> ~(Len(s) > MaxLines))
<1>1. Len(s) \in Nat  BY LenProperties
<1>2. CASE Len(s) > MaxLines
  <2>1. Cut(s) = SubSeq(s, 1, MaxLines)  BY <1>2 DEF Cut
  <2>2. \A k \in 1..MaxLines : s[k] \in S
    <3> SUFFICES ASSUME NEW k \in 1..MaxLines PROVE s[k] \in S  OBVIOUS
    <3>1. k \in 1..Len(s)  BY <1>1, <1>2
    <3> QED  BY <3>1, ElementOfSeq
  <2>3. /\ SubSeq(s, 1, MaxLines) \in Seq(S)
        /\ Len(SubSeq(s, 1, MaxLines)) = IF 1 <= MaxLines THEN MaxLines - 1 + 1 ELSE 0
    BY <2>2, SubSeqProperties
  <2> DEFINE c == SubSeq(s, 1, MaxLines)
  <2> HIDE DEF c
  <2>4. Len(c) = MaxLines  BY <2>3 DEF c
  <2>5. c # s  BY <1>2, <2>4
  <2> QED  BY <1>2, <2>1, <2>3, <2>5 DEF c
<1>3. CASE ~(Len(s) > MaxLines)
  <2>1. Cut(s) = SubSeq(s, 1, Len(s))  BY <1>3 DEF Cut
  <2>2. SubSeq(s, 1, Len(s)) = s  BY SubSeqFull
  <2> DEFINE c == Cut(s)
  <2> HIDE DEF c
  <2>3. c = s  BY <2>1, <2>2 DEF c
  <2> QED  BY <1>3, <2>3 DEF c
<1> QED  BY <1>2, <1>3

\* No line is common with no text.
LEMMA CommonOfNone ==
  ASSUME NEW d, NEW m \in CommonLengths(<<>>, d)
  PROVE  m = 0
<1>1. DOMAIN <<>> = {}  OBVIOUS
<1>2. PICK T \in SUBSET {} : m = Cardinality(T)  BY <1>1 DEF CommonLengths
<1>3. T = {}  OBVIOUS
<1> QED  BY <1>2, <1>3, FS_EmptySet

\* What the reviewer is shown when there is nothing published.
LEMMA DiffOfNone ==
  ASSUME after \in Texts, before = Empty
  PROVE  DiffSound
<1>0. Longest \in Nat  BY DiffAssumption
<1>1. after \in Seq(Lines)
  <2>1. after \in UNION {[1..l -> Lines] : l \in 1..Longest}  BY DEF Texts
  <2> QED  BY <1>0, <2>1, TextHas
<1> DEFINE h == Diff(before, after)  d == IF after = Empty THEN <<>> ELSE after
<1>2. TextOf(h, OfOld) = <<>> /\ TextOf(h, OfNew) = d /\ Len(TextOf(h, {"equal"})) = 0
  <2>1. CASE after = Empty
    <3> DEFINE em == <<>>
    <3>1. h = em /\ d = em  BY <2>1 DEF Diff
    <3>2. em \in Seq(Lines)  BY EmptySeq
    <3>3. AllAdded(em, em)  BY DEF AllAdded
    <3> HIDE DEF em
    <3>4. TextOf(em, OfOld) = <<>> /\ TextOf(em, OfNew) = em /\ Len(TextOf(em, {"equal"})) = 0
      BY <3>2, <3>3, AddedTells
    <3> HIDE DEF h, d
    <3> QED  BY <3>1, <3>4
  <2>2. CASE after # Empty
    <3>1. AllAdded(h, after)  BY <2>2 DEF Diff, AllAdded
    <3> HIDE DEF h
    <3> QED  BY <1>1, <2>2, <3>1, AddedTells
  <2> QED  BY <2>1, <2>2
<1>3. \A m \in CommonLengths(<<>>, d) : m + Len(<<>>) <= 0
  <2> SUFFICES ASSUME NEW m \in CommonLengths(<<>>, d) PROVE m + Len(<<>>) <= 0  OBVIOUS
  <2>1. m = 0  BY CommonOfNone
  <2>2. Len(<<>>) = 0  OBVIOUS
  <2> QED  BY <2>1, <2>2
<1>4. <<>> = <<>> \o <<>> /\ d = d \o <<>>
  <2>1. d \in Seq(Lines)  BY <1>1, EmptySeq
  <2>2. <<>> \in Seq(Lines)  BY EmptySeq
  <2> HIDE DEF d
  <2>3. d \o <<>> = d /\ <<>> \o <<>> = <<>>  BY <2>1, <2>2, ConcatEmptySeq
  <2> QED  BY <2>3
<1> HIDE DEF h
<1>5. /\ TextOf(h, OfOld) = <<>> \o <<>>
      /\ TextOf(h, OfNew) = d \o <<>>
      /\ \A m \in CommonLengths(<<>>, d) : m + Len(<<>>) <= Len(TextOf(h, {"equal"}))
  BY <1>2, <1>3, <1>4
<1> QED  BY <1>5 DEF DiffSound, h

\* What the reviewer is shown when there is: the script, and a notice when texts were cut.
LEMMA DiffOfSome ==
  ASSUME before \in Texts, after \in Texts, before # Empty
  PROVE  DiffSound
<1> DEFINE p == Cut(before)  d == Cut(after)  ops == Script(p, d)
           notice == IF ~(p = before /\ d = after) THEN <<Notice>> ELSE <<>>
           h == Diff(before, after)
           S == Lines \cup {Notice}
<1>0. Longest \in Nat /\ MaxLines \in Nat \ {0} /\ Threshold \in 0..100  BY DiffAssumption
<1>1. /\ before \in Seq(Lines) /\ after \in Seq(Lines)
      /\ Len(before) \in Nat \ {0}
  <2>1. before \in UNION {[1..l -> Lines] : l \in 1..Longest}  BY DEF Texts
  <2>2. after \in UNION {[1..l -> Lines] : l \in 1..Longest}  BY DEF Texts
  <2>3. Len(before) \in 1..Longest  BY <1>0, <2>1, TextHas
  <2> QED  BY <1>0, <2>1, <2>2, <2>3, TextHas
<1>2. /\ p \in Seq(Lines) /\ d \in Seq(Lines)
      /\ (p = before /\ d = after) <=> ~(Len(before) > MaxLines \/ Len(after) > MaxLines)
  BY <1>0, <1>1, CutIs
<1>3. p \in Seq(S) /\ d \in Seq(S)
  <2>1. Seq(Lines) \subseteq Seq(S)
    <3>1. Lines \subseteq S  OBVIOUS
    <3> HIDE DEF S
    <3> SUFFICES ASSUME NEW s \in Seq(Lines) PROVE s \in Seq(S)  OBVIOUS
    <3>2. Len(s) \in Nat /\ s \in [1..Len(s) -> Lines]  BY LenProperties
    <3>3. s \in [1..Len(s) -> S]  BY <3>1, <3>2
    <3> QED  BY <3>2, <3>3, SeqDef
  <2> QED  BY <1>2, <2>1
<1> HIDE DEF p, d, S
<1>4. WholePath(ops, S, p, d) /\ ops \in Seq(Edits(S))
  <2>1. WholePath(ops, S, p, d)  BY <1>3, ScriptPath DEF WholePath
  <2> QED  BY <2>1 DEF WholePath, Path
<1>5. \A m \in CommonLengths(p, d) : m <= Len(TextOf(ops, {"equal"}))  BY <1>3, MostKept
<1>6. h = Noticed(ops, before, after)  BY DEF Diff, p, d
<1> DEFINE last == Edit("equal", Notice, 0, 0)
<1>7. last \in Edits(S) /\ last.type = "equal" /\ last.line = Notice
  BY DEF Edits, Edit, Kinds, S
<1> HIDE DEF ops, last
<1>8. TextOf(ops, OfOld) = p /\ TextOf(ops, OfNew) = d  BY <1>4, PathTells
<1>9. \A m \in CommonLengths(p, d) : m \in Nat
  <2> SUFFICES ASSUME NEW m \in CommonLengths(p, d) PROVE m \in Nat  OBVIOUS
  <2>1. PICK T \in SUBSET DOMAIN p : m = Cardinality(T)  BY DEF CommonLengths
  <2>2. IsFiniteSet(DOMAIN p)
    <3>1. DOMAIN p = 1..Len(p) /\ Len(p) \in Nat  BY <1>3, LenProperties
    <3>2. 1 \in Int /\ Len(p) \in Int  BY <3>1
    <3> QED  BY <3>1, <3>2, FS_Interval
  <2> QED  BY <2>1, <2>2, FS_Subset, FS_CardinalityType
<1>10. /\ TextOf(h, OfOld) = p \o notice /\ TextOf(h, OfNew) = d \o notice
       /\ \A m \in CommonLengths(p, d) : m + Len(notice) <= Len(TextOf(h, {"equal"}))
  <2>1. CASE p = before /\ d = after
    <3>1. h = ops /\ notice = <<>>  BY <1>2, <1>6, <2>1 DEF Noticed
    <3>2. p \o <<>> = p /\ d \o <<>> = d  BY <1>3, ConcatEmptySeq
    <3>3. \A m \in CommonLengths(p, d) : m + Len(<<>>) <= Len(TextOf(ops, {"equal"}))
      <4> SUFFICES ASSUME NEW m \in CommonLengths(p, d)
                   PROVE  m + Len(<<>>) <= Len(TextOf(ops, {"equal"}))
        OBVIOUS
      <4>1. Len(<<>>) = 0 /\ m \in Nat  BY <1>9
      <4>2. m + Len(<<>>) = m  BY <4>1
      <4> QED  BY <1>5, <4>2
    <3> HIDE DEF h, notice
    <3> QED  BY <1>8, <3>1, <3>2, <3>3
  <2>2. CASE ~(p = before /\ d = after)
    <3>1. h = Append(ops, last) /\ notice = <<Notice>>  BY <1>2, <1>6, <2>2 DEF Noticed, last
    <3>2. "equal" \in OfOld /\ "equal" \in OfNew /\ "equal" \in {"equal"}  BY DEF OfOld, OfNew
    <3>3. Notice \in S  BY DEF S
    <3>4. \A kinds : "equal" \in kinds => TextOf(Append(ops, last), kinds) = Append(TextOf(ops, kinds), Notice)
      BY <1>4, <1>7, TextAppend
    <3>5. Append(p, Notice) = p \o <<Notice>> /\ Append(d, Notice) = d \o <<Notice>>
      BY <1>3, <3>3, AppendIsConcat
    <3>6. TextOf(ops, {"equal"}) \in Seq(S)
      <4>1. PICK t \in [0..Len(ops) -> Seq(S)] : IsText(t, ops, {"equal"})  BY <1>4, TextSteps
      <4>2. Len(ops) \in 0..Len(ops)
        <5>1. Len(ops) \in Nat  BY <1>4, LenProperties
        <5> QED  BY <5>1
      <4> QED  BY <4>1, <4>2 DEF IsText
    <3> DEFINE kept == TextOf(ops, {"equal"})
    <3>7. Len(Append(kept, Notice)) = Len(kept) + 1 /\ Len(kept) \in Nat
      BY <3>3, <3>6, AppendProperties, LenProperties
    <3>8. \A m \in CommonLengths(p, d) : m + 1 <= Len(kept) + 1
      <4> SUFFICES ASSUME NEW m \in CommonLengths(p, d) PROVE m + 1 <= Len(kept) + 1  OBVIOUS
      <4>1. m <= Len(kept) /\ m \in Nat  BY <1>5, <1>9
      <4> HIDE DEF kept
      <4> QED  BY <3>7, <4>1
    <3>9. TextOf(Append(ops, last), {"equal"}) = Append(kept, Notice)  BY <3>2, <3>4
    <3>10. Len(<<Notice>>) = 1  OBVIOUS
    <3>11. TextOf(Append(ops, last), OfOld) = p \o <<Notice>>  BY <1>8, <3>2, <3>4, <3>5
    <3>12. TextOf(Append(ops, last), OfNew) = d \o <<Notice>>  BY <1>8, <3>2, <3>4, <3>5
    <3> HIDE DEF h, notice, kept
    <3>13. \A m \in CommonLengths(p, d) : m + Len(notice) <= Len(TextOf(h, {"equal"}))
      BY <3>1, <3>7, <3>8, <3>9, <3>10
    <3> QED  BY <3>1, <3>11, <3>12, <3>13
  <2> QED  BY <2>1, <2>2
\* A draft that is what is published: no edit is a change.
<1>11. ASSUME before = after PROVE ~IsMaterial(before, after)
  <2>1. p = d  BY <1>11 DEF p, d
  <2>2. Len(ops) \in Nat /\ \A k \in 1..Len(ops) : ops[k].type = "equal"
    BY <1>4, <2>1, PathOfSame, PathSteps
  <2>3. \A k \in DOMAIN h : h[k].type = "equal"
    <3>1. h = ops \/ h = Append(ops, last)  BY <1>6 DEF Noticed, last
    <3>2. DOMAIN ops = 1..Len(ops)  BY <1>4, LenProperties
    <3>3. /\ Append(ops, last) \in Seq(Edits(S)) /\ Len(Append(ops, last)) = Len(ops) + 1
          /\ \A k \in 1..Len(ops) : Append(ops, last)[k] = ops[k]
          /\ Append(ops, last)[Len(ops) + 1] = last
      BY <1>4, <1>7, AppendProperties
    <3>4. DOMAIN Append(ops, last) = 1..(Len(ops) + 1)
      <4> DEFINE o == Append(ops, last)
      <4> HIDE DEF o
      <4>1. o \in Seq(Edits(S)) /\ Len(o) = Len(ops) + 1  BY <3>3 DEF o
      <4>2. DOMAIN o = 1..Len(o)  BY <4>1, LenProperties
      <4> QED  BY <4>1, <4>2 DEF o
    <3>5. ASSUME NEW k \in 1..(Len(ops) + 1) PROVE Append(ops, last)[k].type = "equal"
      <4>1. CASE k = Len(ops) + 1  BY <1>7, <3>3, <4>1
      <4>2. CASE k # Len(ops) + 1
        <5>1. k \in 1..Len(ops)  BY <2>2, <4>2
        <5> QED  BY <2>2, <3>3, <5>1
      <4> QED  BY <4>1, <4>2
    <3> HIDE DEF h
    <3> QED  BY <2>2, <3>1, <3>2, <3>4, <3>5
  <2>4. Changed(h) = 0
    <3> HIDE DEF h
    <3>1. {i \in DOMAIN h : h[i].type # "equal"} = {}  BY <2>3
    <3> QED  BY <3>1, FS_EmptySet DEF Changed
  <2>5. LineCount(before) = Len(before)  BY DEF LineCount
  <2> DEFINE c == Changed(Diff(before, after))  l == LineCount(before)
  <2>6. c = 0 /\ l \in Nat /\ l # 0  BY <1>1, <2>4, <2>5
  <2>7. IsMaterial(before, after) <=> 100 * (IF l = 0 THEN 1 ELSE c) > Threshold * (IF l = 0 THEN 1 ELSE l)
    BY DEF IsMaterial
  <2> HIDE DEF c, l
  <2>8. 100 * (IF l = 0 THEN 1 ELSE c) = 0 /\ Threshold * (IF l = 0 THEN 1 ELSE l) >= 0
    <3>1. Threshold \in Nat  BY <1>0
    <3> QED  BY <2>6, <3>1
  <2>9. Threshold * (IF l = 0 THEN 1 ELSE l) \in Int  BY <1>0, <2>6
  <2> QED  BY <2>7, <2>8, <2>9
<1> HIDE DEF h
<1>12. /\ (IF before = Empty THEN <<>> ELSE Cut(before)) = p
       /\ (IF before # Empty THEN Cut(after) ELSE IF after = Empty THEN <<>> ELSE after) = d
       /\ (IF before # Empty /\ ~(p = before /\ d = after) THEN <<Notice>> ELSE <<>>) = notice
  BY DEF p, d
<1> QED  BY <1>10, <1>11, <1>12 DEF DiffSound, h, p, d

-----------------------------------------------------------------------------
\* The texts a reviewer compares, and those the tool is given, are texts of the wiki.
DiffTyped == before # <<>> => before \in Texts /\ after \in Texts
UdTyped == old # <<>> => old \in WikiTexts /\ new \in WikiTexts

\* What the reviewer is shown is the whole difference and the least one, for every draft.
THEOREM DiffCorrect == DiffSpec => []DiffSound
<1>1. DiffInit => DiffTyped  BY DEF DiffInit, DiffTyped
<1>2. DiffTyped /\ [DiffNext]_diffVars => DiffTyped'
  BY DEF DiffTyped, DiffNext, Compare, diffVars
<1>3. DiffTyped => DiffSound
  <2> SUFFICES ASSUME DiffTyped, before # <<>> PROVE DiffSound  BY DEF DiffSound
  <2>1. before \in Texts /\ after \in Texts  BY DEF DiffTyped
  <2> QED  BY <2>1, DiffOfNone, DiffOfSome
<1> QED  BY <1>1, <1>2, <1>3, PTL DEF DiffSpec

\* The diff the tool prints is a patch, the least one, with its hunks apart, for every wiki.
THEOREM UnifiedCorrect == UdSpec => []UnifiedSound
<1>1. UdInit => UdTyped  BY DEF UdInit, UdTyped
<1>2. UdTyped /\ [UdNext]_udVars => UdTyped'
  BY DEF UdTyped, UdNext, Rewrite, udVars
<1>3. UdTyped => UnifiedSound
  <2> SUFFICES ASSUME UdTyped, old # <<>> PROVE UnifiedSound  BY DEF UnifiedSound
  <2>1. old \in WikiTexts /\ new \in WikiTexts  BY DEF UdTyped
  <2> QED  BY <2>1, UnifiedOf
<1> QED  BY <1>1, <1>2, <1>3, PTL DEF UdSpec

-----------------------------------------------------------------------------
(* The components together.                                                *)

\* A behaviour of the whole is one of each component that takes part: nothing that one
\* does touches the state of another.
LEMMA KnowledgeRuns ==
  KnowledgeSpec => /\ Spec /\ GoldenSpec /\ CommentarySpec /\ ReviewSpec /\ GateSpec
                   /\ AutoSpec /\ AnnotationsSpec /\ SourcesSpec /\ TopicsSpec
                   /\ DiffSpec /\ UdSpec
<1>1. KnowledgeInit => /\ Init /\ GoldenInit /\ CommentaryInit /\ ReviewInit /\ GateInit
                       /\ AutoInit /\ AnnotationsInit /\ SourcesInit /\ TopicsInit
                       /\ DiffInit /\ UdInit
  BY DEF KnowledgeInit
<1>2. [KnowledgeNext]_knowledgeVars =>
        /\ [Next]_vars /\ [GoldenNext]_goldenVars /\ [CommentaryNext]_commentaryVars
        /\ [ReviewNext]_reviewVars /\ [GateNext]_gateVars /\ [AutoNext]_autoVars
        /\ [AnnotationsNext]_noteVars /\ [SourcesNext]_sourceVars /\ [TopicsNext]_topicsVars
        /\ [DiffNext]_diffVars /\ [UdNext]_udVars
  BY DEF KnowledgeNext, knowledgeVars
<1> QED
  BY <1>1, <1>2, PTL DEF KnowledgeSpec, Spec, GoldenSpec, CommentarySpec, ReviewSpec, GateSpec,
     AutoSpec, AnnotationsSpec, SourcesSpec, TopicsSpec, DiffSpec, UdSpec

\* Every variable of the components keeps to its type, for any value of the constants.
THEOREM KnowledgeTypes == KnowledgeSpec => []KnowledgeTypeOK
<1>1. KnowledgeInv => TypeOK  BY DEF KnowledgeInv
<1>2. GoldenInv => GoldenTypeOK  BY DEF GoldenInv, GoldenTypeInv
<1>3. CommentaryInv => CommentaryTypeOK
  <2> SUFFICES ASSUME CommentaryInv PROVE CommentaryTypeOK  OBVIOUS
  <2>1. \A e \in DOMAIN entry : entry[e] \in Entries
    BY DEF CommentaryInv, CommentaryTypeInv
  <2>2. \A m \in Entries : m.source \in Sources /\ m.who \in Researchers
    BY DEF Entries
  <2>3. widened \in BOOLEAN /\ edits \in 0..MaxEdits /\ Len(entry) <= MaxEntries
    BY DEF CommentaryInv, CommentaryTypeInv
  <2> QED  BY <2>1, <2>2, <2>3 DEF CommentaryTypeOK
<1>4. ReviewInv => ReviewTypeOK  BY DEF ReviewInv, ReviewTypeInv, ReviewTypeOK, DraftStates
<1>5. GateInv => GateTypeOK  BY DEF GateInv
<1>6. AutoInv => AutoTypeOK  BY DEF AutoInv, AutoTypeInv
<1>7. AnnotationsInv => AnnotationsTypeOK  BY DEF AnnotationsInv, NoteTypeInv, AnnotationsTypeOK
<1>8. SourcesInv => SourcesTypeOK  BY DEF SourcesInv, SourceTypeInv
<1> QED
  BY <1>1, <1>2, <1>3, <1>4, <1>5, <1>6, <1>7, <1>8, KnowledgeRuns, KnowledgeInductive,
     GoldenInductive, CommentaryInductive, ReviewInductive, GateInductive, AutoInductive,
     AnnotationsInductive, SourcesInductive, TopicsTyped, PTL DEF KnowledgeTypeOK

\* A finding marked ingested has a row for each of its chunks, the links of a supersession
\* agree and the newest fact is current, whatever calls stop.
THEOREM FindingsWhole == KnowledgeSpec => []IngestionSound
  BY KnowledgeRuns, IngestionCorrect, PTL DEF IngestionSound

\* Both gates of a draft hold: no version is published without an approval, and none on fewer
\* citations than the threshold asks for, unless it was let through before its mark.
THEOREM DraftsGated == KnowledgeSpec => []PublicationSound
  BY KnowledgeRuns, ReviewCorrect, GateCorrect, PTL DEF PublicationSound

\* A correction from the chat names an entry of its own, and an annotation from the margin
\* publishes one version if it is accepted and none if it is not.
THEOREM RemarksKept == KnowledgeSpec => []RemarksSound
  BY KnowledgeRuns, CommentaryCorrect, AnnotationsCorrect, PTL DEF RemarksSound

\* A reviewer is shown the whole difference of a draft to what is published, with a notice
\* when lines are left out, and the diff of the agent's tool is a patch that makes its
\* output of its input; neither changes more lines than it must.
THEOREM DiffsCorrect == KnowledgeSpec => []DiffsSound
  BY KnowledgeRuns, DiffCorrect, UnifiedCorrect, PTL DEF DiffsSound
=============================================================================
