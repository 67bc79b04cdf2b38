---------------------------- MODULE MarketProofs -----------------------------
(***************************************************************************)
(* The signals and what surrounds them, for any entities, signals,         *)
(* filings, alerts, workers and reviewers and any values of the numeric    *)
(* constants: the inductive invariant of each component, what it implies,  *)
(* and that it holds of the component wherever the others run.             *)
(***************************************************************************)
EXTENDS MCMarket, FiniteSetTheorems, WellFoundedInduction, TLAPS

-----------------------------------------------------------------------------
(* Signals.                                                                *)

EvalRecord == [pc : {"idle", "prompt", "check", "create", "cite", "done"},
               event : {None} \cup Events, version : 0..MaxVersion, created : BOOLEAN]

\* The levels, spelt out.
LEMMA ThreeLevels ==
  /\ Len(Levels) = 3 /\ Levels[1] = "entity" /\ Levels[2] = "thesis" /\ Levels[3] = "portfolio"
  /\ ToSet(Levels) = {"entity", "thesis", "portfolio"}
<1>1. Len(Levels) = 3 /\ Levels[1] = "entity" /\ Levels[2] = "thesis" /\ Levels[3] = "portfolio"
  BY DEF Levels
<1>2. DOMAIN Levels = 1..3 /\ 1 \in 1..3 /\ 2 \in 1..3 /\ 3 \in 1..3
  BY DEF Levels
<1>3. \A n \in 1..3 : n = 1 \/ n = 2 \/ n = 3
  OBVIOUS
<1>4. ToSet(Levels) = {Levels[n] : n \in 1..3}
  BY <1>2 DEF ToSet
<1> QED BY <1>1, <1>2, <1>3, <1>4

\* Where a signal of each origin can be: the ones an evaluation writes are never queued.
Origins ==
  /\ \A i \in Keys : status[i] \in {None, "Generated"}
  /\ \A i \in Delivered : status[i] \in {"Delivered", "Suppressed"}
  /\ \A i \in Queued : status[i] \in {"Queued", "Delivered", "Suppressed"}

\* The lock of a row and the transaction that has it name each other, and the row is queued
\* for as long.
Locked(i, r) == lock[i] = r <=> review[r].id = i

Reviewing(r) ==
  review[r].id # None =>
    review[r].op \in Ops /\ review[r].id \in Queued /\ status[review[r].id] = "Queued"

\* What the journal says of one signal: the conjunct of Journalled for it.
JournalOf(i) ==
  /\ Len(journal[i]) = IF i \in Queued /\ status[i] # "Queued" THEN 1 ELSE 0
  /\ i \in edited <=> journal[i] = <<"edited">>
  /\ journal[i] = <<"suppressed">> => status[i] = "Suppressed"

\* An evaluation that is past the prompt has a key; one that created a signal has its row.
Evaluation(w) ==
  /\ eval[w].pc \in {"prompt", "check", "create", "cite"} => eval[w].event \in Events
  /\ eval[w].pc \in {"check", "create", "cite"} => eval[w].version \in Versions
  /\ eval[w].created => eval[w].pc \in {"cite", "done"} /\ Key(w) \in Keys /\ status[Key(w)] # None

Cited == \A c \in cites : c[2] = c[1][2]

\* A resolution has not gone past the level it has to find.
Resolving ==
  /\ lookup.best # 0 => active[Levels[lookup.best]] # 0
  /\ lookup.found # 0 => lookup.at = 4
  /\ lookup.found = 0 /\ lookup.best # 0 => lookup.at \in 1..lookup.best
  /\ lookup.found # 0 /\ lookup.best # 0 => lookup.found \in 1..lookup.best

TriageInv ==
  /\ Origins
  /\ \A r \in Reviewers : Reviewing(r)
  /\ \A i \in Ids, r \in Reviewers : Locked(i, r)
  /\ \A i \in Ids : JournalOf(i)

EvalInv ==
  /\ \A w \in Workers : Evaluation(w)
  /\ CreatedOnce
  /\ Cited

SignalInv == TypeOK /\ TriageInv /\ EvalInv /\ Resolving

-----------------------------------------------------------------------------
\* The identifiers of the signals, and None, are apart.
LEMMA Apart3 ==
  /\ None \notin Ids /\ None \notin Reviewers
  /\ Keys \cap Queued = {} /\ Keys \cap Delivered = {} /\ Delivered \cap Queued = {}
  /\ Keys \subseteq Ids /\ Queued \subseteq Ids /\ Delivered \subseteq Ids
BY SignalAssumption DEF Ids, Keys, Versions

\* What moves an evaluation on changes the record of one worker only.
LEMMA GotoEffect ==
  ASSUME TypeOK, NEW w \in Workers, Goto(w, "check") \/ Goto(w, "create") \/ Goto(w, "cite") \/ Goto(w, "done")
  PROVE  /\ eval' \in [Workers -> EvalRecord]
         /\ \A v \in Workers \ {w} : eval'[v] = eval[v]
         /\ eval'[w].event = eval[w].event /\ eval'[w].version = eval[w].version
         /\ eval'[w].created = eval[w].created
         /\ \A pc : Goto(w, pc) => eval'[w].pc = pc
<1>1. eval \in [Workers -> EvalRecord] /\ eval[w] \in EvalRecord
  BY DEF TypeOK, EvalRecord
<1>2. PICK pc \in {"check", "create", "cite", "done"} : Goto(w, pc)
  OBVIOUS
<1>3. PICK m \in EvalRecord : m = [eval[w] EXCEPT !.pc = pc]
  BY <1>1 DEF EvalRecord
<1>4. eval' = [eval EXCEPT ![w] = m]
  BY <1>1, <1>2, <1>3 DEF Goto
<1>5. m.pc = pc /\ m.event = eval[w].event /\ m.version = eval[w].version /\ m.created = eval[w].created
  BY <1>1, <1>3 DEF EvalRecord
<1>6. ASSUME NEW q, Goto(w, q) PROVE eval'[w].pc = q
  <2>1. eval' = [eval EXCEPT ![w] = [eval[w] EXCEPT !.pc = q]]
    BY <1>1, <1>6 DEF Goto
  <2> QED BY <1>1, <2>1 DEF EvalRecord
<1> QED BY <1>1, <1>4, <1>5, <1>6

\* The steps of an evaluation that only move it on, or give it its prompt.
LEMMA EvalEffect ==
  ASSUME TypeOK, NEW w \in Workers, Evaluate(w)
  PROVE  /\ eval' \in [Workers -> EvalRecord] /\ runs' \in 0..MaxRuns
         /\ \A v \in Workers \ {w} : eval'[v] = eval[v]
         /\ UNCHANGED <<active, edited, journal, lock, review, tab, lookup>>
         /\ InsertSignal(w) \/ UNCHANGED status
         /\ InsertCite(w) \/ UNCHANGED cites
<1>1. eval \in [Workers -> EvalRecord] /\ eval[w] \in EvalRecord /\ runs \in 0..MaxRuns
  BY DEF TypeOK, EvalRecord
<1>2. ASSUME NEW e \in Events, Start(w, e) PROVE eval' \in [Workers -> EvalRecord] /\ runs' \in 0..MaxRuns
  <2>0. 0 \in 0..MaxVersion
    BY SignalAssumption
  <2>1. PICK m \in EvalRecord : m = [Idle EXCEPT !.pc = "prompt", !.event = e]
    BY <2>0 DEF EvalRecord, Idle
  <2>2. eval' = [eval EXCEPT ![w] = m]
    BY <1>2, <2>1 DEF Start
  <2>3. runs' \in 0..MaxRuns
    BY <1>1, <1>2, SignalAssumption DEF Start
  <2> QED BY <1>1, <2>2, <2>3
<1>3. CASE \E e \in Events : Start(w, e)
  <2>1. PICK e \in Events : Start(w, e)
    BY <1>3
  <2>2. \A v \in Workers \ {w} : eval'[v] = eval[v]
    BY <1>1, <2>1 DEF Start
  <2>3. eval' \in [Workers -> EvalRecord] /\ runs' \in 0..MaxRuns
    BY <1>2, <2>1
  <2> QED BY <2>1, <2>2, <2>3 DEF Start
<1>4. CASE ReadPrompt(w)
  <2>1. CASE eval[w].event \in Owned /\ active["entity"] # 0
    <3>1. active["entity"] \in 0..MaxVersion
      BY ThreeLevels DEF TypeOK
    <3>2. PICK m \in EvalRecord : m = [eval[w] EXCEPT !.pc = "check", !.version = active["entity"]]
      BY <1>1, <3>1 DEF EvalRecord
    <3>3. eval' = [eval EXCEPT ![w] = m]
      BY <1>1, <1>4, <2>1, <3>2 DEF ReadPrompt
    <3> QED BY <1>1, <1>4, <3>3 DEF ReadPrompt
  <2>2. CASE ~(eval[w].event \in Owned /\ active["entity"] # 0)
    BY <1>1, <1>4, <2>2, GotoEffect DEF ReadPrompt
  <2> QED BY <2>1, <2>2
<1>5. CASE CheckSignal(w)
  BY <1>1, <1>5, GotoEffect DEF CheckSignal
<1>6. CASE InsertSignal(w)
  <2>1. CASE status[Key(w)] = None
    <3>1. PICK m \in EvalRecord : m = [eval[w] EXCEPT !.pc = "cite", !.created = TRUE]
      BY <1>1 DEF EvalRecord
    <3>2. eval' = [eval EXCEPT ![w] = m]
      BY <1>1, <1>6, <2>1, <3>1 DEF InsertSignal
    <3> QED BY <1>1, <1>6, <3>2 DEF InsertSignal
  <2>2. CASE status[Key(w)] # None
    BY <1>1, <1>6, <2>2, GotoEffect DEF InsertSignal
  <2> QED BY <2>1, <2>2
<1>7. CASE InsertCite(w)
  BY <1>1, <1>7, GotoEffect DEF InsertCite
<1>8. CASE Fail(w)
  BY <1>1, <1>8, GotoEffect DEF Fail
<1> QED BY <1>3, <1>4, <1>5, <1>6, <1>7, <1>8 DEF Evaluate

\* An evaluation keeps what it knows of itself: its key once it has one, and the row once it
\* has created it.
LEMMA OwnEvaluation ==
  ASSUME TypeOK, Origins, NEW w \in Workers, Evaluate(w), Evaluation(w)
  PROVE  Evaluation(w)'
<1>1. eval \in [Workers -> EvalRecord] /\ eval[w] \in EvalRecord
  BY DEF TypeOK, EvalRecord
<1>2. status \in [Ids -> {None} \cup Statuses]
  BY DEF TypeOK
<1> USE DEF Evaluation
<1>3. CASE \E e \in Events : Start(w, e)
  <2>1. PICK e \in Events : Start(w, e)
    BY <1>3
  <2>2. eval'[w] = [pc |-> "prompt", event |-> e, version |-> 0, created |-> FALSE]
    BY <1>1, <2>1 DEF Start, Idle
  <2> QED BY <2>2
<1>4. CASE ReadPrompt(w)
  <2>1. CASE eval[w].event \in Owned /\ active["entity"] # 0
    <3>1. active["entity"] \in Versions
      BY ThreeLevels, <2>1, SignalAssumption DEF TypeOK, Versions
    <3>2. eval'[w] = [eval[w] EXCEPT !.pc = "check", !.version = active["entity"]]
      BY <1>1, <1>4, <2>1 DEF ReadPrompt
    <3>3. eval[w].pc = "prompt" /\ eval[w].event \in Events /\ ~eval[w].created
      BY <1>1, <1>4 DEF ReadPrompt, At, EvalRecord
    <3> QED BY <1>1, <3>1, <3>2, <3>3 DEF EvalRecord
  <2>2. CASE ~(eval[w].event \in Owned /\ active["entity"] # 0)
    <3>1. Goto(w, "done") /\ ~eval[w].created
      BY <1>1, <1>4, <2>2 DEF ReadPrompt, At, EvalRecord
    <3>2. eval'[w].pc = "done" /\ eval'[w].created = eval[w].created
      BY GotoEffect, <3>1
    <3> QED BY <3>1, <3>2
  <2> QED BY <2>1, <2>2
<1>5. CASE CheckSignal(w)
  <2>1. ~eval[w].created /\ eval[w].event \in Events /\ eval[w].version \in Versions
    BY <1>5 DEF CheckSignal, At
  <2>2. /\ eval'[w].event = eval[w].event /\ eval'[w].version = eval[w].version
        /\ eval'[w].created = eval[w].created
    BY <1>5, GotoEffect DEF CheckSignal
  <2> QED BY <2>1, <2>2
<1>6. CASE InsertSignal(w)
  <2>0. ~eval[w].created /\ eval[w].event \in Events /\ eval[w].version \in Versions
    BY <1>6 DEF InsertSignal, At
  <2>1. CASE status[Key(w)] = None
    <3>1. eval'[w] = [eval[w] EXCEPT !.pc = "cite", !.created = TRUE]
      BY <1>1, <1>6, <2>1 DEF InsertSignal
    <3>2. Key(w) \in Keys /\ Key(w) \in Ids
      BY <2>0, Apart3 DEF Key, Keys
    <3>3. status'[Key(w)] = "Generated"
      BY <1>2, <1>6, <2>1, <3>2 DEF InsertSignal
    <3>4. "Generated" # None
      BY SignalAssumption DEF Statuses
    <3>5. Key(w)' = Key(w) /\ eval'[w].pc = "cite" /\ eval'[w].event = eval[w].event /\ eval'[w].version = eval[w].version
      BY <1>1, <3>1 DEF EvalRecord, Key
    <3> QED BY <2>0, <3>2, <3>3, <3>4, <3>5
  <2>2. CASE status[Key(w)] # None
    <3>1. Goto(w, "done")
      BY <1>6, <2>2 DEF InsertSignal
    <3>2. eval'[w].pc = "done" /\ eval'[w].created = eval[w].created
      BY GotoEffect, <3>1
    <3> QED BY <2>0, <3>2
  <2> QED BY <2>1, <2>2
<1>7. CASE InsertCite(w) \/ Fail(w)
  <2>1. Goto(w, "done") /\ UNCHANGED status
    BY <1>7 DEF InsertCite, Fail
  <2>2. /\ eval'[w].pc = "done" /\ eval'[w].created = eval[w].created
        /\ eval'[w].event = eval[w].event /\ eval'[w].version = eval[w].version
    BY GotoEffect, <2>1
  <2>3. Key(w)' = Key(w)
    BY <2>2 DEF Key
  <2> QED BY <2>1, <2>2, <2>3
<1> QED BY <1>3, <1>4, <1>5, <1>6, <1>7 DEF Evaluate

-----------------------------------------------------------------------------
\* An evaluation does not disturb another one, and no two of them create the same signal.
LEMMA EvaluateKeepsEval ==
  ASSUME TypeOK, Origins, EvalInv, NEW w \in Workers, Evaluate(w)
  PROVE  EvalInv'
<1>0. eval \in [Workers -> EvalRecord] /\ status \in [Ids -> {None} \cup Statuses]
  BY DEF TypeOK, EvalRecord
<1>1. \A v \in Workers \ {w} : eval'[v] = eval[v] /\ Key(v)' = Key(v)
  BY EvalEffect DEF Key
<1>2. Evaluation(w)'
  BY OwnEvaluation DEF EvalInv
<1>3. \A i \in Ids : status[i] # None => status'[i] # None
  <2>1. CASE InsertSignal(w)
    <3>1. "Generated" # None
      BY SignalAssumption
    <3> QED BY <1>0, <2>1, <3>1 DEF InsertSignal
  <2>2. CASE UNCHANGED status
    BY <2>2
  <2> QED BY <2>1, <2>2, EvalEffect
<1>4. ASSUME NEW v \in Workers \ {w} PROVE Evaluation(v)'
  <2>1. Evaluation(v)
    BY DEF EvalInv
  <2>2. Key(v) \in Keys => Key(v) \in Ids
    BY Apart3
  <2> QED BY <1>1, <1>3, <2>1, <2>2 DEF Evaluation
<1>5. ASSUME NEW v \in Workers \ {w}, eval'[v].created, eval'[w].created
      PROVE  Key(v)' # Key(w)'
  <2>1. eval[v].created /\ Key(v)' = Key(v) /\ Key(v) \in Keys /\ status[Key(v)] # None
    BY <1>1, <1>5 DEF EvalInv, Evaluation
  <2>2. CASE InsertSignal(w) /\ status[Key(w)] = None
    <3>1. eval'[w] = [eval[w] EXCEPT !.pc = "cite", !.created = TRUE]
      BY <1>0, <2>2 DEF InsertSignal
    <3>2. Key(w)' = Key(w)
      BY <1>0, <3>1 DEF EvalRecord, Key
    <3> QED BY <2>1, <2>2, <3>2
  <2>3. CASE ~(InsertSignal(w) /\ status[Key(w)] = None)
    <3>1. Goto(w, "done") \/ Goto(w, "create") \/ ReadPrompt(w) \/ \E e \in Events : Start(w, e)
      BY <2>3 DEF Evaluate, InsertSignal, CheckSignal, InsertCite, Fail
    <3>2. CASE Goto(w, "done") \/ Goto(w, "create")
      <4>1. /\ eval'[w].event = eval[w].event /\ eval'[w].version = eval[w].version
            /\ eval'[w].created = eval[w].created
        BY GotoEffect, <3>2
      <4>2. Key(w)' = Key(w) /\ eval[w].created
        BY <4>1, <1>5 DEF Key
      <4> QED BY <2>1, <4>2 DEF EvalInv, CreatedOnce
    <3>3. CASE ReadPrompt(w)
      <4>1. eval'[w].created = eval[w].created
        BY <1>0, <3>3 DEF ReadPrompt, Goto, EvalRecord
      <4>2. eval[w].pc = "prompt" /\ ~eval[w].created
        BY <3>3 DEF ReadPrompt, At, EvalInv, Evaluation
      <4> QED BY <4>1, <4>2, <1>5
    <3>4. CASE \E e \in Events : Start(w, e)
      <4>1. ~eval'[w].created
        BY <1>0, <3>4 DEF Start, Idle
      <4> QED BY <4>1, <1>5
    <3> QED BY <3>1, <3>2, <3>3, <3>4
  <2> QED BY <2>2, <2>3
<1>6. CreatedOnce'
  <2> SUFFICES ASSUME NEW v \in Workers, NEW u \in Workers, v # u, eval'[v].created, eval'[u].created
               PROVE  Key(v)' # Key(u)'
    BY DEF CreatedOnce
  <2>1. CASE v = w
    BY <1>5, <2>1
  <2>2. CASE u = w
    BY <1>5, <2>2
  <2>3. CASE v # w /\ u # w
    BY <1>1, <2>3 DEF EvalInv, CreatedOnce
  <2> QED BY <2>1, <2>2, <2>3
<1>7. Cited'
  <2>1. CASE InsertCite(w)
    <3>1. cites' \subseteq cites \cup {<<Key(w), eval[w].version>>}
      BY <2>1 DEF InsertCite
    <3>2. Key(w)[2] = eval[w].version
      BY DEF Key
    <3> QED BY <3>1, <3>2 DEF EvalInv, Cited
  <2>2. CASE UNCHANGED cites
    BY <2>2 DEF EvalInv, Cited
  <2> QED BY <2>1, <2>2, EvalEffect
<1> QED BY <1>2, <1>4, <1>6, <1>7 DEF EvalInv

\* Nor does an evaluation touch a row that reviewers and researchers see.
LEMMA EvaluateKeepsTriage ==
  ASSUME TypeOK, TriageInv, EvalInv, NEW w \in Workers, Evaluate(w)
  PROVE  TriageInv' /\ \A i \in Ids : status'[i] = status[i] \/ status[i] = None
<1>0. status \in [Ids -> {None} \cup Statuses]
  BY DEF TypeOK
<1>1. UNCHANGED <<edited, journal, lock, review>>
  BY EvalEffect
<1>2. CASE InsertSignal(w) /\ status[Key(w)] = None
  <2>1. Key(w) \in Keys
    BY <1>2 DEF InsertSignal, At, EvalInv, Evaluation, Key, Keys
  <2>2. status' = [status EXCEPT ![Key(w)] = "Generated"] /\ Key(w) \in Ids
    BY <1>2, <2>1, Apart3 DEF InsertSignal
  <2>3. Key(w) \notin Queued /\ Key(w) \notin Delivered
    BY <2>1, Apart3
  <2>4. \A i \in Ids \ {Key(w)} : status'[i] = status[i]
    BY <1>0, <2>2
  <2>5. Origins'
    BY <1>0, <2>2, <2>3, <2>4, Apart3 DEF TriageInv, Origins
  <2>6. \A r \in Reviewers : Reviewing(r)'
    BY <1>1, <2>3, <2>4, Apart3 DEF TriageInv, Reviewing
  <2>7. \A i \in Ids, r \in Reviewers : Locked(i, r)'
    BY <1>1 DEF TriageInv, Locked
  <2>8. ASSUME NEW i \in Ids PROVE JournalOf(i)'
    <3>1. JournalOf(i)
      BY DEF TriageInv
    <3>2. CASE i = Key(w)
      BY <1>1, <1>2, <2>3, <3>1, <3>2, SignalAssumption DEF JournalOf
    <3>3. CASE i # Key(w)
      BY <1>1, <2>4, <3>1, <3>3 DEF JournalOf
    <3> QED BY <3>2, <3>3
  <2> QED BY <1>2, <2>4, <2>5, <2>6, <2>7, <2>8 DEF TriageInv
<1>3. CASE UNCHANGED status
  BY <1>1, <1>3 DEF TriageInv, Origins, Reviewing, Locked, JournalOf
<1> QED BY <1>2, <1>3, EvalEffect DEF InsertSignal

-----------------------------------------------------------------------------
\* A reviewer's transaction moves its own signal out of the queue and writes its row of the
\* journal, and leaves what the others hold alone.
LEMMA TriageKeeps ==
  ASSUME TypeOK, TriageInv, NEW r \in Reviewers, Triage(r)
  PROVE  /\ TriageInv'
         /\ \A i \in Ids : status'[i] = status[i]
              \/ (status[i] = "Queued" /\ status'[i] \in {"Delivered", "Suppressed"})
<1>0. /\ status \in [Ids -> {None} \cup Statuses] /\ journal \in [Ids -> Seq(Ops)]
      /\ lock \in [Ids -> {None} \cup Reviewers] /\ edited \subseteq Ids
      /\ review \in [Reviewers -> [id : {None} \cup Ids, op : {None} \cup Ops]]
  BY DEF TypeOK
<1>1. CASE \E i \in Ids, op \in Ops : BeginReview(r, i, op)
  <2>1. PICK i \in Ids, op \in Ops : BeginReview(r, i, op)
    BY <1>1
  <2>2. lock' = [lock EXCEPT ![i] = r] /\ review' = [review EXCEPT ![r] = [id |-> i, op |-> op]]
        /\ status[i] = "Queued" /\ lock[i] = None /\ review[r].id = None
        /\ UNCHANGED <<status, edited, journal>>
    BY <2>1 DEF BeginReview, NoReview
  <2>3. i \in Queued
    BY <2>2, SignalAssumption DEF TriageInv, Origins, Ids
  <2>4. \A q \in Reviewers : Reviewing(q)'
    BY <1>0, <2>2, <2>3 DEF TriageInv, Reviewing
  <2>5. ASSUME NEW j \in Ids, NEW q \in Reviewers PROVE Locked(j, q)'
    <3>1. Locked(j, q) /\ Locked(j, r) /\ Locked(i, q) /\ None \notin Reviewers /\ i # None /\ j # None
      BY Apart3 DEF TriageInv
    <3>2. CASE j = i
      <4>1. lock'[j] = r
        BY <1>0, <2>2, <3>2
      <4>2. q = r => review'[q].id = i
        BY <1>0, <2>2
      <4>3. q # r => review'[q] = review[q] /\ review[q].id # i
        BY <1>0, <2>2, <3>1 DEF Locked
      <4> QED BY <3>2, <4>1, <4>2, <4>3 DEF Locked
    <3>3. CASE j # i
      <4>1. lock'[j] = lock[j]
        BY <1>0, <2>2, <3>3
      <4>2. q = r => review'[q].id = i /\ lock[j] # q
        BY <1>0, <2>2, <3>1 DEF Locked
      <4>3. q # r => review'[q] = review[q]
        BY <1>0, <2>2
      <4> QED BY <3>1, <3>3, <4>1, <4>2, <4>3 DEF Locked
    <3> QED BY <3>2, <3>3
  <2>6. Origins' /\ \A j \in Ids : JournalOf(j)'
    BY <2>2 DEF TriageInv, Origins, JournalOf
  <2> QED BY <2>2, <2>4, <2>5, <2>6 DEF TriageInv
<1>2. ASSUME NEW i, i = review[r].id, i # None,
             lock' = [lock EXCEPT ![i] = None], review' = [review EXCEPT ![r] = NoReview]
      PROVE  i \in Ids /\ \A j \in Ids, q \in Reviewers : Locked(j, q)'
  <2>1. i \in Ids
    BY <1>0, <1>2
  <2>2. review'[r].id = None /\ \A q \in Reviewers \ {r} : review'[q] = review[q]
    BY <1>0, <1>2 DEF NoReview
  <2>3. lock[i] = r
    BY <1>2, <2>1 DEF TriageInv, Locked
  <2>4. ASSUME NEW j \in Ids, NEW q \in Reviewers PROVE Locked(j, q)'
    <3>1. Locked(j, q) /\ None \notin Reviewers /\ j # None
      BY Apart3 DEF TriageInv
    <3>2. lock[j] = r => j = i
      BY <1>2 DEF TriageInv, Locked
    <3> QED BY <1>0, <1>2, <2>1, <2>2, <2>3, <3>1, <3>2 DEF Locked
  <2> QED BY <2>1, <2>4
<1>3. CASE Commit(r)
  <2> DEFINE i == review[r].id
             op == review[r].op
             to == IF op = "suppressed" THEN "Suppressed" ELSE "Delivered"
  <2>1. /\ i # None /\ lock' = [lock EXCEPT ![i] = None] /\ review' = [review EXCEPT ![r] = NoReview]
        /\ status' = [status EXCEPT ![i] = to] /\ journal' = [journal EXCEPT ![i] = Append(journal[i], op)]
        /\ edited' = IF op = "edited" THEN edited \cup {i} ELSE edited
    BY <1>3 DEF Commit
  <2>2. i \in Ids /\ \A j \in Ids, q \in Reviewers : Locked(j, q)'
    BY <1>2, <2>1
  <2>3. i \in Queued /\ op \in Ops /\ status[i] = "Queued"
    BY <2>1 DEF TriageInv, Reviewing
  <2>4. status'[i] = to /\ \A j \in Ids \ {i} : status'[j] = status[j]
    BY <1>0, <2>1, <2>2
  <2>5. Origins'
    BY <2>2, <2>3, <2>4, Apart3 DEF TriageInv, Origins
  <2>6. \A q \in Reviewers : Reviewing(q)'
    <3> SUFFICES ASSUME NEW q \in Reviewers, review'[q].id # None
                 PROVE  review'[q].op \in Ops /\ review'[q].id \in Queued /\ status'[review'[q].id] = "Queued"
      BY DEF Reviewing
    <3>1. q # r /\ review'[q] = review[q]
      BY <1>0, <2>1 DEF NoReview
    <3>2. review[q].id \in Ids /\ review[q].id # i
      BY <1>0, <3>1, <2>2 DEF TriageInv, Locked
    <3> QED BY <2>4, <3>1, <3>2 DEF TriageInv, Reviewing
  <2>7. ASSUME NEW j \in Ids PROVE JournalOf(j)'
    <3>1. JournalOf(j)
      BY DEF TriageInv
    <3>2. CASE j # i
      <4>1. journal'[j] = journal[j] /\ status'[j] = status[j] /\ (j \in edited' <=> j \in edited)
        BY <1>0, <2>1, <2>4, <3>2
      <4> QED BY <3>1, <4>1 DEF JournalOf
    <3>3. CASE j = i
      <4>1. Len(journal[i]) = 0 /\ journal[i] \in Seq(Ops)
        BY <1>0, <2>2, <2>3, <3>1, <3>3 DEF JournalOf
      <4>2. journal[i] = <<>>
        BY <4>1
      <4>3. journal'[i] = <<op>>
        BY <1>0, <2>1, <2>2, <4>2
      <4>4. journal[i] # <<"edited">> /\ i \notin edited
        BY <3>1, <3>3, <4>2 DEF JournalOf
      <4>5. Len(journal'[i]) = 1 /\ (journal'[i] = <<"edited">> <=> op = "edited")
            /\ (journal'[i] = <<"suppressed">> <=> op = "suppressed")
        BY <4>3
      <4>6. i \in edited' <=> op = "edited"
        BY <2>1, <4>4
      <4>7. status'[i] = to /\ to # "Queued" /\ (op = "suppressed" => to = "Suppressed")
        BY <2>4
      <4> QED BY <2>3, <3>3, <4>5, <4>6, <4>7 DEF JournalOf
    <3> QED BY <3>2, <3>3
  <2>8. \A j \in Ids : status'[j] = status[j] \/ (status[j] = "Queued" /\ status'[j] \in {"Delivered", "Suppressed"})
    BY <2>3, <2>4
  <2> QED BY <2>2, <2>5, <2>6, <2>7, <2>8 DEF TriageInv
<1>4. CASE Rollback(r)
  <2>1. /\ review[r].id # None /\ lock' = [lock EXCEPT ![review[r].id] = None]
        /\ review' = [review EXCEPT ![r] = NoReview] /\ UNCHANGED <<status, edited, journal>>
    BY <1>4 DEF Rollback
  <2>2. \A j \in Ids, q \in Reviewers : Locked(j, q)'
    BY <1>2, <2>1
  <2>3. \A q \in Reviewers : Reviewing(q)'
    BY <1>0, <2>1 DEF TriageInv, Reviewing, NoReview
  <2>4. Origins' /\ \A j \in Ids : JournalOf(j)'
    BY <2>1 DEF TriageInv, Origins, JournalOf
  <2> QED BY <2>1, <2>2, <2>3, <2>4 DEF TriageInv
<1> QED BY <1>1, <1>3, <1>4 DEF Triage

\* A researcher's dismissal changes a delivered signal at most.
LEMMA FeedKeeps ==
  ASSUME TypeOK, TriageInv, NEW s \in Sessions, Feed(s)
  PROVE  /\ TriageInv'
         /\ \A i \in Ids : status'[i] = status[i] \/ (status[i] = "Delivered" /\ status'[i] = "Suppressed")
<1>0. status \in [Ids -> {None} \cup Statuses] /\ tab \in [Sessions -> {None} \cup Ids]
  BY DEF TypeOK
<1>1. CASE \E i \in Ids : ReadSignal(s, i)
  BY <1>1 DEF ReadSignal, TriageInv, Origins, Reviewing, Locked, JournalOf
<1>2. CASE Dismiss(s)
  <2>1. UNCHANGED <<edited, journal, lock, review>> /\ tab[s] \in Ids
    BY <1>0, <1>2 DEF Dismiss
  <2>2. \A i \in Ids : status'[i] = status[i] \/ (status[i] = "Delivered" /\ status'[i] = "Suppressed")
    BY <1>0, <1>2 DEF Dismiss
  <2>3. \A i \in Keys \cup Delivered \cup Queued : i \in Ids
    BY DEF Ids
  <2>4. Origins'
    BY <2>2, <2>3, SignalAssumption DEF TriageInv, Origins
  <2>5. \A r \in Reviewers : Reviewing(r)'
    BY <2>1, <2>2, <2>3 DEF TriageInv, Reviewing
  <2>6. \A i \in Ids, r \in Reviewers : Locked(i, r)'
    BY <2>1 DEF TriageInv, Locked
  <2>7. \A i \in Ids : JournalOf(i)'
    BY <2>1, <2>2 DEF TriageInv, JournalOf
  <2> QED BY <2>2, <2>4, <2>5, <2>6, <2>7 DEF TriageInv
<1> QED BY <1>1, <1>2 DEF Feed

\* A step that is not an evaluation's leaves what evaluations have, since rows stay.
LEMMA OthersKeepEval ==
  ASSUME TypeOK, EvalInv, UNCHANGED <<eval, cites>>, \A i \in Keys : status'[i] = status[i]
  PROVE  EvalInv'
<1>1. \A w \in Workers : Key(w)' = Key(w)
  BY DEF Key
<1> QED BY <1>1 DEF EvalInv, Evaluation, CreatedOnce, Cited

\* The most specific level with a version is the first of those that have one.
LEMMA MostSpecificActive ==
  /\ MostSpecific \in 0..3
  /\ MostSpecific # 0 => active[Levels[MostSpecific]] # 0
<1>1. ActiveLevels \subseteq 1..3
  BY ThreeLevels DEF ActiveLevels
<1>2. CASE ActiveLevels = {}
  BY <1>2 DEF MostSpecific
<1>3. CASE ActiveLevels # {}
  <2>1. \A n \in ActiveLevels : n = 1 \/ n = 2 \/ n = 3
    BY <1>1
  <2>2. \E n \in ActiveLevels : \A k \in ActiveLevels : n <= k
    <3>1. CASE 1 \in ActiveLevels
      BY <2>1, <3>1
    <3>2. CASE 1 \notin ActiveLevels /\ 2 \in ActiveLevels
      BY <2>1, <3>2
    <3>3. CASE 1 \notin ActiveLevels /\ 2 \notin ActiveLevels
      BY <1>3, <2>1, <3>3
    <3> QED BY <3>1, <3>2, <3>3
  <2>3. MostSpecific \in ActiveLevels
    BY <1>3, <2>2 DEF MostSpecific
  <2> QED BY <1>1, <2>3 DEF ActiveLevels
<1> QED BY <1>2, <1>3

\* The prompts that are active only become more, and a resolution reads them level by level.
LEMMA ResolvingStep ==
  ASSUME TypeOK, Resolving, [Next]_vars
  PROVE  Resolving'
<1>0. /\ active \in [{"entity", "thesis", "portfolio"} -> 0..MaxVersion]
      /\ lookup \in [at : 0..4, best : 0..3, found : 0..3]
  BY ThreeLevels DEF TypeOK
<1>1. \A n \in 1..3 : Levels[n] \in {"entity", "thesis", "portfolio"}
  BY ThreeLevels, \A n \in 1..3 : n = 1 \/ n = 2 \/ n = 3
<1>2. CASE \E l \in ToSet(Levels) : Activate(l)
  <2>1. PICK l \in {"entity", "thesis", "portfolio"} : Activate(l)
    BY <1>2, ThreeLevels
  <2>2. \A k \in {"entity", "thesis", "portfolio"} : active[k] # 0 => active'[k] # 0
    BY <1>0, <2>1 DEF Activate
  <2> QED BY <1>0, <1>1, <2>1, <2>2 DEF Activate, Resolving
<1>3. CASE BeginLookup
  <2>1. lookup' = [at |-> 1, best |-> MostSpecific, found |-> 0] /\ UNCHANGED active
    BY <1>3 DEF BeginLookup
  <2> QED BY <2>1, MostSpecificActive DEF Resolving
<1>4. CASE ReadLevel
  <2>1. lookup.at \in 1..3 /\ lookup.found = 0 /\ UNCHANGED active
    BY <1>4, ThreeLevels DEF ReadLevel
  <2>2. CASE active[Levels[lookup.at]] # 0
    <3>0. lookup' = [lookup EXCEPT !.found = lookup.at, !.at = 4]
      BY <1>4, <2>2, ThreeLevels DEF ReadLevel
    <3>1. lookup' = [at |-> 4, best |-> lookup.best, found |-> lookup.at]
      BY <1>0, <3>0
    <3> QED BY <1>0, <2>1, <3>1 DEF Resolving
  <2>3. CASE active[Levels[lookup.at]] = 0
    <3>1. lookup' = [at |-> lookup.at + 1, best |-> lookup.best, found |-> 0]
      BY <1>0, <1>4, <2>1, <2>3 DEF ReadLevel
    <3>2. lookup.best # 0 => lookup.at # lookup.best
      BY <2>3 DEF Resolving
    <3> QED BY <1>0, <2>1, <3>1, <3>2 DEF Resolving
  <2> QED BY <2>2, <2>3
<1>5. CASE Answer
  BY <1>5 DEF Answer, NoLookup, Resolving
<1>6. CASE UNCHANGED <<active, lookup>>
  BY <1>6 DEF Resolving
<1>7. ASSUME NEW w \in Workers, Evaluate(w) PROVE UNCHANGED <<active, lookup>>
  BY <1>7, EvalEffect
<1>8. ASSUME NEW r \in Reviewers, Triage(r) PROVE UNCHANGED <<active, lookup>>
  BY <1>8 DEF Triage, BeginReview, Commit, Rollback
<1>9. ASSUME NEW s \in Sessions, Feed(s) PROVE UNCHANGED <<active, lookup>>
  BY <1>9 DEF Feed, ReadSignal, Dismiss
<1>10. CASE UNCHANGED vars
  BY <1>10, <1>6 DEF vars
<1> QED BY <1>2, <1>3, <1>4, <1>5, <1>6, <1>7, <1>8, <1>9, <1>10 DEF Next, Resolve

-----------------------------------------------------------------------------
\* Every step keeps every variable to its type.
LEMMA TypeStep ==
  ASSUME SignalInv, [Next]_vars
  PROVE  TypeOK'
<1>0. TypeOK /\ TriageInv /\ EvalInv
  BY DEF SignalInv
<1>2. ASSUME NEW w \in Workers, Evaluate(w) PROVE UNCHANGED <<active, lookup>>
  BY <1>0, <1>2, EvalEffect
<1>3. ASSUME NEW r \in Reviewers, Triage(r) PROVE UNCHANGED <<active, lookup>>
  BY <1>3 DEF Triage, BeginReview, Commit, Rollback
<1>4. ASSUME NEW s \in Sessions, Feed(s) PROVE UNCHANGED <<active, lookup>>
  BY <1>4 DEF Feed, ReadSignal, Dismiss
<1>5. active' \in [ToSet(Levels) -> 0..MaxVersion]
  <2>1. ASSUME NEW l \in ToSet(Levels), Activate(l) PROVE active' \in [ToSet(Levels) -> 0..MaxVersion]
    <3>1. active \in [ToSet(Levels) -> 0..MaxVersion] /\ active[l] \in 0..MaxVersion
      BY <1>0 DEF TypeOK
    <3>2. MaxVersion \in Nat \ {0}
      BY SignalAssumption
    <3>3. active' = [active EXCEPT ![l] = active[l] + 1]
      BY <2>1 DEF Activate
    <3>4. active[l] + 1 \in 0..MaxVersion
      <4>1. CASE l = "entity"
        BY <2>1, <3>1, <3>2, <4>1 DEF Activate
      <4>2. CASE l # "entity"
        BY <2>1, <3>1, <3>2, <4>2 DEF Activate
      <4> QED BY <4>1, <4>2
    <3> QED BY <3>1, <3>3, <3>4
  <2>2. CASE UNCHANGED active
    BY <1>0, <2>2 DEF TypeOK
  <2>3. (\E l \in ToSet(Levels) : Activate(l)) \/ UNCHANGED active
    BY <1>2, <1>3, <1>4 DEF Next, Resolve, BeginLookup, ReadLevel, Answer, vars
  <2> QED BY <2>1, <2>2, <2>3
<1>6. lookup' \in [at : 0..(Len(Levels) + 1), best : 0..Len(Levels), found : 0..Len(Levels)]
  <2>0. lookup \in [at : 0..4, best : 0..3, found : 0..3]
    BY <1>0, ThreeLevels DEF TypeOK
  <2>1. CASE BeginLookup
    <3>1. MostSpecific \in 0..3
      BY MostSpecificActive
    <3> QED BY <2>1, <3>1, ThreeLevels DEF BeginLookup
  <2>2. CASE ReadLevel
    <3>1. lookup.at \in 1..3
      BY <2>2, ThreeLevels DEF ReadLevel
    <3>2. \/ lookup' = [lookup EXCEPT !.found = lookup.at, !.at = 4]
          \/ lookup' = [lookup EXCEPT !.at = lookup.at + 1]
      BY <2>2, ThreeLevels DEF ReadLevel
    <3>3. ASSUME lookup' = [lookup EXCEPT !.found = lookup.at, !.at = 4]
          PROVE  lookup' \in [at : 0..4, best : 0..3, found : 0..3]
      <4>1. lookup' = [at |-> 4, best |-> lookup.best, found |-> lookup.at]
        BY <2>0, <3>3
      <4>2. lookup.at \in 0..3 /\ lookup.best \in 0..3 /\ 4 \in 0..4
        BY <2>0, <3>1
      <4> QED BY <4>1, <4>2
    <3>4. ASSUME lookup' = [lookup EXCEPT !.at = lookup.at + 1]
          PROVE  lookup' \in [at : 0..4, best : 0..3, found : 0..3]
      <4>1. lookup.at + 1 \in 0..4
        BY <3>1
      <4> QED BY <2>0, <3>4, <4>1
    <3> QED BY <3>2, <3>3, <3>4, ThreeLevels
  <2>3. CASE Answer
    BY <2>3, ThreeLevels DEF Answer, NoLookup
  <2>4. CASE UNCHANGED lookup
    BY <2>0, <2>4, ThreeLevels
  <2>5. BeginLookup \/ ReadLevel \/ Answer \/ UNCHANGED lookup
    BY <1>2, <1>3, <1>4 DEF Next, Resolve, Activate, vars
  <2> QED BY <2>1, <2>2, <2>3, <2>4, <2>5
<1>7. CASE \E w \in Workers : Evaluate(w)
  <2>1. PICK w \in Workers : Evaluate(w)
    BY <1>7
  <2>2. eval' \in [Workers -> EvalRecord] /\ runs' \in 0..MaxRuns /\ UNCHANGED <<edited, journal, lock, review, tab>>
    BY <1>0, <2>1, EvalEffect
  <2>3. status' \in [Ids -> {None} \cup Statuses]
    <3>1. status \in [Ids -> {None} \cup Statuses] /\ "Generated" \in Statuses
      BY <1>0 DEF TypeOK, Statuses
    <3>2. CASE InsertSignal(w)
      BY <3>1, <3>2 DEF InsertSignal
    <3>3. CASE UNCHANGED status
      BY <3>1, <3>3
    <3> QED BY <1>0, <2>1, <3>2, <3>3, EvalEffect
  <2>4. cites' \subseteq Keys \X (0..MaxVersion)
    <3>1. CASE InsertCite(w)
      <4>1. <<Key(w), eval[w].version>> \in Keys \X (0..MaxVersion)
        BY <1>0, <2>1, <3>1, SignalAssumption DEF InsertCite, At, EvalInv, Evaluation, Key, Keys, Versions
      <4> QED BY <1>0, <3>1, <4>1 DEF InsertCite, TypeOK
    <3>2. CASE UNCHANGED cites
      BY <1>0, <3>2 DEF TypeOK
    <3> QED BY <1>0, <2>1, <3>1, <3>2, EvalEffect
  <2> QED BY <1>0, <1>5, <1>6, <2>2, <2>3, <2>4 DEF TypeOK, EvalRecord
<1>8. CASE \E r \in Reviewers : Triage(r)
  <2>1. PICK r \in Reviewers : Triage(r)
    BY <1>8
  <2>2. \A i \in Ids : status'[i] \in {None} \cup Statuses
    BY <1>0, <2>1, TriageKeeps DEF TypeOK, Statuses
  <2>3. UNCHANGED <<cites, eval, runs, tab>>
    BY <2>1 DEF Triage, BeginReview, Commit, Rollback
  <2>4. /\ status \in [Ids -> {None} \cup Statuses] /\ journal \in [Ids -> Seq(Ops)]
        /\ lock \in [Ids -> {None} \cup Reviewers] /\ edited \subseteq Ids
        /\ review \in [Reviewers -> [id : {None} \cup Ids, op : {None} \cup Ops]]
    BY <1>0 DEF TypeOK
  <2>5. review[r] \in [id : {None} \cup Ids, op : {None} \cup Ops]
    BY <2>4
  <2>6. CASE \E i \in Ids, op \in Ops : BeginReview(r, i, op)
    <3>1. PICK i \in Ids, op \in Ops : BeginReview(r, i, op)
      BY <2>6
    <3>2. lock' \in [Ids -> {None} \cup Reviewers] /\ review' \in [Reviewers -> [id : {None} \cup Ids, op : {None} \cup Ops]]
      BY <2>4, <3>1 DEF BeginReview
    <3> QED BY <1>0, <1>5, <1>6, <2>3, <3>1, <3>2 DEF TypeOK, BeginReview
  <2>7. CASE Commit(r)
    <3>1. review[r].id \in Ids /\ review[r].op \in Ops
      BY <1>0, <2>5, <2>7 DEF Commit, TriageInv, Reviewing
    <3>2. status' \in [Ids -> {None} \cup Statuses]
      BY <2>4, <2>7 DEF Commit, Statuses
    <3>3. journal[review[r].id] \in Seq(Ops) /\ Append(journal[review[r].id], review[r].op) \in Seq(Ops)
      BY <2>4, <3>1
    <3>4. journal' \in [Ids -> Seq(Ops)]
      BY <2>4, <2>7, <3>3 DEF Commit
    <3>5. edited' \subseteq Ids /\ lock' \in [Ids -> {None} \cup Reviewers]
      BY <2>4, <2>7, <3>1 DEF Commit
    <3>6. review' \in [Reviewers -> [id : {None} \cup Ids, op : {None} \cup Ops]]
      BY <2>4, <2>7 DEF Commit, NoReview
    <3> QED BY <1>0, <1>5, <1>6, <2>3, <3>2, <3>4, <3>5, <3>6 DEF TypeOK
  <2>8. CASE Rollback(r)
    <3>1. lock' \in [Ids -> {None} \cup Reviewers]
      BY <2>4, <2>8 DEF Rollback
    <3>2. review' \in [Reviewers -> [id : {None} \cup Ids, op : {None} \cup Ops]]
      BY <2>4, <2>8 DEF Rollback, NoReview
    <3> QED BY <1>0, <1>5, <1>6, <2>3, <2>8, <3>1, <3>2 DEF TypeOK, Rollback
  <2> QED BY <2>1, <2>6, <2>7, <2>8 DEF Triage
<1>9. CASE \E s \in Sessions : Feed(s)
  <2>1. PICK s \in Sessions : Feed(s)
    BY <1>9
  <2>2. UNCHANGED <<edited, cites, journal, lock, eval, runs, review>>
    BY <2>1 DEF Feed, ReadSignal, Dismiss
  <2>3. status' \in [Ids -> {None} \cup Statuses] /\ tab' \in [Sessions -> {None} \cup Ids]
    BY <1>0, <2>1 DEF Feed, ReadSignal, Dismiss, TypeOK, Statuses
  <2> QED BY <1>0, <1>5, <1>6, <2>2, <2>3 DEF TypeOK
<1>10. CASE UNCHANGED <<status, edited, cites, journal, lock, eval, runs, review, tab>>
  BY <1>0, <1>5, <1>6, <1>10 DEF TypeOK
<1> QED BY <1>7, <1>8, <1>9, <1>10 DEF Next, Resolve, Activate, BeginLookup, ReadLevel, Answer, vars

\* The inductive invariant: it holds at first and every step keeps it.
THEOREM SignalInductive == Spec => []SignalInv
<1>1. Init => SignalInv
  <2> SUFFICES ASSUME Init PROVE SignalInv
    OBVIOUS
  <2>1. 0 \in 0..MaxVersion /\ 0 \in 0..MaxRuns
    BY SignalAssumption
  <2>2. \A i \in Ids : i \notin Delivered /\ i \notin Queued => status[i] = None
    BY DEF Init
  <2>3. Origins
    BY <2>2, Apart3 DEF Init, Origins
  <2>4. status \in [Ids -> {None} \cup Statuses]
    BY DEF Init, Statuses
  <2>5. \A i \in Ids : journal[i] = <<>> /\ (status[i] = "Queued" <=> i \in Queued)
    BY SignalAssumption DEF Init
  <2>6. \A i \in Ids : JournalOf(i)
    BY <2>5 DEF Init, JournalOf
  <2>7. TriageInv
    BY <2>3, <2>6, Apart3 DEF Init, TriageInv, Reviewing, Locked, NoReview
  <2>8. EvalInv
    BY DEF Init, EvalInv, Evaluation, CreatedOnce, Cited, Idle
  <2>9. Resolving
    BY DEF Init, Resolving, NoLookup
  <2>10. TypeOK
    BY <2>1, <2>4, ThreeLevels DEF Init, TypeOK, Idle, NoReview, NoLookup
  <2> QED BY <2>7, <2>8, <2>9, <2>10 DEF SignalInv
<1>2. SignalInv /\ [Next]_vars => SignalInv'
  <2> SUFFICES ASSUME SignalInv, [Next]_vars PROVE SignalInv'
    OBVIOUS
  <2>0. TypeOK /\ TriageInv /\ EvalInv /\ Resolving /\ Origins
    BY DEF SignalInv, TriageInv
  <2>1. TypeOK' /\ Resolving'
    BY <2>0, TypeStep, ResolvingStep
  <2>2. ASSUME NEW w \in Workers, Evaluate(w) PROVE TriageInv' /\ EvalInv'
    BY <2>0, <2>2, EvaluateKeepsEval, EvaluateKeepsTriage
  <2>3. ASSUME NEW r \in Reviewers, Triage(r) PROVE TriageInv' /\ EvalInv'
    <3>1. UNCHANGED <<cites, eval>>
      BY <2>3 DEF Triage, BeginReview, Commit, Rollback
    <3>2. \A i \in Keys : i \in Ids /\ status[i] # "Queued"
      BY <2>0, Apart3, SignalAssumption DEF Origins
    <3> QED BY <2>0, <2>3, <3>1, <3>2, TriageKeeps, OthersKeepEval
  <2>4. ASSUME NEW s \in Sessions, Feed(s) PROVE TriageInv' /\ EvalInv'
    <3>1. UNCHANGED <<cites, eval>>
      BY <2>4 DEF Feed, ReadSignal, Dismiss
    <3>2. \A i \in Keys : i \in Ids /\ status[i] # "Delivered"
      BY <2>0, Apart3, SignalAssumption DEF Origins
    <3> QED BY <2>0, <2>4, <3>1, <3>2, FeedKeeps, OthersKeepEval
  <2>5. ASSUME UNCHANGED <<status, edited, cites, journal, lock, eval, review>> PROVE TriageInv' /\ EvalInv'
    <3>1. TriageInv'
      BY <2>0, <2>5 DEF TriageInv, Origins, Reviewing, Locked, JournalOf
    <3> QED BY <2>0, <2>5, <3>1, OthersKeepEval
  <2>6. TriageInv' /\ EvalInv'
    BY <2>2, <2>3, <2>4, <2>5 DEF Next, Resolve, Activate, BeginLookup, ReadLevel, Answer, vars
  <2> QED BY <2>1, <2>6 DEF SignalInv
<1> QED BY <1>1, <1>2, PTL DEF Spec

\* A signal's history tells what happened, a resolution is as specific as it can be, and
\* every variable keeps to its type.
THEOREM SignalCorrect == Spec => [](TypeOK /\ HistorySound /\ ResolvedMostSpecific)
<1>1. SignalInv => TypeOK /\ HistorySound /\ ResolvedMostSpecific
  <2> SUFFICES ASSUME SignalInv PROVE HistorySound /\ ResolvedMostSpecific
    BY DEF SignalInv
  <2>1. Journalled
    BY DEF SignalInv, TriageInv, JournalOf, Journalled
  <2>2. CreatedOnce
    BY DEF SignalInv, EvalInv
  <2>3. ReplayFaithful
    <3>1. ASSUME NEW k \in Keys, NEW v \in {c[2] : c \in {c \in cites : c[1] = k}} PROVE v = k[2]
      BY <3>1 DEF SignalInv, EvalInv, Cited
    <3> QED BY <3>1 DEF ReplayFaithful, Replayed
  <2>4. ResolvedMostSpecific
    <3>1. lookup \in [at : 0..4, best : 0..3, found : 0..3]
      BY ThreeLevels DEF SignalInv, TypeOK
    <3> QED BY <3>1, ThreeLevels DEF SignalInv, Resolving, ResolvedMostSpecific
  <2> QED BY <2>1, <2>2, <2>3, <2>4 DEF HistorySound
<1> QED BY <1>1, SignalInductive, PTL

\* A signal moves only along the transitions its table allows, whoever reads it when.
THEOREM SignalMovesValid == Spec => ValidMoves
<1>1. ASSUME SignalInv, [Next]_vars
      PROVE  [\A i \in Ids : status[i] # None /\ status'[i] # status[i]
                => <<status[i], status'[i]>> \in VALID_SIGNAL_TRANSITIONS]_status
  <2>0. TypeOK /\ TriageInv /\ EvalInv /\ Origins
    BY <1>1 DEF SignalInv, TriageInv
  <2>1. ASSUME NEW w \in Workers, Evaluate(w), NEW i \in Ids
        PROVE  status'[i] = status[i] \/ status[i] = None
    BY <2>0, <2>1, EvaluateKeepsTriage
  <2>2. ASSUME NEW r \in Reviewers, Triage(r), NEW i \in Ids
        PROVE  status'[i] = status[i] \/ <<status[i], status'[i]>> \in VALID_SIGNAL_TRANSITIONS
    BY <2>0, <2>2, TriageKeeps DEF VALID_SIGNAL_TRANSITIONS
  <2>3. ASSUME NEW s \in Sessions, Feed(s), NEW i \in Ids
        PROVE  status'[i] = status[i] \/ <<status[i], status'[i]>> \in VALID_SIGNAL_TRANSITIONS
    BY <2>0, <2>3, FeedKeeps DEF VALID_SIGNAL_TRANSITIONS
  <2> QED BY <1>1, <2>1, <2>2, <2>3 DEF Next, Resolve, Activate, BeginLookup, ReadLevel, Answer, vars
<1> QED BY <1>1, SignalInductive, PTL DEF Spec, ValidMoves

-----------------------------------------------------------------------------
(* Market events.                                                          *)

CallerRecord == [pc : {"free", "dedup", "insert", "mark", "confirm", "pass", "advance"},
                 filing : {0} \cup Filings, event : {0} \cup Filings,
                 status : {"none"} \cup EventStatuses, missed : SUBSET Filings]

\* What a caller of the store still holds true of what it has read: the event it marks its
\* filing with is there and of the same identity, the one it writes off has closed, and
\* whoever is to insert an event knows of every open one but those it missed.
Calling(c) ==
  /\ caller[c].pc \in {"dedup", "insert", "mark"} => caller[c].filing \in Filings
  /\ caller[c].pc \in {"mark", "confirm", "pass", "advance"} => caller[c].event \in Filings
  /\ caller[c].pc = "mark" => event[caller[c].event] # "none" /\ Near(caller[c].event, caller[c].filing)
  /\ caller[c].pc \in {"confirm", "pass"} => Closes[caller[c].event] <= now
  /\ caller[c].pc = "insert" =>
       \A e \in Filings : event[e] \in Open /\ Near(e, caller[c].filing) => e \in caller[c].missed

EventsInv ==
  /\ MarketTypeOK
  /\ caller \in [Ingesters -> CallerRecord]
  /\ \A c \in Ingesters : Calling(c)
  /\ EventsSound

\* What the store knows of an event is never lost, only moved on, and no event opens again.
Keeps ==
  /\ \A e \in Filings : event[e] # "none" => event'[e] # "none"
  /\ \A e \in Filings : event'[e] \in Open => event[e] \in Open
  /\ now <= now'

\* The path of one event.
Path(h, s) ==
  /\ (s = "none") = (h = <<>>)
  /\ h # <<>> => h[1] \in {"Expected", "Detected"} /\ h[Len(h)] = s
  /\ \A i \in 1..Len(h) - 1 : <<h[i], h[i + 1]>> \in Transitions

\* The statuses, spelt out.
LEMMA StatusesAre ==
  EventStatuses = {"Expected", "Detected", "PassedSilently", "Enriched", "Disputed", "Evaluated", "Closed"}
BY DEF EventStatuses, Transitions

\* What the edges of the status machine have in common.
LEMMA EdgesAre ==
  ASSUME NEW from, NEW to, <<from, to>> \in Transitions
  PROVE  /\ from \in EventStatuses /\ to \in EventStatuses /\ from # "none" /\ to # "none"
         /\ to \in Open => from \in Open
         /\ to = "PassedSilently" => from = "Expected"
<1>1. from \in EventStatuses /\ to \in EventStatuses
  BY DEF EventStatuses
<1> QED BY <1>1, StatusesAre DEF Transitions, Open

\* A path that takes one more edge from where it ends.
LEMMA PathGrows ==
  ASSUME NEW h \in Seq(EventStatuses), NEW from, NEW to, <<from, to>> \in Transitions, Path(h, from)
  PROVE  Append(h, to) \in Seq(EventStatuses) /\ Path(Append(h, to), to)
<1> DEFINE g == Append(h, to)
<1>0. from # "none" /\ to # "none" /\ to \in EventStatuses
  BY EdgesAre
<1>1. h # <<>> /\ h[Len(h)] = from /\ h[1] \in {"Expected", "Detected"}
  BY <1>0 DEF Path
<1>2. /\ g \in Seq(EventStatuses) /\ Len(g) = Len(h) + 1 /\ g[Len(h) + 1] = to
      /\ \A i \in 1..Len(h) : g[i] = h[i]
  BY <1>0
<1>3. Len(h) \in Nat /\ Len(h) # 0
  BY <1>1
<1>4. g # <<>> /\ g[1] = h[1] /\ g[Len(g)] = to
  BY <1>2, <1>3
<1>5. ASSUME NEW i \in 1..Len(g) - 1 PROVE <<g[i], g[i + 1]>> \in Transitions
  <2>1. CASE i = Len(h)
    BY <1>1, <1>2, <1>3, <2>1
  <2>2. CASE i # Len(h)
    <3>1. i \in 1..Len(h) - 1 /\ i \in 1..Len(h) /\ i + 1 \in 1..Len(h)
      BY <1>2, <1>3, <2>2
    <3>2. <<h[i], h[i + 1]>> \in Transitions
      BY <3>1 DEF Path
    <3> QED BY <1>2, <3>1, <3>2
  <2> QED BY <2>1, <2>2
<1> HIDE DEF g
<1>6. Path(g, to)
  BY <1>0, <1>1, <1>4, <1>5 DEF Path
<1> QED BY <1>2, <1>6 DEF g

\* The first status of an event is a path.
LEMMA PathBegins ==
  ASSUME NEW s \in {"Expected", "Detected"}
  PROVE  <<s>> \in Seq(EventStatuses) /\ Path(<<s>>, s)
<1>1. s \in EventStatuses /\ s # "none"
  BY StatusesAre
<1>2. <<s>> # <<>> /\ Len(<<s>>) = 1 /\ <<s>>[1] = s
  OBVIOUS
<1>3. \A i \in 1..Len(<<s>>) - 1 : FALSE
  BY <1>2
<1> DEFINE h == <<s>>
<1>4. h \in Seq(EventStatuses) /\ h # <<>>
  BY <1>1, <1>2
<1>5. Len(h) = 1 /\ h[1] = s
  BY <1>2
<1>6. \A i \in 1..Len(h) - 1 : FALSE
  BY <1>5
<1> HIDE DEF h
<1>7. (s = "none") = FALSE /\ (h = <<>>) = FALSE
  BY <1>1, <1>4
<1>8. Path(h, s)
  BY <1>4, <1>5, <1>6, <1>7 DEF Path
<1> QED BY <1>4, <1>8 DEF h

LEMMA MovesArePaths == MovesOnce <=> \A e \in Filings : Path(told[e], event[e])
BY DEF MovesOnce, Path

\* Identity is symmetric, and a filing is of its own.
LEMMA NearIs == \A e, f \in Filings : Near(f, f) /\ (Near(e, f) <=> Near(f, e))
<1> SUFFICES ASSUME NEW e \in Filings, NEW f \in Filings PROVE Near(f, f) /\ (Near(e, f) <=> Near(f, e))
  OBVIOUS
<1>1. FiledAt[e] \in Nat /\ FiledAt[f] \in Nat /\ DedupWindow \in Nat
  BY MarketAssumption
<1> QED BY <1>1 DEF Near, Abs

\* The effect of a step of one caller on what the others hold.
LEMMA OthersCalling ==
  ASSUME EventsInv, NEW c \in Ingesters, Keeps, now \in Int, now' \in Int,
         \A d \in Ingesters \ {c} : caller'[d] = caller[d]
  PROVE  \A d \in Ingesters \ {c} : Calling(d)'
<1> SUFFICES ASSUME NEW d \in Ingesters \ {c} PROVE Calling(d)'
  OBVIOUS
<1>1. Calling(d) /\ caller[d] \in CallerRecord
  BY DEF EventsInv
<1>2. \A e \in Filings : Closes[e] \in Int
  BY MarketAssumption
<1> QED BY <1>1, <1>2 DEF Calling, Keeps, Near

\* The compare-and-set that every transition of a status is.
LEMMA TransitionKeeps ==
  ASSUME EventsInv, NEW e \in Filings, NEW from, NEW to, Transition(e, from, to), UNCHANGED <<now, filing, rivals>>,
         to = "PassedSilently" => Closes[e] <= now
  PROVE  /\ event' \in [Filings -> EventStatuses \cup {"none"}] /\ told' \in [Filings -> Seq(EventStatuses)]
         /\ Keeps /\ EventsSound'
<1>0. /\ event \in [Filings -> EventStatuses \cup {"none"}] /\ told \in [Filings -> Seq(EventStatuses)] /\ now \in Int
      /\ MovesOnce /\ OneOpenEvent /\ Accounted /\ <<from, to>> \in Transitions
  BY DEF EventsInv, MarketTypeOK, EventsSound, Transition
<1>1. /\ from \in EventStatuses /\ to \in EventStatuses /\ from # "none" /\ to # "none"
      /\ to \in Open => from \in Open
  BY <1>0, EdgesAre
<1>2. /\ event' \in [Filings -> EventStatuses \cup {"none"}]
      /\ \A d \in Filings : event'[d] = event[d] \/ (d = e /\ event[d] = from /\ event'[d] = to)
  BY <1>0, <1>1 DEF Transition
<1>3. Path(told[e], event[e])
  BY <1>0, MovesArePaths
<1>4. event[e] = from => Append(told[e], to) \in Seq(EventStatuses) /\ Path(Append(told[e], to), to)
  BY <1>0, <1>3, PathGrows
<1>5. /\ told' \in [Filings -> Seq(EventStatuses)]
      /\ \A d \in Filings : Path(told'[d], event'[d])
  <2>1. told' \in [Filings -> Seq(EventStatuses)]
    BY <1>0, <1>4 DEF Transition
  <2>2. ASSUME NEW d \in Filings PROVE Path(told'[d], event'[d])
    <3>1. CASE d = e /\ event[e] = from
      <4>1. told'[d] = Append(told[e], to) /\ event'[d] = to
        BY <1>0, <3>1 DEF Transition
      <4> QED BY <1>4, <3>1, <4>1
    <3>2. CASE ~(d = e /\ event[e] = from)
      <4>1. told'[d] = told[d] /\ event'[d] = event[d]
        BY <1>0, <3>2 DEF Transition
      <4> QED BY <1>0, <4>1, MovesArePaths
    <3> QED BY <3>1, <3>2
  <2> QED BY <2>1, <2>2
<1>6. MovesOnce'
  BY <1>5 DEF MovesOnce, Path
<1>7. Keeps
  BY <1>0, <1>1, <1>2 DEF Keeps
<1>8. OneOpenEvent'
  BY <1>0, <1>7 DEF OneOpenEvent, Keeps, Near
<1>9. Accounted'
  <2>1. ASSUME NEW d \in Filings, event'[d] = "PassedSilently" PROVE Closes[d] <= now'
    BY <1>0, <1>2, <2>1 DEF Accounted
  <2>2. ASSUME NEW f \in Filings, filing'[f] = "normalized"
        PROVE  \E d \in Filings : event'[d] # "none" /\ Near(d, f)'
    BY <1>0, <1>7, <2>2 DEF Accounted, Keeps, Near
  <2> QED BY <2>1, <2>2 DEF Accounted, Near
<1> QED BY <1>2, <1>5, <1>6, <1>7, <1>8, <1>9 DEF EventsSound

\* The events and the filings the store is asked for.
LEMMA CallerStep ==
  ASSUME EventsInv, NEW c \in Ingesters, NEW r \in CallerRecord, caller' = [caller EXCEPT ![c] = r]
  PROVE  /\ caller' \in [Ingesters -> CallerRecord] /\ caller'[c] = r
         /\ \A d \in Ingesters \ {c} : caller'[d] = caller[d]
BY DEF EventsInv

\* A caller that is free again holds nothing.
LEMMA FreeRecord == Free \in CallerRecord /\ Free.pc = "free"
BY DEF Free, CallerRecord

\* An event is inserted: whoever else is about to insert one misses it.
LEMMA InsertKeeps ==
  ASSUME EventsInv, NEW c \in Ingesters, InsertMarketEvent(c)
  PROVE  EventsInv'
<1> DEFINE f == caller[c].filing
           s == IF Closes[f] > 0 THEN "Expected" ELSE "Detected"
           fresh == event[f] = "none"
<1>0. /\ filing \in [Filings -> {"none", "raw", "normalized"}]
      /\ event \in [Filings -> EventStatuses \cup {"none"}] /\ told \in [Filings -> Seq(EventStatuses)]
      /\ now \in 0..MaxNow /\ now \in Int
      /\ caller \in [Ingesters -> CallerRecord] /\ caller[c] \in CallerRecord /\ Calling(c)
      /\ MovesOnce /\ OneOpenEvent /\ Accounted
  BY MarketAssumption DEF EventsInv, MarketTypeOK, EventsSound
<1>1. f \in Filings /\ caller[c].pc = "insert" /\ UNCHANGED <<filing, now>> /\ s \in {"Expected", "Detected"}
      /\ s # "none" /\ s # "PassedSilently" /\ s \in EventStatuses
  BY <1>0, StatusesAre DEF InsertMarketEvent, Calling
<1>2. /\ event' = [event EXCEPT ![f] = IF fresh THEN s ELSE event[f]]
      /\ told' = [told EXCEPT ![f] = IF fresh THEN <<s>> ELSE told[f]]
      /\ rivals' = rivals \cup {{f, e} : e \in IF fresh THEN caller[c].missed ELSE {}}
  BY DEF InsertMarketEvent
<1>3. caller' = [d \in Ingesters |->
        IF d = c THEN [caller[c] EXCEPT !.pc = "mark", !.event = f, !.missed = {}]
        ELSE IF fresh /\ caller[d].pc = "insert" THEN [caller[d] EXCEPT !.missed = @ \cup {f}]
        ELSE caller[d]]
  BY DEF InsertMarketEvent
<1> HIDE DEF f, s, fresh
<1>4. /\ event' \in [Filings -> EventStatuses \cup {"none"}]
      /\ \A e \in Filings : event'[e] = event[e] \/ (e = f /\ fresh /\ event'[e] = s)
      /\ event'[f] # "none"
  BY <1>0, <1>1, <1>2 DEF fresh
<1>5. <<s>> \in Seq(EventStatuses) /\ Path(<<s>>, s)
  BY <1>1, PathBegins
<1>6. told' \in [Filings -> Seq(EventStatuses)] /\ \A e \in Filings : Path(told'[e], event'[e])
  <2>1. told' \in [Filings -> Seq(EventStatuses)]
    BY <1>0, <1>2, <1>5
  <2>2. ASSUME NEW e \in Filings PROVE Path(told'[e], event'[e])
    <3>1. CASE e = f /\ fresh
      <4>1. told'[e] = <<s>> /\ event'[e] = s
        BY <1>0, <1>1, <1>2, <3>1
      <4> QED BY <1>5, <4>1
    <3>2. CASE ~(e = f /\ fresh)
      <4>1. told'[e] = told[e] /\ event'[e] = event[e]
        BY <1>0, <1>1, <1>2, <3>2
      <4> QED BY <1>0, <4>1, MovesArePaths
    <3> QED BY <3>1, <3>2
  <2> QED BY <2>1, <2>2
<1>7. MovesOnce'
  BY <1>6 DEF MovesOnce, Path
<1>8. OneOpenEvent'
  <2> SUFFICES ASSUME NEW d \in Filings, NEW e \in Filings, d # e, event'[d] \in Open, event'[e] \in Open, Near(d, e)
               PROVE  {d, e} \in rivals'
    BY DEF OneOpenEvent, Near
  <2>1. CASE event'[d] = event[d] /\ event'[e] = event[e]
    <3>1. {d, e} \in rivals
      BY <1>0, <2>1 DEF OneOpenEvent
    <3> QED BY <1>2, <3>1
  <2>2. CASE d = f /\ fresh /\ event'[e] = event[e]
    <3>1. e \in caller[c].missed
      BY <1>0, <1>1, <2>2, NearIs DEF Calling, f
    <3> QED BY <1>2, <2>2, <3>1
  <2>3. CASE e = f /\ fresh /\ event'[d] = event[d]
    <3>1. d \in caller[c].missed
      BY <1>0, <1>1, <2>3 DEF Calling, f
    <3>2. {f, d} \in rivals' /\ {f, d} = {d, e}
      BY <1>2, <2>3, <3>1
    <3> QED BY <3>2
  <2> QED BY <1>4, <2>1, <2>2, <2>3
<1>9. Accounted'
  <2>1. ASSUME NEW e \in Filings, event'[e] = "PassedSilently" PROVE Closes[e] <= now'
    BY <1>0, <1>1, <1>4, <2>1 DEF Accounted
  <2>2. ASSUME NEW g \in Filings, filing'[g] = "normalized"
        PROVE  \E d \in Filings : event'[d] # "none" /\ Near(d, g)'
    BY <1>0, <1>1, <1>4, <2>2 DEF Accounted, Near
  <2> QED BY <2>1, <2>2 DEF Accounted, Near
<1>10. caller' \in [Ingesters -> CallerRecord]
  <2>1. ASSUME NEW d \in Ingesters PROVE caller'[d] \in CallerRecord
    <3>1. caller[d] \in CallerRecord /\ f \in Filings
      BY <1>0, <1>1
    <3>2. [caller[c] EXCEPT !.pc = "mark", !.event = f, !.missed = {}] \in CallerRecord
      BY <1>0, <1>1 DEF CallerRecord
    <3>3. [caller[d] EXCEPT !.missed = @ \cup {f}] \in CallerRecord
      BY <3>1 DEF CallerRecord
    <3> QED BY <1>3, <3>1, <3>2, <3>3
  <2> QED BY <1>3, <2>1
<1>11. ASSUME NEW d \in Ingesters PROVE Calling(d)'
  <2>0. caller[d] \in CallerRecord /\ Calling(d)
    BY <1>0 DEF EventsInv
  <2>1. CASE d = c
    <3>1. caller'[d].pc = "mark" /\ caller'[d].event = f /\ caller'[d].filing = f
      BY <1>0, <1>3, <2>1 DEF CallerRecord, f
    <3> QED BY <1>1, <1>4, <3>1, NearIs DEF Calling, Near
  <2>2. CASE d # c /\ fresh /\ caller[d].pc = "insert"
    <3>1. /\ caller'[d].pc = "insert" /\ caller'[d].filing = caller[d].filing
          /\ caller'[d].missed = caller[d].missed \cup {f}
      BY <1>3, <2>0, <2>2 DEF CallerRecord
    <3>2. ASSUME NEW e \in Filings, event'[e] \in Open, Near(e, caller[d].filing) PROVE e \in caller'[d].missed
      <4>1. CASE e = f
        BY <3>1, <4>1
      <4>2. CASE e # f
        <5>1. event[e] \in Open
          BY <1>4, <3>2, <4>2
        <5> QED BY <2>0, <2>2, <3>1, <3>2, <5>1 DEF Calling
      <4> QED BY <4>1, <4>2
    <3> QED BY <2>0, <2>2, <3>1, <3>2 DEF Calling, Near
  <2>3. CASE d # c /\ ~(fresh /\ caller[d].pc = "insert")
    <3>1. caller'[d] = caller[d]
      BY <1>3, <2>3
    <3>2. \A e \in Filings : event[e] # "none" => event'[e] # "none"
      BY <1>1, <1>4
    <3>3. CASE caller[d].pc = "insert"
      <4>1. \A e \in Filings : event'[e] = event[e]
        BY <1>4, <2>3, <3>3
      <4> QED BY <2>0, <3>1, <3>3, <4>1 DEF Calling, Near
    <3>4. CASE caller[d].pc # "insert"
      BY <1>1, <2>0, <3>1, <3>2, <3>4 DEF Calling, Near
    <3> QED BY <3>3, <3>4
  <2> QED BY <2>1, <2>2, <2>3
<1> QED BY <1>0, <1>1, <1>4, <1>6, <1>7, <1>8, <1>9, <1>10, <1>11 DEF EventsInv, MarketTypeOK, EventsSound

\* The inductive invariant is kept by every step of one caller.
LEMMA CallerKeeps ==
  ASSUME EventsInv, NEW c \in Ingesters,
         \/ \E f \in Filings : InsertRawFiling(c, f)
         \/ DedupByIdentity(c) \/ InsertMarketEvent(c) \/ MarkFilingNormalized(c)
         \/ ListExpired(c) \/ ConfirmSilent(c) \/ TransitionToPassedSilently(c)
         \/ ReadEvent(c) \/ Advance(c) \/ CallerDies(c)
  PROVE  EventsInv'
<1>0. /\ filing \in [Filings -> {"none", "raw", "normalized"}]
      /\ event \in [Filings -> EventStatuses \cup {"none"}] /\ told \in [Filings -> Seq(EventStatuses)]
      /\ now \in 0..MaxNow /\ now \in Int /\ MaxNow \in Nat
      /\ caller \in [Ingesters -> CallerRecord] /\ caller[c] \in CallerRecord /\ Calling(c)
      /\ EventsSound /\ Accounted
  BY MarketAssumption DEF EventsInv, MarketTypeOK, EventsSound
\* A step that changes neither events nor clock, and no filing to normalised.
<1>1. ASSUME NEW r \in CallerRecord, caller' = [caller EXCEPT ![c] = r], UNCHANGED <<event, now, told, rivals>>,
             Calling(c)', filing' \in [Filings -> {"none", "raw", "normalized"}],
             \A f \in Filings : filing'[f] = "normalized" =>
               filing[f] = "normalized" \/ \E e \in Filings : event[e] # "none" /\ Near(e, f)
      PROVE  EventsInv'
  <2>1. Keeps
    BY <1>0, <1>1 DEF Keeps
  <2>2. caller' \in [Ingesters -> CallerRecord] /\ \A d \in Ingesters : Calling(d)'
    BY <1>0, <1>1, <2>1, CallerStep, OthersCalling
  <2>3. MarketTypeOK'
    BY <1>0, <1>1 DEF MarketTypeOK
  <2>4. Accounted'
    BY <1>0, <1>1 DEF Accounted, Near
  <2>5. MovesOnce' /\ OneOpenEvent'
    BY <1>0, <1>1 DEF EventsSound, MovesOnce, OneOpenEvent, Near
  <2> QED BY <2>2, <2>3, <2>4, <2>5 DEF EventsInv, EventsSound
\* A transition: the caller is free afterwards.
<1>2. ASSUME NEW e \in Filings, NEW from, NEW to, Transition(e, from, to), UNCHANGED <<now, filing, rivals>>,
             to = "PassedSilently" => Closes[e] <= now, caller' = [caller EXCEPT ![c] = Free]
      PROVE  EventsInv'
  <2>1. /\ event' \in [Filings -> EventStatuses \cup {"none"}] /\ told' \in [Filings -> Seq(EventStatuses)]
        /\ Keeps /\ EventsSound'
    BY <1>2, TransitionKeeps
  <2>2. /\ caller' \in [Ingesters -> CallerRecord] /\ caller'[c] = Free
        /\ \A d \in Ingesters \ {c} : caller'[d] = caller[d]
    BY <1>2, CallerStep, FreeRecord
  <2>3. \A d \in Ingesters : Calling(d)'
    BY <1>0, <1>2, <2>1, <2>2, OthersCalling, FreeRecord DEF Calling
  <2>4. MarketTypeOK'
    BY <1>0, <1>2, <2>1 DEF MarketTypeOK
  <2> QED BY <2>1, <2>2, <2>3, <2>4 DEF EventsInv
<1>3. CASE \E f \in Filings : InsertRawFiling(c, f)
  <2>1. PICK f \in Filings : InsertRawFiling(c, f)
    BY <1>3
  <2>2. PICK r \in CallerRecord : r = [Free EXCEPT !.pc = "dedup", !.filing = f]
    BY DEF Free, CallerRecord
  <2>3. r.pc = "dedup" /\ r.filing = f
    BY <2>2 DEF Free
  <2>4. caller' = [caller EXCEPT ![c] = r] /\ UNCHANGED <<event, now, told, rivals>>
    BY <2>1, <2>2 DEF InsertRawFiling
  <2>5. Calling(c)'
    BY <1>0, <2>3, <2>4 DEF Calling
  <2>6. filing' \in [Filings -> {"none", "raw", "normalized"}]
        /\ \A g \in Filings : filing'[g] = "normalized" => filing[g] = "normalized"
    BY <1>0, <2>1 DEF InsertRawFiling
  <2> QED BY <1>1, <2>4, <2>5, <2>6
<1>4. CASE DedupByIdentity(c)
  <2> DEFINE f == caller[c].filing
  <2>1. f \in Filings /\ UNCHANGED <<filing, event, now, told, rivals>>
    BY <1>0, <1>4 DEF DedupByIdentity, Calling
  <2>2. CASE SameEvent(f) = {}
    <3>1. PICK r \in CallerRecord : r = [caller[c] EXCEPT !.pc = "insert"]
      BY <1>0 DEF CallerRecord
    <3>2. r.pc = "insert" /\ r.filing = f
      BY <1>0, <3>1 DEF CallerRecord
    <3>3. caller' = [caller EXCEPT ![c] = r]
      BY <1>0, <1>4, <2>2, <3>1 DEF DedupByIdentity
    <3>4. \A e \in Filings : ~(event[e] \in Open /\ Near(e, f))
      BY <2>2 DEF SameEvent
    <3>5. Calling(c)'
      BY <1>0, <2>1, <3>2, <3>3, <3>4 DEF Calling, Near
    <3> QED BY <1>0, <1>1, <2>1, <3>3, <3>5
  <2>3. CASE SameEvent(f) # {}
    <3>1. PICK e \in Nearest(f) : caller' = [caller EXCEPT ![c].pc = "mark", ![c].event = e]
      BY <1>4, <2>3 DEF DedupByIdentity
    <3>2. e \in Filings /\ event[e] # "none" /\ Near(e, f)
      BY <3>1 DEF Nearest, SameEvent, Open
    <3>3. PICK r \in CallerRecord : r = [caller[c] EXCEPT !.pc = "mark", !.event = e]
      BY <1>0, <3>2 DEF CallerRecord
    <3>4. r.pc = "mark" /\ r.filing = f /\ r.event = e
      BY <1>0, <3>3 DEF CallerRecord
    <3>5. caller' = [caller EXCEPT ![c] = r]
      BY <1>0, <3>1, <3>3
    <3>6. Calling(c)'
      BY <1>0, <2>1, <3>2, <3>4, <3>5 DEF Calling, Near
    <3> QED BY <1>0, <1>1, <2>1, <3>5, <3>6
  <2> QED BY <2>2, <2>3
<1>5. CASE InsertMarketEvent(c)
  BY <1>5, InsertKeeps
<1>6. CASE MarkFilingNormalized(c)
  <2> DEFINE f == caller[c].filing
  <2>1. /\ f \in Filings /\ caller[c].event \in Filings /\ UNCHANGED <<event, now, told, rivals>>
        /\ event[caller[c].event] # "none" /\ Near(caller[c].event, f)
    BY <1>0, <1>6 DEF MarkFilingNormalized, Calling
  <2>2. filing' = [filing EXCEPT ![f] = IF filing[f] = "raw" THEN "normalized" ELSE filing[f]]
    BY <1>6 DEF MarkFilingNormalized
  <2>3. /\ filing' \in [Filings -> {"none", "raw", "normalized"}]
        /\ \A g \in Filings : filing'[g] = "normalized" => filing[g] = "normalized" \/ g = f
    BY <1>0, <2>2
  <2>4. \A g \in Filings : filing'[g] = "normalized" =>
          filing[g] = "normalized" \/ \E e \in Filings : event[e] # "none" /\ Near(e, g)
    BY <2>1, <2>3
  <2>5. caller' = [caller EXCEPT ![c] = Free]
    BY <1>6 DEF MarkFilingNormalized
  <2>6. Calling(c)'
    BY <1>0, <2>5, FreeRecord DEF Calling
  <2> QED BY <1>1, <2>1, <2>3, <2>4, <2>5, <2>6, FreeRecord
<1>7. CASE ListExpired(c)
  <2>1. PICK e \in Filings : event[e] = "Expected" /\ Closes[e] <= now
            /\ caller' = [caller EXCEPT ![c] = [Free EXCEPT !.pc = "confirm", !.event = e]]
    BY <1>7 DEF ListExpired
  <2>2. PICK r \in CallerRecord : r = [Free EXCEPT !.pc = "confirm", !.event = e]
    BY DEF Free, CallerRecord
  <2>3. r.pc = "confirm" /\ r.event = e
    BY <2>2 DEF Free
  <2>4. caller' = [caller EXCEPT ![c] = r] /\ UNCHANGED <<filing, event, now, told, rivals>>
    BY <1>7, <2>1, <2>2 DEF ListExpired
  <2>5. Calling(c)'
    BY <1>0, <2>1, <2>3, <2>4 DEF Calling
  <2> QED BY <1>0, <1>1, <2>4, <2>5
<1>8. CASE ConfirmSilent(c)
  <2>0. caller[c].event \in Filings /\ Closes[caller[c].event] <= now /\ UNCHANGED <<filing, event, now, told, rivals>>
    BY <1>0, <1>8 DEF ConfirmSilent, Calling
  <2>1. PICK r \in CallerRecord : r = [caller[c] EXCEPT !.pc = "pass"]
    BY <1>0 DEF CallerRecord
  <2>2. r.pc = "pass" /\ r.event = caller[c].event
    BY <1>0, <2>1 DEF CallerRecord
  <2>3. caller' = [caller EXCEPT ![c] = Free] \/ caller' = [caller EXCEPT ![c] = r]
    BY <1>0, <1>8, <2>1 DEF ConfirmSilent
  <2>4. CASE caller' = [caller EXCEPT ![c] = Free]
    <3>1. Calling(c)'
      BY <1>0, <2>4, FreeRecord DEF Calling
    <3> QED BY <1>0, <1>1, <2>0, <2>4, <3>1, FreeRecord
  <2>5. CASE caller' = [caller EXCEPT ![c] = r]
    <3>1. Calling(c)'
      BY <1>0, <2>0, <2>2, <2>5 DEF Calling
    <3> QED BY <1>0, <1>1, <2>0, <2>5, <3>1
  <2> QED BY <2>3, <2>4, <2>5
<1>9. CASE TransitionToPassedSilently(c)
  <2>1. caller[c].event \in Filings /\ Closes[caller[c].event] <= now
    BY <1>0, <1>9 DEF TransitionToPassedSilently, Calling
  <2> QED BY <1>2, <1>9, <2>1 DEF TransitionToPassedSilently
<1>10. CASE ReadEvent(c)
  <2>1. PICK e \in Filings : event[e] \in {t[1] : t \in Transitions}
            /\ caller' = [caller EXCEPT ![c] = [Free EXCEPT !.pc = "advance", !.event = e, !.status = event[e]]]
    BY <1>10 DEF ReadEvent
  <2>2. event[e] \in {"none"} \cup EventStatuses
    BY <1>0, <2>1
  <2>3. PICK r \in CallerRecord : r = [Free EXCEPT !.pc = "advance", !.event = e, !.status = event[e]]
    BY <2>1, <2>2 DEF Free, CallerRecord
  <2>4. r.pc = "advance" /\ r.event = e
    BY <2>1, <2>3 DEF Free
  <2>5. caller' = [caller EXCEPT ![c] = r] /\ UNCHANGED <<filing, event, now, told, rivals>>
    BY <1>10, <2>1, <2>3 DEF ReadEvent
  <2>6. Calling(c)'
    BY <1>0, <2>4, <2>5 DEF Calling
  <2> QED BY <1>0, <1>1, <2>5, <2>6
<1>11. CASE Advance(c)
  <2>1. caller[c].event \in Filings
    BY <1>0, <1>11 DEF Advance, Calling
  <2>2. PICK to \in EventStatuses \ {"PassedSilently"} : Transition(caller[c].event, caller[c].status, to)
    BY <1>11 DEF Advance
  <2> QED BY <1>2, <1>11, <2>1, <2>2 DEF Advance
<1>12. CASE CallerDies(c)
  <2>1. caller' = [caller EXCEPT ![c] = Free] /\ UNCHANGED <<filing, event, now, told, rivals>>
    BY <1>12 DEF CallerDies
  <2>2. Calling(c)'
    BY <1>0, <2>1, FreeRecord DEF Calling
  <2> QED BY <1>0, <1>1, <2>1, <2>2, FreeRecord
<1> QED BY <1>3, <1>4, <1>5, <1>6, <1>7, <1>8, <1>9, <1>10, <1>11, <1>12

\* Over all behaviours: the callers' knowledge of the store stays true.
THEOREM EventsInductive == MarketSpec => []EventsInv
<1>1. MarketInit => EventsInv
  <2> SUFFICES ASSUME MarketInit PROVE EventsInv
    OBVIOUS
  <2>1. 0 \in 0..MaxNow
    BY MarketAssumption
  <2>2. MarketTypeOK
    BY <2>1 DEF MarketInit, MarketTypeOK
  <2>3. \A e \in Filings : event[e] = "none" /\ told[e] = <<>> /\ filing[e] = "none"
    BY DEF MarketInit
  <2>4. \A i \in 1..Len(<<>>) - 1 : FALSE
    OBVIOUS
  <2>5. MovesOnce
    BY <2>3, <2>4 DEF MovesOnce
  <2>6. OneOpenEvent /\ Accounted
    BY <2>3 DEF OneOpenEvent, Accounted, Open
  <2> QED BY <2>2, <2>5, <2>6, FreeRecord DEF MarketInit, EventsInv, Calling, EventsSound
<1>2. EventsInv /\ [MarketNext]_marketVars => EventsInv'
  <2> SUFFICES ASSUME EventsInv, [MarketNext]_marketVars PROVE EventsInv'
    OBVIOUS
  <2>1. CASE TimePasses
    <3>1. now \in Int /\ now' = now + 1 /\ now' \in 0..MaxNow /\ UNCHANGED <<filing, event, caller, told, rivals>>
      BY <2>1, MarketAssumption DEF TimePasses, EventsInv, MarketTypeOK
    <3>2. \A e \in Filings : Closes[e] \in Int
      BY MarketAssumption
    <3>3. \A c \in Ingesters : Calling(c)'
      BY <3>1, <3>2 DEF EventsInv, Calling, CallerRecord, Near
    <3>4. EventsSound'
      BY <3>1, <3>2 DEF EventsInv, EventsSound, MovesOnce, OneOpenEvent, Accounted, Near
    <3> QED BY <3>1, <3>3, <3>4 DEF EventsInv, MarketTypeOK
  <2>2. CASE UNCHANGED marketVars
    BY <2>2 DEF marketVars, EventsInv, MarketTypeOK, Calling, EventsSound, MovesOnce, OneOpenEvent, Accounted, Near
  <2> QED BY <2>1, <2>2, CallerKeeps DEF MarketNext
<1> QED BY <1>1, <1>2, PTL DEF MarketSpec

\* The moves of an event are one path, open events of one identity are those of callers that
\* missed each other, and an event passes in silence only when its window is over.
THEOREM EventsCorrect == MarketSpec => [](MarketTypeOK /\ EventsSound)
<1>1. EventsInv => MarketTypeOK /\ EventsSound
  BY DEF EventsInv
<1> QED BY <1>1, EventsInductive, PTL

-----------------------------------------------------------------------------
(* The journal, its streams and the archive.                               *)

RunRecord == [todo : SUBSET Alerts, at : {"list", "put", "row", "mark"}]

\* A run that is about to write the manifest has put the object; one that is about to mark the
\* alert has done both.
Archiving(r) ==
  /\ archiver[r].at \in {"row", "mark"} => archiver[r].todo # {} /\ AtAlert(r) \in objects
  /\ archiver[r].at = "mark" => AtAlert(r) \in manifest

ArchiveInv ==
  /\ objects \subseteq Alerts /\ manifest \subseteq Alerts
  /\ alert \in [Alerts -> {"notified", "archived", "cold"}]
  /\ archiver \in [Archivers -> RunRecord]
  /\ \A r \in Archivers : Archiving(r)
  /\ ColdComplete

\* The steps of one run of archiveColdAlerts.
ArchiverStep(r) ==
  ListCold(r) \/ PutObject(r) \/ InsertManifest(r) \/ MarkCold(r) \/ SkipAlert(r) \/ ArchiverDies(r)

\* A run between alerts, whatever its list.
LEMMA NextRecord ==
  ASSUME ArchiveInv, NEW r \in Archivers, NextAlert(r)
  PROVE  /\ archiver' \in [Archivers -> RunRecord] /\ archiver'[r].at \in {"list", "put"}
         /\ \A q \in Archivers \ {r} : archiver'[q] = archiver[q]
<1>1. archiver \in [Archivers -> RunRecord] /\ archiver[r] \in RunRecord
  BY DEF ArchiveInv
<1>2. PICK n \in RunRecord :
        n = IF Cardinality(archiver[r].todo) <= 1 THEN Done
            ELSE [todo |-> archiver[r].todo \ {AtAlert(r)}, at |-> "put"]
  BY <1>1 DEF RunRecord, Done
<1>3. n.at \in {"list", "put"}
  BY <1>2 DEF Done
<1>4. archiver' = [archiver EXCEPT ![r] = n]
  BY <1>1, <1>2 DEF NextAlert
<1> QED BY <1>1, <1>3, <1>4

\* What each step of a run does: it keeps its own bookkeeping, adds objects and manifest rows
\* only, and marks an alert only if both are there.
LEMMA ArchiverEffect ==
  ASSUME ArchiveInv, NEW r \in Archivers, ArchiverStep(r)
  PROVE  /\ archiver' \in [Archivers -> RunRecord]
         /\ \A q \in Archivers \ {r} : archiver'[q] = archiver[q]
         /\ objects \subseteq objects' /\ objects' \subseteq Alerts
         /\ manifest \subseteq manifest' /\ manifest' \subseteq Alerts
         /\ alert' \in [Alerts -> {"notified", "archived", "cold"}]
         /\ \A a \in Alerts : alert'[a] = "cold" => alert[a] = "cold" \/ (a \in objects /\ a \in manifest)
         /\ Archiving(r)'
<1>1. /\ archiver \in [Archivers -> RunRecord] /\ archiver[r] \in RunRecord /\ Archiving(r)
      /\ objects \subseteq Alerts /\ manifest \subseteq Alerts
      /\ alert \in [Alerts -> {"notified", "archived", "cold"}]
  BY DEF ArchiveInv
<1>2. archiver[r].todo # {} => AtAlert(r) \in archiver[r].todo /\ AtAlert(r) \in Alerts
  BY <1>1 DEF AtAlert, RunRecord
<1>3. CASE ListCold(r)
  <2>1. PICK n \in RunRecord : n = [todo |-> {a \in Alerts : alert[a] = "archived"}, at |-> "put"]
    BY DEF RunRecord
  <2>2. n.at = "put" /\ archiver' = [archiver EXCEPT ![r] = n]
    BY <1>3, <2>1 DEF ListCold
  <2> QED BY <1>1, <1>3, <2>2 DEF ListCold, Archiving
<1>4. CASE PutObject(r)
  <2>1. CASE archiver[r].todo = {}
    <3>1. Done \in RunRecord /\ Done.at = "list"
      BY DEF Done, RunRecord
    <3>2. archiver' = [archiver EXCEPT ![r] = Done] /\ UNCHANGED <<objects, manifest, alert>>
      BY <1>4, <2>1 DEF PutObject
    <3> QED BY <1>1, <3>1, <3>2 DEF Archiving
  <2>2. CASE archiver[r].todo # {}
    <3>1. PICK n \in RunRecord : n = [archiver[r] EXCEPT !.at = "row"]
      BY <1>1 DEF RunRecord
    <3>2. n.at = "row" /\ n.todo = archiver[r].todo
      BY <1>1, <3>1 DEF RunRecord
    <3>3. archiver' = [archiver EXCEPT ![r] = n] /\ objects' = objects \cup {AtAlert(r)} /\ UNCHANGED <<manifest, alert>>
      BY <1>4, <2>2, <3>1 DEF PutObject
    <3>4. archiver'[r] = n
      BY <1>1, <3>3
    <3>5. AtAlert(r)' = AtAlert(r)
      BY <3>2, <3>4 DEF AtAlert
    <3>6. Archiving(r)'
      BY <2>2, <3>2, <3>3, <3>4, <3>5 DEF Archiving
    <3> QED BY <1>1, <1>2, <2>2, <3>3, <3>6
  <2> QED BY <2>1, <2>2
<1>5. CASE InsertManifest(r)
  <2>1. PICK n \in RunRecord : n = [archiver[r] EXCEPT !.at = "mark"]
    BY <1>1 DEF RunRecord
  <2>2. n.at = "mark" /\ n.todo = archiver[r].todo
    BY <1>1, <2>1 DEF RunRecord
  <2>3. archiver' = [archiver EXCEPT ![r] = n] /\ manifest' = manifest \cup {AtAlert(r)} /\ UNCHANGED <<objects, alert>>
    BY <1>5, <2>1 DEF InsertManifest
  <2>4. archiver'[r] = n
    BY <1>1, <2>3
  <2>5. AtAlert(r)' = AtAlert(r)
    BY <2>2, <2>4 DEF AtAlert
  <2>6. archiver[r].todo # {} /\ AtAlert(r) \in objects
    BY <1>1, <1>5 DEF Archiving, InsertManifest
  <2>7. Archiving(r)'
    BY <2>2, <2>3, <2>4, <2>5, <2>6 DEF Archiving
  <2> QED BY <1>1, <1>2, <2>3, <2>6, <2>7
<1>6. CASE MarkCold(r)
  <2>1. alert' = [alert EXCEPT ![AtAlert(r)] = "cold"] /\ NextAlert(r) /\ UNCHANGED <<objects, manifest>>
    BY <1>6 DEF MarkCold
  <2>2. AtAlert(r) \in objects /\ AtAlert(r) \in manifest
    BY <1>1, <1>6 DEF Archiving, MarkCold
  <2>3. Archiving(r)'
    BY <2>1, NextRecord DEF Archiving
  <2> QED BY <1>1, <2>1, <2>2, <2>3, NextRecord
<1>7. CASE SkipAlert(r)
  <2>1. NextAlert(r) /\ UNCHANGED <<objects, manifest, alert>>
    BY <1>7 DEF SkipAlert
  <2>2. Archiving(r)'
    BY <2>1, NextRecord DEF Archiving
  <2> QED BY <1>1, <2>1, <2>2, NextRecord
<1>8. CASE ArchiverDies(r)
  <2>1. Done \in RunRecord /\ Done.at = "list"
    BY DEF Done, RunRecord
  <2>2. archiver' = [archiver EXCEPT ![r] = Done] /\ UNCHANGED <<objects, manifest, alert>>
    BY <1>8 DEF ArchiverDies
  <2> QED BY <1>1, <2>1, <2>2 DEF Archiving
<1> QED BY <1>3, <1>4, <1>5, <1>6, <1>7, <1>8 DEF ArchiverStep

\* Runs may overlap: what one of them does never undoes what another has seen done.
LEMMA ArchiverKeeps ==
  ASSUME ArchiveInv, NEW r \in Archivers, ArchiverStep(r)
  PROVE  ArchiveInv'
<1>1. /\ archiver' \in [Archivers -> RunRecord] /\ Archiving(r)'
      /\ \A q \in Archivers \ {r} : archiver'[q] = archiver[q]
      /\ objects \subseteq objects' /\ objects' \subseteq Alerts
      /\ manifest \subseteq manifest' /\ manifest' \subseteq Alerts
      /\ alert' \in [Alerts -> {"notified", "archived", "cold"}]
      /\ \A a \in Alerts : alert'[a] = "cold" => alert[a] = "cold" \/ (a \in objects /\ a \in manifest)
  BY ArchiverEffect
<1>2. ASSUME NEW q \in Archivers \ {r} PROVE Archiving(q)'
  <2>1. Archiving(q) /\ archiver'[q] = archiver[q]
    BY <1>1 DEF ArchiveInv
  <2>2. AtAlert(q)' = AtAlert(q)
    BY <2>1 DEF AtAlert
  <2> QED BY <1>1, <2>1, <2>2 DEF Archiving
<1>3. ColdComplete'
  BY <1>1 DEF ArchiveInv, ColdComplete
<1> QED BY <1>1, <1>2, <1>3 DEF ArchiveInv

\* The inductive invariant: it holds at first and every step keeps it.
THEOREM ArchiveInductive == ReplaySpec => []ArchiveInv
<1>1. ReplayInit => ArchiveInv
  BY DEF ReplayInit, ArchiveInv, Archiving, ColdComplete, Done, RunRecord
<1>2. ArchiveInv /\ [ReplayNext]_replayVars => ArchiveInv'
  <2> SUFFICES ASSUME ArchiveInv, [ReplayNext]_replayVars PROVE ArchiveInv'
    OBVIOUS
  <2>1. ASSUME NEW a \in Alerts, AlertArchived(a) PROVE ArchiveInv'
    <3>1. UNCHANGED <<objects, manifest, archiver>> /\ alert' = [alert EXCEPT ![a] = "archived"]
      BY <2>1 DEF AlertArchived
    <3>2. \A r \in Archivers : AtAlert(r)' = AtAlert(r)
      BY <3>1 DEF AtAlert
    <3> QED BY <3>1, <3>2 DEF ArchiveInv, Archiving, ColdComplete
  <2>2. ASSUME UNCHANGED <<alert, objects, manifest, archiver>> PROVE ArchiveInv'
    <3>1. \A r \in Archivers : AtAlert(r)' = AtAlert(r)
      BY <2>2 DEF AtAlert
    <3> QED BY <2>2, <3>1 DEF ArchiveInv, Archiving, ColdComplete
  <2>3. ASSUME NEW r \in Archivers,
               ListCold(r) \/ PutObject(r) \/ InsertManifest(r) \/ MarkCold(r) \/ SkipAlert(r) \/ ArchiverDies(r)
        PROVE  ArchiveInv'
    BY <2>3, ArchiverKeeps DEF ArchiverStep
  <2>4. \/ \E a \in Alerts : AlertArchived(a)
        \/ UNCHANGED <<alert, objects, manifest, archiver>>
        \/ \E r \in Archivers : ListCold(r) \/ PutObject(r) \/ InsertManifest(r) \/ MarkCold(r)
                                \/ SkipAlert(r) \/ ArchiverDies(r)
    BY DEF ReplayNext, WriteJournalEvent, OpenStream, StreamTick, CloseStream, replayVars
  <2> QED BY <2>1, <2>2, <2>3, <2>4
<1> QED BY <1>1, <1>2, PTL DEF ReplaySpec

\* An alert that is marked cold has its copy in the store and its row in the manifest.
THEOREM ColdCorrect == ReplaySpec => []ColdComplete
<1>1. ArchiveInv => ColdComplete
  BY DEF ArchiveInv
<1> QED BY <1>1, ArchiveInductive, PTL

\* A set of numbers has a least one.
LEMMA LeastIs ==
  ASSUME NEW I \in SUBSET Nat, I # {}
  PROVE  \E x \in I : \A y \in I : x <= y
<1>1. PICK R : R = OpToRel(<, Nat)
  OBVIOUS
<1>2. IsWellFoundedOn(R, Nat)
  BY <1>1, NatLessThanWellFounded
<1>3. PICK x \in I : \A y \in I : <<y, x>> \notin R
  BY <1>2, WFMin
<1>4. \A y \in Nat, z \in Nat : y < z => <<y, z>> \in R
  BY <1>1 DEF OpToRel
<1>5. \A y \in I : ~(y < x)
  BY <1>3, <1>4
<1>6. \A y \in I : x <= y
  BY <1>5
<1> QED BY <1>6

\* Among finitely many positions there is an n-th, for every n up to their number: the least
\* bound below which there are n of them is one of them.
LEMMA NthIs ==
  ASSUME NEW k \in Nat, NEW S \in SUBSET (1..k), NEW n \in 1..Cardinality(S)
  PROVE  \E i \in S : Cardinality({j \in S : j <= i}) = n
<1> DEFINE Below(m) == {j \in S : j <= m}
<1>1. S \subseteq 1..k /\ S \subseteq Nat /\ k \in Nat
  <2>1. 1..k \subseteq Nat
    OBVIOUS
  <2> QED BY <2>1
<1>2. IsFiniteSet(S) /\ Cardinality(S) \in Nat
  <2>1. IsFiniteSet(1..k)
    BY FS_Interval
  <2>2. IsFiniteSet(S)
    BY <1>1, <2>1, FS_Subset
  <2> QED BY <2>2, FS_CardinalityType
<1>3. ASSUME NEW m PROVE IsFiniteSet(Below(m)) /\ Cardinality(Below(m)) \in Nat
  <2>1. Below(m) \subseteq S
    OBVIOUS
  <2> QED BY <1>2, <2>1, FS_Subset, FS_CardinalityType
<1>4. n \in Nat /\ 1 <= n /\ n <= Cardinality(S)
  BY <1>2
<1>5. PICK m \in Nat : Cardinality(Below(m)) >= n /\ \A l \in Nat : Cardinality(Below(l)) >= n => m <= l
  <2>1. PICK I \in SUBSET Nat : I = {l \in Nat : Cardinality(Below(l)) >= n}
    <3>1. {l \in Nat : Cardinality(Below(l)) >= n} \in SUBSET Nat
      OBVIOUS
    <3> QED BY <3>1
  <2>2. Below(k) = S
    <3>1. \A j \in S : j <= k
      BY <1>1
    <3> QED BY <3>1
  <2>3. k \in I
    BY <1>1, <1>2, <1>4, <2>1, <2>2
  <2>4. PICK x \in I : \A y \in I : x <= y
    BY <2>3, LeastIs
  <2> QED BY <2>1, <2>4
<1>6. m # 0
  <2>1. \A j \in S : ~(j <= 0)
    BY <1>1
  <2>2. Below(0) = {}
    BY <2>1
  <2>3. Cardinality(Below(0)) = 0
    BY <2>2, FS_EmptySet
  <2> HIDE DEF Below
  <2> QED BY <1>4, <1>5, <2>3
<1>7. m - 1 \in Nat /\ Cardinality(Below(m - 1)) < n /\ Cardinality(Below(m - 1)) \in Nat
  <2>1. m - 1 \in Nat /\ ~(m <= m - 1)
    BY <1>6
  <2>2. Cardinality(Below(m - 1)) \in Nat
    BY <1>3
  <2>3. ~(Cardinality(Below(m - 1)) >= n)
    BY <1>5, <2>1
  <2> HIDE DEF Below
  <2> QED BY <1>4, <2>1, <2>2, <2>3
<1>8. \A j \in S : j <= m <=> j <= m - 1 \/ j = m
  BY <1>1, <1>5
<1>9. m \in S
  <2> SUFFICES ASSUME m \notin S PROVE FALSE
    OBVIOUS
  <2>1. Below(m) = Below(m - 1)
    BY <1>8
  <2>2. Cardinality(Below(m)) \in Nat
    BY <1>3
  <2> HIDE DEF Below
  <2> QED BY <1>4, <1>5, <1>7, <2>1, <2>2
<1>10. Cardinality(Below(m)) = Cardinality(Below(m - 1)) + 1
  <2>1. Below(m) = Below(m - 1) \cup {m}
    BY <1>8, <1>9
  <2>2. m \notin Below(m - 1)
    BY <1>6
  <2>3. IsFiniteSet(Below(m - 1))
    BY <1>3
  <2> HIDE DEF Below
  <2> QED BY <2>1, <2>2, <2>3, FS_AddElement
<1>11. Cardinality(Below(m)) = n
  <2> HIDE DEF Below
  <2> QED BY <1>4, <1>5, <1>7, <1>10
<1> QED BY <1>9, <1>11

\* A poll answers with ids of the journal, and with an empty list or one that has a last row.
LEMMA PollRows ==
  ASSUME journalRows \in Seq(1..MaxRows), NEW after \in 0..MaxRows
  PROVE  PollLiveJournal(after) \in Seq(1..MaxRows)
<1>1. Len(journalRows) \in Nat /\ DOMAIN journalRows = 1..Len(journalRows)
  OBVIOUS
<1>2. \A i \in 1..Len(journalRows) : journalRows[i] \in 1..MaxRows
  <2>1. ASSUME NEW D, journalRows \in Seq(D) PROVE \A i \in 1..Len(journalRows) : journalRows[i] \in D
    BY <2>1
  <2> QED BY <2>1, Zenon
<1> DEFINE due   == {i \in DOMAIN journalRows : journalRows[i] > after}
           count == IF Cardinality(due) < PollLimit THEN Cardinality(due) ELSE PollLimit
           Nth(n) == CHOOSE i \in due : Cardinality({j \in due : j <= i}) = n
<1>3. Len(journalRows) \in Nat /\ DOMAIN journalRows = 1..Len(journalRows)
      /\ due \in SUBSET (1..Len(journalRows)) /\ \A i \in due : journalRows[i] \in 1..MaxRows
  BY <1>1, <1>2
<1>4. Cardinality(due) \in Nat
  <2>1. IsFiniteSet(1..Len(journalRows))
    BY <1>3, FS_Interval
  <2>2. IsFiniteSet(due)
    BY <1>3, <2>1, FS_Subset
  <2> QED BY <2>2, FS_CardinalityType
<1>5. count \in Nat /\ count <= Cardinality(due)
  BY <1>4, ReplayAssumption
<1>6. ASSUME NEW n \in 1..count PROVE journalRows[Nth(n)] \in 1..MaxRows
  <2>1. n \in 1..Cardinality(due)
    BY <1>4, <1>5
  <2>2. \E i \in due : Cardinality({j \in due : j <= i}) = n
    BY <1>3, <2>1, NthIs
  <2>3. Nth(n) \in due
    BY <2>2
  <2> QED BY <1>3, <2>3
<1>7. PollLiveJournal(after) = [n \in 1..count |-> journalRows[Nth(n)]]
  BY DEF PollLiveJournal
<1> HIDE DEF count, Nth
<1> QED BY <1>5, <1>6, <1>7

StreamRecord == [open : BOOLEAN, after : 0..MaxRows, ticks : 0..MaxTicks]

StreamInv ==
  /\ journalRows \in Seq(1..MaxRows) /\ sent \in [Streams -> Seq(1..MaxRows)]
  /\ stream \in [Streams -> StreamRecord]

\* What a client was sent and the id its stream remembers are rows of the journal.
LEMMA SendKeeps ==
  ASSUME StreamInv, NEW s \in Streams, NEW rows \in Seq(1..MaxRows), Send(s, rows),
         stream[s].open => stream[s].ticks < MaxTicks
  PROVE  sent' \in [Streams -> Seq(1..MaxRows)] /\ stream' \in [Streams -> StreamRecord]
<1>1. stream[s] \in StreamRecord /\ sent[s] \in Seq(1..MaxRows) /\ stream \in [Streams -> StreamRecord]
      /\ sent \in [Streams -> Seq(1..MaxRows)]
  BY DEF StreamInv
<1>2. sent[s] \o rows \in Seq(1..MaxRows)
  BY <1>1
<1>3. PICK a \in 0..MaxRows : a = IF rows = <<>> THEN stream[s].after ELSE rows[Len(rows)]
  <2>1. stream[s].after \in 0..MaxRows
    BY <1>1 DEF StreamRecord
  <2>2. rows # <<>> => rows[Len(rows)] \in 0..MaxRows
    BY ReplayAssumption
  <2> QED BY <2>1, <2>2
<1>4. PICK t \in 0..MaxTicks : t = IF stream[s].open THEN stream[s].ticks + 1 ELSE 0
  <2>1. stream[s].ticks \in 0..MaxTicks /\ MaxTicks \in Nat
    BY <1>1, ReplayAssumption DEF StreamRecord
  <2> QED BY <2>1
<1>5. stream' = [stream EXCEPT ![s] = [open |-> TRUE, after |-> a, ticks |-> t]]
  <2>1. stream' = [stream EXCEPT ![s].open = TRUE,
                                ![s].after = IF rows = <<>> THEN @ ELSE rows[Len(rows)],
                                ![s].ticks = IF stream[s].open THEN @ + 1 ELSE 0]
    BY DEF Send
  <2>2. stream' = [stream EXCEPT ![s].open = TRUE, ![s].after = a, ![s].ticks = t]
    BY <1>3, <1>4, <2>1, Zenon
  <2>3. \A x \in Streams \ {s} : stream'[x] = stream[x]
    BY <1>1, <2>2
  <2>4. stream'[s] = [open |-> TRUE, after |-> a, ticks |-> t]
    BY <1>1, <2>2 DEF StreamRecord
  <2>5. stream' = [x \in Streams |-> stream'[x]]
    BY <1>1, <2>2
  <2> QED BY <1>1, <2>3, <2>4, <2>5
<1>6. [open |-> TRUE, after |-> a, ticks |-> t] \in StreamRecord
  BY DEF StreamRecord
<1>7. sent' = [sent EXCEPT ![s] = sent[s] \o rows]
  BY DEF Send
<1> QED BY <1>1, <1>2, <1>5, <1>6, <1>7

\* Every variable of the journal, its streams and the archive keeps to its type.
THEOREM ReplayTypes == ReplaySpec => []ReplayTypeOK
<1>1. ReplayInit => StreamInv
  <2> SUFFICES ASSUME ReplayInit PROVE StreamInv
    OBVIOUS
  <2>1. Closed \in StreamRecord
    BY ReplayAssumption DEF Closed, StreamRecord
  <2> QED BY <2>1 DEF ReplayInit, StreamInv
<1>2. StreamInv /\ [ReplayNext]_replayVars => StreamInv'
  <2> SUFFICES ASSUME StreamInv, [ReplayNext]_replayVars PROVE StreamInv'
    OBVIOUS
  <2>1. CASE WriteJournalEvent
    <3>1. PICK id \in 1..MaxRows : journalRows' = Append(journalRows, id)
      BY <2>1 DEF WriteJournalEvent
    <3>2. UNCHANGED <<stream, sent>>
      BY <2>1 DEF WriteJournalEvent
    <3> QED BY <3>1, <3>2 DEF StreamInv
  <2>2. ASSUME NEW s \in Streams, OpenStream(s) PROVE StreamInv'
    <3>1. PollLiveJournal(0) \in Seq(1..MaxRows)
      BY PollRows, ReplayAssumption DEF StreamInv
    <3>2. sent' \in [Streams -> Seq(1..MaxRows)] /\ stream' \in [Streams -> StreamRecord]
      BY <2>2, <3>1, SendKeeps DEF OpenStream
    <3> QED BY <2>2, <3>2 DEF StreamInv, OpenStream
  <2>3. ASSUME NEW s \in Streams, StreamTick(s) PROVE StreamInv'
    <3>1. stream[s].after \in 0..MaxRows
      BY DEF StreamInv, StreamRecord
    <3>2. PollLiveJournal(stream[s].after) \in Seq(1..MaxRows)
      BY <3>1, PollRows DEF StreamInv
    <3>3. sent' \in [Streams -> Seq(1..MaxRows)] /\ stream' \in [Streams -> StreamRecord]
      BY <2>3, <3>2, SendKeeps DEF StreamTick
    <3> QED BY <2>3, <3>3 DEF StreamInv, StreamTick
  <2>4. ASSUME NEW s \in Streams, CloseStream(s) PROVE StreamInv'
    <3>1. stream' = [stream EXCEPT ![s].open = FALSE] /\ UNCHANGED <<journalRows, sent>>
      BY <2>4 DEF CloseStream
    <3> QED BY <3>1 DEF StreamInv, StreamRecord
  <2>5. ASSUME UNCHANGED <<journalRows, stream, sent>> PROVE StreamInv'
    BY <2>5 DEF StreamInv
  <2>6. \/ WriteJournalEvent
        \/ \E s \in Streams : OpenStream(s) \/ StreamTick(s) \/ CloseStream(s)
        \/ UNCHANGED <<journalRows, stream, sent>>
    BY DEF ReplayNext, replayVars, AlertArchived, ListCold, PutObject, InsertManifest, MarkCold,
           SkipAlert, ArchiverDies
  <2> QED BY <2>1, <2>2, <2>3, <2>4, <2>5, <2>6
<1>3. StreamInv /\ ArchiveInv => ReplayTypeOK
  BY DEF StreamInv, ArchiveInv, ReplayTypeOK, StreamRecord, RunRecord
<1> QED BY <1>1, <1>2, <1>3, ArchiveInductive, PTL DEF ReplaySpec

-----------------------------------------------------------------------------
(* The pages of the feed.                                                  *)

KeptStatuses == {"absent", "Generated", "Queued", "Delivered", "Suppressed"}
ScreenRows   == [item : FeedSignals \cup Prompts, as : KeptStatuses \cup {"none", "no", "yes"}]
LoadRecord   == [filter : Filters, at : {"sent", "read"}, rows : SUBSET ScreenRows]
ActRecord    == [at : {"none", "sent", "done"}, item : {NoAct} \cup FeedSignals \cup Prompts,
                 kind : {"none", "acknowledge", "act", "dismiss", "pin", "unpin"}, filter : Filters]

\* An item has an action that was carried out, and that its answer will bring to the screen.
Effective(x) ==
  \E a \in Acts : /\ act[a].at = "done" /\ act[a].item = x
                  /\ act[a].kind \in {"dismiss", "pin", "unpin"}

\* Rows that are what the database would give, but for items such an action has changed.
Agrees(rows, f) == \A row \in ScreenRows : ~Effective(row.item) => (row \in rows <=> row \in Listing(f))

\* Where the freshest rows are: on the screen with nothing under way, in the last load once it
\* was read; until then it is still going to be fresh.
FreshestAgree ==
  ~muddled =>
    IF loads = <<>> THEN Agrees(listed, chosen)
    ELSE loads[Len(loads)].at = "read" => Agrees(loads[Len(loads)].rows, loads[Len(loads)].filter)

\* A signal once seen as delivered is delivered or suppressed ever after.
SeenDelivered(rows) ==
  \A s \in FeedSignals : [item |-> s, as |-> "Delivered"] \in rows => kept[s] \in {"Delivered", "Suppressed"}

\* A dismissal is asked for a signal that was seen as delivered, and has suppressed it once
\* it was carried out.
Dismissals ==
  \A a \in Acts : act[a].kind = "dismiss" =>
    /\ act[a].item \in FeedSignals
    /\ kept[act[a].item] \in {"Delivered", "Suppressed"}
    /\ act[a].at = "done" => kept[act[a].item] = "Suppressed"

\* Actions on a signal and actions on a prompt are told apart.
ActsApart ==
  \A a \in Acts : /\ act[a].item \in FeedSignals => act[a].kind \in {"acknowledge", "act", "dismiss"}
                  /\ act[a].item \in Prompts => act[a].kind \in {"pin", "unpin"}

ScreensTypes ==
  /\ kept \in [FeedSignals -> KeptStatuses]
  /\ pinned \in [Prompts -> {"none", "no", "yes"}]
  /\ chosen \in Filters /\ loading \in BOOLEAN /\ muddled \in BOOLEAN
  /\ listed \subseteq ScreenRows
  /\ loads \in Seq(LoadRecord)
  /\ act \in [Acts -> ActRecord]
  /\ asked \in Nat /\ Len(loads) <= asked /\ asked <= MaxLoads

ScreensInv ==
  /\ ScreensTypes
  /\ SeenDelivered(listed)
  /\ \A k \in DOMAIN loads : SeenDelivered(loads[k].rows)
  /\ Dismissals
  /\ ActsApart
  /\ FreshestAgree

-----------------------------------------------------------------------------
\* What a list is of: rows of signals or of prompts, and delivered signals only as such.
LEMMA ListingRows ==
  ASSUME ScreensTypes, NEW f \in Filters
  PROVE  Listing(f) \subseteq ScreenRows /\ SeenDelivered(Listing(f))
<1>1. Matches[f] \subseteq FeedSignals
  BY ScreensAssumption
<1>2. \A s \in FeedSignals : kept[s] \in KeptStatuses
  BY DEF ScreensTypes
<1>3. \A p \in Prompts : pinned[p] \in {"none", "no", "yes"}
  BY DEF ScreensTypes
<1>4. ListSignals(f) \subseteq ScreenRows /\ ListStandingPrompts \subseteq ScreenRows
  BY <1>1, <1>2, <1>3 DEF ListSignals, ListStandingPrompts, ScreenRows
<1>5. ASSUME NEW s \in FeedSignals, [item |-> s, as |-> "Delivered"] \in ListSignals(f) PROVE kept[s] = "Delivered"
  <2>1. PICK t \in Matches[f] : [item |-> s, as |-> "Delivered"] = [item |-> t, as |-> kept[t]]
    BY <1>5 DEF ListSignals
  <2> QED BY <2>1
<1>6. ASSUME NEW s \in FeedSignals, [item |-> s, as |-> "Delivered"] \in ListStandingPrompts PROVE FALSE
  <2>1. PICK p \in Prompts : [item |-> s, as |-> "Delivered"] = [item |-> p, as |-> pinned[p]]
    BY <1>6 DEF ListStandingPrompts
  <2> QED BY <2>1, ScreensAssumption
<1> QED BY <1>4, <1>5, <1>6 DEF Listing, SeenDelivered

\* A list tells of each item by itself: it does not change for those whose row did not.
LEMMA ListingSame ==
  ASSUME ScreensTypes, NEW f \in Filters, NEW row \in ScreenRows, UNCHANGED screen,
         row.item \in FeedSignals => kept'[row.item] = kept[row.item],
         row.item \in Prompts => pinned'[row.item] = pinned[row.item]
  PROVE  row \in Listing(f)' <=> row \in Listing(f)
<1>1. Matches[f] \subseteq FeedSignals
  BY ScreensAssumption
<1>2. row = [item |-> row.item, as |-> row.as]
  BY DEF ScreenRows
<1>3. row \in ListSignals(f) <=>
        row.item \in Matches[f] /\ kept[row.item] \in {"Delivered", "Generated"} /\ row.as = kept[row.item]
  BY <1>2 DEF ListSignals
<1>4. row \in ListSignals(f)' <=>
        row.item \in Matches[f] /\ kept'[row.item] \in {"Delivered", "Generated"} /\ row.as = kept'[row.item]
  BY <1>2 DEF ListSignals
<1>5. row \in ListStandingPrompts <=> row.item \in Prompts /\ row.as = pinned[row.item]
  BY <1>2 DEF ListStandingPrompts
<1>6. row \in ListStandingPrompts' <=> row.item \in Prompts /\ row.as = pinned'[row.item]
  BY <1>2 DEF ListStandingPrompts
<1>7. row \in ListSignals(f)' <=> row \in ListSignals(f)
  BY <1>1, <1>3, <1>4
<1>8. row \in ListStandingPrompts' <=> row \in ListStandingPrompts
  BY <1>5, <1>6
<1> QED BY <1>7, <1>8 DEF Listing

\* A signal that was suppressed is in no list.
LEMMA SuppressedUnlisted ==
  ASSUME NEW f \in Filters, NEW row \in ScreenRows, row.item \in FeedSignals, kept[row.item] = "Suppressed"
  PROVE  row \notin Listing(f)
<1>1. row \notin ListSignals(f)
  BY DEF ListSignals
<1>2. row \notin ListStandingPrompts
  BY ScreensAssumption DEF ListStandingPrompts
<1> QED BY <1>1, <1>2 DEF Listing

\* The concatenation of two sequences.
LEMMA Concat ==
  ASSUME NEW S, NEW u \in Seq(S), NEW v \in Seq(S)
  PROVE  /\ u \o v \in Seq(S) /\ Len(u \o v) = Len(u) + Len(v)
         /\ \A j \in 1..(Len(u) + Len(v)) : (u \o v)[j] = IF j <= Len(u) THEN u[j] ELSE v[j - Len(u)]
OBVIOUS

\* What is left of a sequence without its k-th element.
LEMMA WithoutOne ==
  ASSUME NEW S, NEW q \in Seq(S), NEW k \in 1..Len(q), NEW m,
         m = SubSeq(q, 1, k - 1) \o SubSeq(q, k + 1, Len(q))
  PROVE  /\ m \in Seq(S) /\ Len(m) = Len(q) - 1
         /\ \A j \in 1..(Len(q) - 1) : m[j] = IF j < k THEN q[j] ELSE q[j + 1]
<1>1. Len(q) \in Nat
  OBVIOUS
<1>2. PICK u : u = SubSeq(q, 1, k - 1)
  OBVIOUS
<1>3. PICK v : v = SubSeq(q, k + 1, Len(q))
  OBVIOUS
<1>4. u \in Seq(S) /\ Len(u) = k - 1 /\ \A j \in 1..(k - 1) : u[j] = q[j]
  BY <1>1, <1>2
<1>5. v \in Seq(S) /\ Len(v) = Len(q) - k /\ \A j \in 1..(Len(q) - k) : v[j] = q[k + j]
  BY <1>1, <1>3
<1>6. m = u \o v
  BY <1>2, <1>3
<1>7. m \in Seq(S) /\ Len(m) = Len(q) - 1
  <2>1. u \in Seq(S) /\ v \in Seq(S)
    BY <1>4, <1>5
  <2>2. m \in Seq(S) /\ Len(m) = Len(u) + Len(v)
    BY <1>6, <2>1, Concat
  <2>3. Len(u) = k - 1 /\ Len(v) = Len(q) - k
    BY <1>4, <1>5
  <2>4. (k - 1) + (Len(q) - k) = Len(q) - 1
    BY <1>1
  <2> QED BY <2>2, <2>3, <2>4
<1>8. ASSUME NEW j \in 1..(Len(q) - 1) PROVE m[j] = IF j < k THEN q[j] ELSE q[j + 1]
  <2>1. j \in 1..(Len(u) + Len(v)) /\ Len(u) + Len(v) = Len(q) - 1
    BY <1>1, <1>4, <1>5
  <2>2. m[j] = IF j <= k - 1 THEN u[j] ELSE v[j - (k - 1)]
    <3>1. u \in Seq(S) /\ v \in Seq(S)
      BY <1>4, <1>5
    <3>2. m[j] = IF j <= Len(u) THEN u[j] ELSE v[j - Len(u)]
      BY <1>6, <2>1, <3>1, Concat
    <3> QED BY <1>4, <3>2
  <2>3. CASE j < k
    <3>1. j \in 1..(k - 1) /\ j <= k - 1
      BY <1>1, <2>3
    <3> QED BY <1>4, <2>2, <2>3, <3>1
  <2>4. CASE ~(j < k)
    <3>1. j - (k - 1) \in 1..(Len(q) - k) /\ k + (j - (k - 1)) = j + 1 /\ ~(j <= k - 1)
      BY <1>1, <2>4
    <3> QED BY <1>5, <2>2, <2>4, <3>1
  <2> QED BY <2>3, <2>4
<1> QED BY <1>7, <1>8

\* Taking a load off the list: the others stay, the last one last.
LEMMA OverEffect ==
  ASSUME loads \in Seq(LoadRecord), NEW k \in DOMAIN loads, Over(k)
  PROVE  /\ loads' \in Seq(LoadRecord) /\ Len(loads') = Len(loads) - 1
         /\ \A n \in DOMAIN loads' : \E j \in DOMAIN loads : loads'[n] = loads[j]
         /\ k # Len(loads) => loads' # <<>> /\ loads'[Len(loads')] = loads[Len(loads)]
         /\ loads' = <<>> => Len(loads) = 1 /\ k = 1
<1> DEFINE n == Len(loads)
<1>1. n \in Nat /\ k \in 1..n
  OBVIOUS
<1>2. /\ loads' \in Seq(LoadRecord) /\ Len(loads') = n - 1
      /\ \A j \in 1..(n - 1) : loads'[j] = IF j < k THEN loads[j] ELSE loads[j + 1]
  BY SMTT(40), WithoutOne DEF Over
<1>3. ASSUME NEW j \in 1..(n - 1) PROVE \E i \in DOMAIN loads : loads'[j] = loads[i]
  <2>1. j \in DOMAIN loads /\ j + 1 \in DOMAIN loads
    BY <1>1
  <2> QED BY <1>2, <2>1
<1>4. k # n => n - 1 \in 1..(n - 1) /\ loads'[n - 1] = loads[n]
  BY <1>1, <1>2
<1>5. DOMAIN loads' = 1..(n - 1)
  BY <1>2
<1>6. loads' = <<>> => n = 1 /\ k = 1
  BY <1>1, <1>2
<1>7. k # n => loads' # <<>>
  BY <1>1, <1>2
<1> QED BY <1>2, <1>3, <1>4, <1>5, <1>6, <1>7

\* A request puts a load at the end that is going to be fresh.
LEMMA RequestEffect ==
  ASSUME ScreensTypes, NEW f \in Filters, Request(f)
  PROVE  /\ loads' \in Seq(LoadRecord) /\ Len(loads') = Len(loads) + 1
         /\ loads' # <<>> /\ loads'[Len(loads')].at = "sent"
         /\ \A n \in DOMAIN loads' : loads'[n].rows = {} \/ \E j \in DOMAIN loads : loads'[n] = loads[j]
         /\ asked' \in Nat /\ Len(loads') <= asked' /\ asked' <= MaxLoads /\ loading' \in BOOLEAN
         /\ muddled' \in BOOLEAN
<1>1. Sent(f) \in LoadRecord /\ Sent(f).at = "sent" /\ Sent(f).rows = {}
  BY DEF Sent, LoadRecord
<1>2. loads \in Seq(LoadRecord) /\ asked \in Nat /\ Len(loads) <= asked /\ muddled \in BOOLEAN /\ MaxLoads \in Nat
  BY ScreensAssumption DEF ScreensTypes
<1>3. loads' = Append(loads, Sent(f)) /\ asked' = asked + 1 /\ asked < MaxLoads
      /\ loading' = TRUE /\ muddled' = (muddled /\ ~(NoActs /\ loads = <<>>))
  BY DEF Request
<1>4. loads' \in Seq(LoadRecord) /\ Len(loads') = Len(loads) + 1 /\ loads'[Len(loads')] = Sent(f)
  BY <1>1, <1>2, <1>3
<1>5. \A n \in 1..Len(loads) : loads'[n] = loads[n]
  BY <1>1, <1>2, <1>3
<1>6. \A n \in DOMAIN loads' : n \in DOMAIN loads \/ n = Len(loads) + 1
  BY <1>2, <1>4
<1> QED BY <1>1, <1>2, <1>3, <1>4, <1>5, <1>6

\* A request makes the last load one that is not read yet, so that nothing has to agree.
LEMMA RequestKeeps ==
  ASSUME ScreensInv, NEW f \in Filters, Request(f), UNCHANGED <<dataVars, listed>>
  PROVE  /\ FreshestAgree' /\ (\A k \in DOMAIN loads : SeenDelivered(loads[k].rows))'
         /\ SeenDelivered(listed)'
<1>1. ScreensTypes /\ UNCHANGED <<kept, pinned, screen, listed>>
  BY DEF ScreensInv, dataVars
<1>2. FreshestAgree'
  BY <1>1, RequestEffect DEF FreshestAgree
<1>3. ASSUME NEW k \in DOMAIN loads', NEW s \in FeedSignals, [item |-> s, as |-> "Delivered"] \in loads'[k].rows
      PROVE  kept'[s] \in {"Delivered", "Suppressed"}
  <2>1. PICK j \in DOMAIN loads : loads'[k] = loads[j]
    BY <1>1, <1>3, RequestEffect
  <2> QED BY <1>1, <1>3, <2>1 DEF ScreensInv, SeenDelivered
<1> QED BY <1>1, <1>2, <1>3 DEF ScreensInv, SeenDelivered

-----------------------------------------------------------------------------
\* Rows that agree go on agreeing while no item loses its action's effect, and the items that
\* get another row have one.
LEMMA AgreesStep ==
  ASSUME ScreensTypes, NEW f \in Filters, NEW rows, Agrees(rows, f), UNCHANGED screen,
         \A x \in FeedSignals \cup Prompts : Effective(x) => Effective(x)',
         \A s \in FeedSignals : kept'[s] # kept[s] => Effective(s)',
         \A p \in Prompts : pinned'[p] # pinned[p] => Effective(p)'
  PROVE  \A row \in ScreenRows : ~Effective(row.item)' => (row \in rows <=> row \in Listing(f)')
<1> SUFFICES ASSUME NEW row \in ScreenRows, ~Effective(row.item)' PROVE row \in rows <=> row \in Listing(f)'
  OBVIOUS
<1>1. row.item \in FeedSignals \cup Prompts
  BY DEF ScreenRows
<1>2. ~Effective(row.item)
  BY <1>1
<1>3. row \in Listing(f)' <=> row \in Listing(f)
  BY <1>1, ListingSame
<1> QED BY <1>2, <1>3 DEF Agrees

\* A step that adds to the actions carried out, or takes none away, keeps what agrees.
LEMMA FreshestKept ==
  ASSUME ScreensInv, UNCHANGED <<screen, chosen, listed, loads, muddled>>,
         \A x \in FeedSignals \cup Prompts : Effective(x) => Effective(x)',
         \A s \in FeedSignals : kept'[s] # kept[s] => Effective(s)',
         \A p \in Prompts : pinned'[p] # pinned[p] => Effective(p)'
  PROVE  FreshestAgree'
<1>1. ScreensTypes /\ FreshestAgree
  BY DEF ScreensInv
<1>2. loads \in Seq(LoadRecord) /\ chosen \in Filters
  BY <1>1 DEF ScreensTypes
<1>3. CASE muddled
  BY <1>3 DEF FreshestAgree
<1>4. CASE ~muddled /\ loads = <<>>
  <2>1. Agrees(listed, chosen)
    BY <1>1, <1>4 DEF FreshestAgree
  <2>2. \A row \in ScreenRows : ~Effective(row.item)' => (row \in listed <=> row \in Listing(chosen)')
    BY <1>1, <1>2, <2>1, AgreesStep
  <2>3. Agrees(listed, chosen)'
    BY <2>2 DEF Agrees, Listing, ListSignals
  <2> QED BY <1>4, <2>3 DEF FreshestAgree
<1>5. CASE ~muddled /\ loads # <<>>
  <2> SUFFICES ASSUME loads[Len(loads)].at = "read"
               PROVE  Agrees(loads[Len(loads)].rows, loads[Len(loads)].filter)'
    BY <1>5 DEF FreshestAgree
  <2>1. loads[Len(loads)] \in LoadRecord
    BY <1>2, <1>5
  <2>2. loads[Len(loads)].filter \in Filters
    BY <2>1 DEF LoadRecord
  <2>3. Agrees(loads[Len(loads)].rows, loads[Len(loads)].filter)
    BY <1>1, <1>5 DEF FreshestAgree
  <2>4. \A row \in ScreenRows : ~Effective(row.item)' =>
          (row \in loads[Len(loads)].rows <=> row \in Listing(loads[Len(loads)].filter)')
    BY <1>1, <2>2, <2>3, AgreesStep
  <2>5. Agrees(loads[Len(loads)].rows, loads[Len(loads)].filter)'
    BY <2>4 DEF Agrees, Listing, ListSignals
  <2> QED BY <2>5
<1> QED BY <1>3, <1>4, <1>5

-----------------------------------------------------------------------------
\* The steps of the loads: an answer is fresh when it is read, and one that overtakes another
\* or comes for other filters is a muddle.
LEMMA LoadsKeep ==
  ASSUME ScreensInv, NEW k, AnswerLoad(k) \/ Apply(k) \/ LoadFailed(k)
  PROVE  ScreensInv'
<1>0. /\ ScreensTypes /\ loads \in Seq(LoadRecord) /\ chosen \in Filters /\ k \in DOMAIN loads
      /\ asked \in Nat /\ Len(loads) <= asked /\ asked <= MaxLoads /\ MaxLoads \in Nat
  BY ScreensAssumption DEF ScreensInv, ScreensTypes, AnswerLoad, Apply, LoadFailed
<1>1. UNCHANGED <<kept, pinned, screen, chosen, act, asked>>
  BY DEF AnswerLoad, Apply, LoadFailed, dataVars
<1>2. loads[k] \in LoadRecord /\ loads[k].filter \in Filters /\ loads[k].rows \subseteq ScreenRows
  <2>1. loads[k] \in LoadRecord
    BY <1>0
  <2> QED BY <2>1 DEF LoadRecord
<1>3. Dismissals' /\ ActsApart'
  BY <1>1 DEF ScreensInv, Dismissals, ActsApart
<1>4. \A rows, f : Agrees(rows, f) => \A row \in ScreenRows :
        ~Effective(row.item)' => (row \in rows <=> row \in Listing(f)')
  BY <1>1 DEF Agrees, Effective, Listing, ListSignals, ListStandingPrompts
<1>5. CASE AnswerLoad(k)
  <2>1. PICK r \in LoadRecord : r = [loads[k] EXCEPT !.at = "read", !.rows = Listing(loads[k].filter)]
    BY <1>0, <1>2, ListingRows DEF LoadRecord
  <2>2. r.at = "read" /\ r.rows = Listing(loads[k].filter) /\ r.filter = loads[k].filter
    BY <1>2, <2>1 DEF LoadRecord
  <2>3. loads' = [loads EXCEPT ![k] = r] /\ UNCHANGED <<listed, loading, muddled>>
    BY <1>0, <1>5, <2>1 DEF AnswerLoad
  <2>4. loads' \in Seq(LoadRecord) /\ Len(loads') = Len(loads) /\ loads'[k] = r
        /\ \A j \in DOMAIN loads : j # k => loads'[j] = loads[j]
    BY <1>0, <2>3
  <2>5. ScreensTypes'
    BY <1>0, <1>1, <2>3, <2>4 DEF ScreensTypes
  <2>6. ASSUME NEW j \in DOMAIN loads, NEW s \in FeedSignals, [item |-> s, as |-> "Delivered"] \in loads'[j].rows
        PROVE  kept'[s] \in {"Delivered", "Suppressed"}
    <3>1. CASE j = k
      BY <1>0, <1>1, <1>2, <2>2, <2>4, <2>6, <3>1, ListingRows DEF SeenDelivered
    <3>2. CASE j # k
      BY <1>1, <2>4, <2>6, <3>2 DEF ScreensInv, SeenDelivered
    <3> QED BY <3>1, <3>2
  <2>7. FreshestAgree'
    <3> SUFFICES ASSUME ~muddled
                 PROVE  loads'[Len(loads')].at = "read" =>
                          Agrees(loads[Len(loads)].rows, loads[Len(loads)].filter)'
      BY <1>0, <2>3, <2>4 DEF FreshestAgree
    <3>1. CASE Len(loads) = k
      <4>1. Agrees(r.rows, r.filter)
        BY <2>2 DEF Agrees
      <4>2. Agrees(loads[Len(loads)].rows, loads[Len(loads)].filter)'
        BY <1>4, <2>4, <3>1, <4>1 DEF Agrees
      <4> QED BY <4>2
    <3>2. CASE Len(loads) # k
      <4>1. Len(loads) \in DOMAIN loads /\ loads # <<>>
        BY <1>0
      <4>2. loads'[Len(loads)] = loads[Len(loads)]
        BY <2>4, <3>2, <4>1
      <4>3. loads[Len(loads)].at = "read" => Agrees(loads[Len(loads)].rows, loads[Len(loads)].filter)
        BY <4>1 DEF ScreensInv, FreshestAgree
      <4>4. loads[Len(loads)].at = "read" => Agrees(loads[Len(loads)].rows, loads[Len(loads)].filter)'
        BY <1>4, <2>4, <4>2, <4>3 DEF Agrees
      <4> QED BY <2>4, <4>2, <4>4
    <3> QED BY <3>1, <3>2
  <2>8. SeenDelivered(listed)'
    BY <1>1, <2>3 DEF ScreensInv, SeenDelivered
  <2>9. (\A j \in DOMAIN loads : SeenDelivered(loads[j].rows))'
    BY <1>0, <2>4, <2>6 DEF SeenDelivered
  <2> QED BY <1>3, <2>5, <2>7, <2>8, <2>9 DEF ScreensInv
<1>6. ASSUME Over(k), muddled' \in BOOLEAN, listed' = listed \/ listed' = loads[k].rows, FreshestAgree'
      PROVE  ScreensInv'
  <2>1. /\ loads' \in Seq(LoadRecord) /\ Len(loads') = Len(loads) - 1 /\ loading' = FALSE
        /\ \A n \in DOMAIN loads' : \E j \in DOMAIN loads : loads'[n] = loads[j]
    BY <1>0, <1>6, OverEffect DEF Over
  <2>2. ScreensTypes'
    <3>1. listed' \subseteq ScreenRows
      BY <1>0, <1>2, <1>6 DEF ScreensTypes
    <3>2. Len(loads') <= asked
      BY <1>0, <2>1
    <3> QED BY <1>0, <1>1, <1>6, <2>1, <3>1, <3>2 DEF ScreensTypes
  <2>3. SeenDelivered(listed)'
    BY <1>0, <1>1, <1>6 DEF ScreensInv, SeenDelivered
  <2>4. (\A j \in DOMAIN loads : SeenDelivered(loads[j].rows))'
    BY <1>1, <2>1 DEF ScreensInv, SeenDelivered
  <2> QED BY <1>3, <1>6, <2>2, <2>3, <2>4 DEF ScreensInv
<1>7. CASE Apply(k)
  <2>1. Over(k) /\ listed' = loads[k].rows /\ muddled' = (muddled \/ k # 1 \/ loads[k].filter # chosen)
        /\ loads[k].at = "read"
    BY <1>7 DEF Apply
  <2>2. muddled' \in BOOLEAN
    BY <2>1
  <2>3. ASSUME ~muddled' PROVE IF loads' = <<>> THEN Agrees(listed, chosen)'
              ELSE loads'[Len(loads')].at = "read" => Agrees(loads[Len(loads)].rows, loads[Len(loads)].filter)'
    <3>1. ~muddled /\ k = 1 /\ loads[k].filter = chosen
      BY <2>1, <2>3
    <3>2. loads # <<>>
      BY <1>0
    <3>3. loads[Len(loads)].at = "read" => Agrees(loads[Len(loads)].rows, loads[Len(loads)].filter)
      BY <3>1, <3>2 DEF ScreensInv, FreshestAgree
    <3>4. CASE loads' = <<>>
      <4>1. Len(loads) = k
        BY <1>0, <2>1, <3>4, OverEffect
      <4>2. Agrees(loads[k].rows, chosen)
        BY <2>1, <3>1, <3>3, <4>1
      <4>3. Agrees(listed, chosen)'
        BY <1>1, <1>4, <2>1, <4>2 DEF Agrees
      <4> QED BY <3>4, <4>3
    <3>5. CASE loads' # <<>>
      <4>1. k # Len(loads)
        BY <1>0, <2>1, <3>1, <3>5, OverEffect
      <4>2. loads'[Len(loads')] = loads[Len(loads)]
        BY <1>0, <2>1, <4>1, OverEffect
      <4>3. loads[Len(loads)].at = "read" => Agrees(loads[Len(loads)].rows, loads[Len(loads)].filter)'
        BY <1>4, <3>3, <4>2 DEF Agrees
      <4> QED BY <3>5, <4>2, <4>3
    <3> QED BY <3>4, <3>5
  <2>4. FreshestAgree'
    BY <2>3 DEF FreshestAgree
  <2> QED BY <1>6, <2>1, <2>2, <2>4
<1>8. CASE LoadFailed(k)
  <2>1. Over(k) /\ muddled' = TRUE /\ listed' = listed
    BY <1>8 DEF LoadFailed
  <2> QED BY <1>6, <2>1 DEF FreshestAgree
<1> QED BY <1>5, <1>7, <1>8

\* A new load for the filters of the page.
LEMMA FiltersKeep ==
  ASSUME ScreensInv, NEW f \in Filters, Request(f), chosen' \in Filters,
         UNCHANGED <<dataVars, listed>>, act' \in [Acts -> ActRecord], Dismissals', ActsApart'
  PROVE  ScreensInv'
<1>1. ScreensTypes'
  BY RequestEffect DEF ScreensInv, ScreensTypes, dataVars
<1> QED BY <1>1, RequestKeeps DEF ScreensInv

\* The effect of freeing an action.
LEMMA Freed ==
  ASSUME ScreensInv, NEW a \in Acts, SetFree(a)
  PROVE  /\ act' \in [Acts -> ActRecord] /\ act'[a].at = "none" /\ act'[a].kind = "none" /\ act'[a].item = NoAct
         /\ \A b \in Acts \ {a} : act'[b] = act[b]
<1>1. Spare \in ActRecord /\ act \in [Acts -> ActRecord]
  BY ScreensAssumption DEF Spare, ActRecord, ScreensInv, ScreensTypes
<1> QED BY <1>1 DEF SetFree, Spare

\* Freeing an action leaves what the others have to say.
LEMMA FreedKeeps ==
  ASSUME ScreensInv, NEW a \in Acts, SetFree(a), UNCHANGED kept
  PROVE  Dismissals' /\ ActsApart'
<1>1. /\ act' \in [Acts -> ActRecord] /\ act'[a].at = "none" /\ act'[a].kind = "none" /\ act'[a].item = NoAct
      /\ \A b \in Acts \ {a} : act'[b] = act[b]
  BY Freed
<1>2. Dismissals'
  BY <1>1 DEF ScreensInv, Dismissals
<1>3. ActsApart'
  BY <1>1, ScreensAssumption DEF ScreensInv, ActsApart
<1> QED BY <1>2, <1>3

\* A button is pressed: nothing is carried out yet.
LEMMA PressKeeps ==
  ASSUME ScreensInv, NEW a \in Acts, NEW x \in FeedSignals \cup Prompts, NEW kind, Press(a, x, kind),
         \/ x \in FeedSignals /\ kind \in {"acknowledge", "act", "dismiss"} /\ Shows(x, "Delivered")
         \/ x \in Prompts /\ kind \in {"pin", "unpin"}
  PROVE  ScreensInv'
<1>0. ScreensTypes /\ act \in [Acts -> ActRecord] /\ chosen \in Filters
  BY DEF ScreensInv, ScreensTypes
<1>1. UNCHANGED <<kept, pinned, screen, chosen, listed, loads, loading, asked, muddled>> /\ act[a].at = "none"
  BY DEF Press, dataVars
<1>2. PICK r \in ActRecord : r = [at |-> "sent", item |-> x, kind |-> kind, filter |-> chosen]
  BY <1>0 DEF ActRecord
<1>3. act' = [act EXCEPT ![a] = r] /\ r.at = "sent" /\ r.item = x /\ r.kind = kind
  BY <1>2 DEF Press
<1>4. act' \in [Acts -> ActRecord] /\ act'[a] = r /\ \A b \in Acts \ {a} : act'[b] = act[b]
  BY <1>0, <1>3
<1>5. \A y : Effective(y) <=> Effective(y)'
  BY <1>1, <1>3, <1>4 DEF Effective
<1>6. FreshestAgree'
  BY <1>1, <1>5, FreshestKept
<1>7. kind = "dismiss" => x \in FeedSignals /\ kept[x] \in {"Delivered", "Suppressed"}
  BY DEF ScreensInv, SeenDelivered, Shows
<1>8. Dismissals'
  BY <1>1, <1>3, <1>4, <1>7 DEF ScreensInv, Dismissals
<1>9. ActsApart'
  BY <1>3, <1>4, ScreensAssumption DEF ScreensInv, ActsApart
<1>10. ScreensTypes'
  BY <1>0, <1>1, <1>4 DEF ScreensTypes
<1> QED BY <1>1, <1>6, <1>8, <1>9, <1>10 DEF ScreensInv, SeenDelivered

\* The effect of carrying an action out on the list of actions.
LEMMA Carried ==
  ASSUME ScreensInv, NEW a \in Acts, CarriesOut(a)
  PROVE  /\ act' \in [Acts -> ActRecord] /\ act[a].at = "sent" /\ act'[a].at = "done"
         /\ act'[a].item = act[a].item /\ act'[a].kind = act[a].kind
         /\ \A b \in Acts \ {a} : act'[b] = act[b]
         /\ \A y : Effective(y) => Effective(y)'
         /\ act[a].kind \in {"dismiss", "pin", "unpin"} => Effective(act[a].item)'
<1>0. act \in [Acts -> ActRecord] /\ act[a] \in ActRecord
  BY DEF ScreensInv, ScreensTypes
<1>1. PICK r \in ActRecord : r = [act[a] EXCEPT !.at = "done"]
  BY <1>0 DEF ActRecord
<1>2. act' = [act EXCEPT ![a] = r] /\ act[a].at = "sent"
  BY <1>0, <1>1 DEF CarriesOut
<1>3. r.at = "done" /\ r.item = act[a].item /\ r.kind = act[a].kind
  BY <1>0, <1>1 DEF ActRecord
<1>4. act'[a] = r /\ \A b \in Acts \ {a} : act'[b] = act[b]
  BY <1>0, <1>2
<1>5. \A y : Effective(y) => Effective(y)'
  BY <1>2, <1>4 DEF Effective
<1>6. act[a].kind \in {"dismiss", "pin", "unpin"} => Effective(act[a].item)'
  BY <1>3, <1>4 DEF Effective
<1> QED BY <1>0, <1>2, <1>3, <1>4, <1>5, <1>6

\* The server carries an action out: only the row of its item changes, and its answer is due.
LEMMA CarriesOutKeeps ==
  ASSUME ScreensInv, NEW a \in Acts, ActionSignal(a) \/ PinStandingPrompt(a)
  PROVE  ScreensInv'
<1>0. /\ ScreensTypes /\ kept \in [FeedSignals -> KeptStatuses] /\ pinned \in [Prompts -> {"none", "no", "yes"}]
      /\ Dismissals /\ ActsApart
  BY DEF ScreensInv, ScreensTypes
<1>1. CarriesOut(a) /\ UNCHANGED <<screen, chosen, listed, loads, loading, asked, muddled>>
  BY DEF ActionSignal, PinStandingPrompt, CarriesOut
<1>2. /\ kept' \in [FeedSignals -> KeptStatuses]
      /\ \A s \in FeedSignals : kept'[s] = kept[s] \/
           (s = act[a].item /\ act[a].kind = "dismiss" /\ kept[s] = "Delivered" /\ kept'[s] = "Suppressed")
      /\ pinned' \in [Prompts -> {"none", "no", "yes"}]
      /\ \A p \in Prompts : pinned'[p] = pinned[p] \/ (p = act[a].item /\ act[a].kind \in {"pin", "unpin"})
  <2>1. CASE ActionSignal(a)
    <3>1. kept' = [kept EXCEPT ![act[a].item] =
                    IF act[a].kind = "dismiss" /\ kept[act[a].item] = "Delivered" THEN "Suppressed" ELSE kept[act[a].item]]
          /\ UNCHANGED pinned
      BY <2>1 DEF ActionSignal
    <3> QED BY <1>0, <3>1 DEF KeptStatuses
  <2>2. CASE PinStandingPrompt(a)
    <3>1. pinned' = [pinned EXCEPT ![act[a].item] = IF act[a].kind = "pin" THEN "yes" ELSE "no"] /\ UNCHANGED kept
          /\ act[a].item \in Prompts
      BY <2>2 DEF PinStandingPrompt
    <3>2. act[a].kind \in {"pin", "unpin"}
      BY <1>0, <3>1 DEF ActsApart
    <3> QED BY <1>0, <3>1, <3>2
  <2> QED BY <2>1, <2>2
<1>3. act[a].kind = "dismiss" => act[a].item \in FeedSignals /\ kept'[act[a].item] = "Suppressed"
  <2> SUFFICES ASSUME act[a].kind = "dismiss" PROVE act[a].item \in FeedSignals /\ kept'[act[a].item] = "Suppressed"
    OBVIOUS
  <2>1. act[a].item \in FeedSignals /\ kept[act[a].item] \in {"Delivered", "Suppressed"}
    BY <1>0 DEF Dismissals
  <2>2. ActionSignal(a)
    BY <1>0, <2>1, ScreensAssumption DEF PinStandingPrompt
  <2>3. kept' = [kept EXCEPT ![act[a].item] =
                  IF act[a].kind = "dismiss" /\ kept[act[a].item] = "Delivered" THEN "Suppressed" ELSE kept[act[a].item]]
    BY <2>2 DEF ActionSignal
  <2> QED BY <1>0, <2>1, <2>3
<1>4. Dismissals'
  <2> SUFFICES ASSUME NEW b \in Acts, act'[b].kind = "dismiss"
               PROVE  /\ act'[b].item \in FeedSignals
                      /\ kept'[act'[b].item] \in {"Delivered", "Suppressed"}
                      /\ act'[b].at = "done" => kept'[act'[b].item] = "Suppressed"
    BY DEF Dismissals
  <2>1. CASE b = a
    BY <1>1, <1>3, <2>1, Carried
  <2>2. CASE b # a
    <3>1. act'[b] = act[b]
      BY <1>1, <2>2, Carried
    <3> QED BY <1>0, <1>2, <3>1 DEF Dismissals
  <2> QED BY <2>1, <2>2
<1>5. ActsApart'
  BY <1>0, <1>1, Carried DEF ActsApart
<1>6. FreshestAgree'
  BY <1>1, <1>2, Carried, FreshestKept
<1>7. ScreensTypes'
  BY <1>0, <1>1, <1>2, Carried DEF ScreensTypes
<1>8. \A rows : SeenDelivered(rows) => \A s \in FeedSignals :
        [item |-> s, as |-> "Delivered"] \in rows => kept'[s] \in {"Delivered", "Suppressed"}
  BY <1>2 DEF SeenDelivered
<1>9. SeenDelivered(listed)' /\ (\A k \in DOMAIN loads : SeenDelivered(loads[k].rows))'
  BY <1>1, <1>8 DEF ScreensInv, SeenDelivered
<1> QED BY <1>4, <1>5, <1>6, <1>7, <1>9 DEF ScreensInv

\* The answer to a dismissal takes the row off the screen, and the database no longer lists it.
LEMMA DismissedKeeps ==
  ASSUME ScreensInv, NEW a \in Acts, Dismissed(a)
  PROVE  ScreensInv'
<1>0. ScreensTypes /\ Dismissals /\ FreshestAgree /\ chosen \in Filters
  BY DEF ScreensInv, ScreensTypes
<1>1. /\ SetFree(a) /\ UNCHANGED <<kept, pinned, screen, chosen, loads, loading, asked>>
      /\ listed' = {row \in listed : row.item # act[a].item} /\ muddled' = (muddled \/ loads # <<>>)
      /\ act[a].kind = "dismiss" /\ act[a].at = "done"
  BY DEF Dismissed, dataVars
<1>2. act[a].item \in FeedSignals /\ kept[act[a].item] = "Suppressed"
  BY <1>0, <1>1 DEF Dismissals
<1>3. \A x : Effective(x) => Effective(x)' \/ x = act[a].item
  BY <1>1, Freed DEF Effective
<1>4. \A f : Listing(f)' = Listing(f)
  BY <1>1 DEF Listing, ListSignals, ListStandingPrompts
<1>5. FreshestAgree'
  <2> SUFFICES ASSUME ~muddled', loads = <<>> PROVE Agrees(listed, chosen)'
    BY <1>1 DEF FreshestAgree
  <2>1. Agrees(listed, chosen)
    BY <1>0, <1>1 DEF FreshestAgree
  <2>2. ASSUME NEW row \in ScreenRows, ~Effective(row.item)' PROVE row \in listed' <=> row \in Listing(chosen)
    <3>1. CASE row.item = act[a].item
      BY <1>0, <1>1, <1>2, <3>1, SuppressedUnlisted
    <3>2. CASE row.item # act[a].item
      BY <1>1, <1>3, <2>1, <2>2, <3>2 DEF Agrees
    <3> QED BY <3>1, <3>2
  <2> QED BY <1>1, <1>4, <2>2 DEF Agrees
<1>6. ScreensTypes'
  BY <1>0, <1>1, Freed DEF ScreensTypes
<1>7. SeenDelivered(listed)' /\ (\A k \in DOMAIN loads : SeenDelivered(loads[k].rows))'
  BY <1>1 DEF ScreensInv, SeenDelivered
<1> QED BY <1>1, <1>5, <1>6, <1>7, FreedKeeps DEF ScreensInv

\* The answer to another action asks for the list again; an answer that is lost is a muddle.
LEMMA AnsweredKeeps ==
  ASSUME ScreensInv, NEW a \in Acts, Answered(a) \/ ActFailed(a)
  PROVE  ScreensInv'
<1>0. ScreensTypes /\ act \in [Acts -> ActRecord] /\ chosen \in Filters
  BY DEF ScreensInv, ScreensTypes
<1>1. SetFree(a) /\ UNCHANGED <<kept, pinned, screen, chosen, listed, dataVars>>
  BY DEF Answered, ActFailed, dataVars
<1>2. Dismissals' /\ ActsApart' /\ act' \in [Acts -> ActRecord]
  BY <1>1, Freed, FreedKeeps
<1>3. CASE Answered(a)
  <2>1. act[a].filter \in Filters /\ Request(act[a].filter)
    BY <1>0, <1>3 DEF Answered, Reload, ActRecord
  <2> QED BY <1>0, <1>1, <1>2, <2>1, FiltersKeep
<1>4. CASE ActFailed(a)
  <2>1. UNCHANGED <<loads, loading, asked>> /\ muddled' = TRUE
    BY <1>4 DEF ActFailed
  <2>2. ScreensTypes' /\ FreshestAgree'
    BY <1>0, <1>1, <1>2, <2>1 DEF ScreensTypes, FreshestAgree
  <2> QED BY <1>1, <1>2, <2>1, <2>2 DEF ScreensInv, SeenDelivered
<1> QED BY <1>3, <1>4

\* What others change is a muddle, and never brings a delivered signal back.
LEMMA OthersKeep ==
  ASSUME ScreensInv,
         \/ \E s \in FeedSignals, to \in {"Generated", "Queued", "Delivered", "Suppressed"} : SignalMoves(s, to)
         \/ \E p \in Prompts : VersionMoves(p)
  PROVE  ScreensInv'
<1>0. ScreensTypes /\ kept \in [FeedSignals -> KeptStatuses] /\ pinned \in [Prompts -> {"none", "no", "yes"}]
  BY DEF ScreensInv, ScreensTypes
<1>1. muddled' = TRUE /\ UNCHANGED <<screen, chosen, listed, loads, loading, act, asked>>
  BY DEF SignalMoves, VersionMoves, ByOthers
<1>2. /\ kept' \in [FeedSignals -> KeptStatuses] /\ pinned' \in [Prompts -> {"none", "no", "yes"}]
      /\ \A s \in FeedSignals : kept[s] \in {"Delivered", "Suppressed"} => kept'[s] = kept[s]
  BY <1>0 DEF SignalMoves, VersionMoves, KeptStatuses
<1>3. ScreensTypes' /\ FreshestAgree'
  BY <1>0, <1>1, <1>2 DEF ScreensTypes, FreshestAgree
<1>4. SeenDelivered(listed)' /\ (\A k \in DOMAIN loads : SeenDelivered(loads[k].rows))'
  BY <1>1, <1>2 DEF ScreensInv, SeenDelivered
<1>5. Dismissals' /\ ActsApart'
  BY <1>1, <1>2 DEF ScreensInv, Dismissals, ActsApart
<1> QED BY <1>3, <1>4, <1>5 DEF ScreensInv

\* The inductive invariant: it holds at first and every step keeps it.
THEOREM ScreensInductive == ScreensSpec => []ScreensInv
<1>1. ScreensInit => ScreensInv
  <2> SUFFICES ASSUME ScreensInit PROVE ScreensInv
    OBVIOUS
  <2>1. Sent(FirstFilter) \in LoadRecord /\ Sent(FirstFilter).at = "sent" /\ Sent(FirstFilter).rows = {}
    BY ScreensAssumption DEF Sent, LoadRecord
  <2>2. loads \in Seq(LoadRecord) /\ Len(loads) = 1 /\ loads[1] = Sent(FirstFilter) /\ DOMAIN loads = {1}
    BY <2>1 DEF ScreensInit
  <2>3. Spare \in ActRecord /\ Spare.at = "none" /\ Spare.kind = "none" /\ Spare.item = NoAct
    BY ScreensAssumption DEF Spare, ActRecord
  <2>4. ScreensTypes
    <3>1. kept \in [FeedSignals -> KeptStatuses] /\ pinned \in [Prompts -> {"none", "no", "yes"}]
      BY DEF ScreensInit, KeptStatuses
    <3>2. act \in [Acts -> ActRecord]
      BY <2>3 DEF ScreensInit
    <3>3. asked \in Nat /\ Len(loads) <= asked /\ asked <= MaxLoads
      BY <2>2, ScreensAssumption DEF ScreensInit
    <3>4. chosen \in Filters /\ loading \in BOOLEAN /\ muddled \in BOOLEAN /\ listed \subseteq ScreenRows
      BY ScreensAssumption DEF ScreensInit
    <3> QED BY <2>2, <3>1, <3>2, <3>3, <3>4 DEF ScreensTypes
  <2>5. Dismissals /\ ActsApart
    BY <2>3, ScreensAssumption DEF ScreensInit, Dismissals, ActsApart
  <2>6. FreshestAgree
    BY <2>1, <2>2 DEF FreshestAgree
  <2>7. SeenDelivered(listed) /\ \A k \in DOMAIN loads : SeenDelivered(loads[k].rows)
    BY <2>1, <2>2 DEF ScreensInit, SeenDelivered
  <2> QED BY <2>4, <2>5, <2>6, <2>7 DEF ScreensInv
<1>2. ScreensInv /\ [ScreensNext]_screensVars => ScreensInv'
  <2> SUFFICES ASSUME ScreensInv, [ScreensNext]_screensVars PROVE ScreensInv'
    OBVIOUS
  <2>0. chosen \in Filters /\ act \in [Acts -> ActRecord]
    BY DEF ScreensInv, ScreensTypes
  <2>1. ASSUME act' = act, UNCHANGED kept PROVE act' \in [Acts -> ActRecord] /\ Dismissals' /\ ActsApart'
    BY <2>0, <2>1 DEF ScreensInv, Dismissals, ActsApart
  <2>2. CASE Refresh
    BY <2>0, <2>1, <2>2, FiltersKeep DEF Refresh, dataVars
  <2>3. ASSUME NEW f \in Filters, SetFilters(f) PROVE ScreensInv'
    BY <2>0, <2>1, <2>3, FiltersKeep DEF SetFilters, dataVars
  <2>4. ASSUME NEW k, AnswerLoad(k) \/ Apply(k) \/ LoadFailed(k) PROVE ScreensInv'
    BY <2>4, LoadsKeep
  <2>5. ASSUME NEW a \in Acts, NEW s \in FeedSignals, NEW kind \in {"acknowledge", "act", "dismiss"},
               HandleAction(a, s, kind)
        PROVE  ScreensInv'
    BY <2>5, PressKeeps DEF HandleAction
  <2>6. ASSUME NEW a \in Acts, NEW p \in Prompts, HandlePin(a, p) \/ HandleUnpin(a, p) PROVE ScreensInv'
    BY <2>6, PressKeeps DEF HandlePin, HandleUnpin
  <2>7. ASSUME NEW a \in Acts,
               ActionSignal(a) \/ PinStandingPrompt(a) \/ Dismissed(a) \/ Answered(a) \/ ActFailed(a)
        PROVE  ScreensInv'
    BY <2>7, CarriesOutKeeps, DismissedKeeps, AnsweredKeeps
  <2>8. CASE \/ \E s \in FeedSignals, to \in {"Generated", "Queued", "Delivered", "Suppressed"} : SignalMoves(s, to)
             \/ \E p \in Prompts : VersionMoves(p)
    BY <2>8, OthersKeep
  <2>9. CASE UNCHANGED screensVars
    <3>1. UNCHANGED <<kept, pinned, screen, chosen, listed, loads, loading, act, asked, muddled>>
      BY <2>9 DEF screensVars, dataVars
    <3>2. \A x : Effective(x)' <=> Effective(x)
      BY <3>1 DEF Effective
    <3>3. FreshestAgree'
      BY <3>1, <3>2, FreshestKept
    <3> QED BY <2>1, <3>1, <3>3 DEF ScreensInv, ScreensTypes, SeenDelivered
  <2> QED BY <2>2, <2>3, <2>4, <2>5, <2>6, <2>7, <2>8, <2>9 DEF ScreensNext
<1> QED BY <1>1, <1>2, PTL DEF ScreensSpec

\* A page with nothing under way shows what the database holds, unless it was muddled.
THEOREM ScreensCorrect == ScreensSpec => [](ScreensTypeOK /\ ScreensCurrent)
<1>1. ScreensInv => ScreensTypeOK /\ ScreensCurrent
  <2> SUFFICES ASSUME ScreensInv PROVE ScreensTypeOK /\ ScreensCurrent
    OBVIOUS
  <2>1. ScreensTypes
    BY DEF ScreensInv
  <2>2. ScreensTypeOK
    BY <2>1, ScreensAssumption DEF ScreensTypes, ScreensTypeOK, KeptStatuses
  <2>3. ScreensCurrent
    <3> SUFFICES ASSUME loads = <<>>, NoActs, ~muddled PROVE listed = Listing(chosen)
      BY DEF ScreensCurrent
    <3>1. Agrees(listed, chosen)
      BY DEF ScreensInv, FreshestAgree
    <3>2. \A x : ~Effective(x)
      BY DEF NoActs, Effective
    <3>3. listed \subseteq ScreenRows /\ Listing(chosen) \subseteq ScreenRows
      BY <2>1, ListingRows DEF ScreensTypes
    <3> QED BY <3>1, <3>2, <3>3 DEF Agrees
  <2> QED BY <2>2, <2>3
<1> QED BY <1>1, ScreensInductive, PTL

-----------------------------------------------------------------------------
(* The components together.                                                *)

\* A behaviour of the whole is one of each component: nothing that one does touches the
\* state of another.
LEMMA MarketRuns ==
  MarketSideSpec => Spec /\ MarketSpec /\ ReplaySpec /\ ScreensSpec
<1>1. MarketSideInit => Init /\ MarketInit /\ ReplayInit /\ ScreensInit
  BY DEF MarketSideInit
<1>2. [MarketSideNext]_marketSideVars =>
        [Next]_vars /\ [MarketNext]_marketVars /\ [ReplayNext]_replayVars /\ [ScreensNext]_screensVars
  BY DEF MarketSideNext, marketSideVars
<1> QED
  BY <1>1, <1>2, PTL DEF MarketSideSpec, Spec, MarketSpec, ReplaySpec, ScreensSpec

\* Every variable of the four components keeps to its type, for every value of the constants.
THEOREM MarketTypes == MarketSideSpec => []MarketSideTypeOK
  BY MarketRuns, SignalCorrect, EventsCorrect, ReplayTypes, ScreensCorrect, PTL DEF MarketSideTypeOK

\* What the store says of an event or an alert is so: the moves of an event are one path of
\* its status machine and each was told to one caller, two open events of one identity come
\* from callers that looked before either inserted, only an event whose window is over passes
\* in silence, and a cold alert can be brought back.
THEOREM RowsTold == MarketSideSpec => []RowsTruthful
  BY MarketRuns, EventsCorrect, ColdCorrect, PTL DEF RowsTruthful

\* A resolution by the routing is at least as specific as every prompt that was active when the
\* request came, wherever pages, archivers and event windows move beside it.
THEOREM RoutingSpecific == MarketSideSpec => []ResolvedMostSpecific
  BY MarketRuns, SignalCorrect, PTL
=============================================================================
