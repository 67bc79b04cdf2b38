----------------------------- MODULE MCCuration -----------------------------
(***************************************************************************)
(* Instances of WikiRebuild, StandingPrompt, EdgarIngest and Genesis for   *)
(* TLC. The components share no state here: `part' says which of them      *)
(* moves in a behaviour, so that one run explores each of them and not     *)
(* their product.                                                          *)
(***************************************************************************)
EXTENDS WikiRebuild, StandingPrompt, EdgarIngest, Genesis, TLC

CONSTANTS w1, w2, w3, fact1, fact2, chunk1,  \* WikiRebuild
          v1, v2, v3,                        \* StandingPrompt; its workers are w1 to w3
          f1, f2, f3, f4, p1, p2             \* EdgarIngest

\* Two ticks a day: f1 and f2 on one day, f3 on the next, f4 on the one after.
DateDef == f1 :> 2 @@ f2 :> 3 @@ f3 :> 4 @@ f4 :> 6
DayOfDef == [t \in 0..6 |-> t \div 2]

VARIABLE part  \* the component that moves in this behaviour

curationVars == <<part,
    wikiVars, promptVars, vars, genesisVars>>

CurationInit ==
  /\ part \in {"wiki", "prompt", "edgar", "genesis"}
  /\ WikiInit
  /\ PromptInit
  /\ Init
  /\ GenesisInit

CurationNext ==
  \/ /\ part = "wiki" /\ WikiNext
     /\ UNCHANGED <<part, promptVars, vars, genesisVars>>
  \/ /\ part = "prompt" /\ PromptNext
     /\ UNCHANGED <<part, wikiVars, vars, genesisVars>>
  \/ /\ part = "edgar" /\ Next
     /\ UNCHANGED <<part, wikiVars, promptVars, genesisVars>>
  \/ /\ part = "genesis" /\ GenesisNext
     /\ UNCHANGED <<part, wikiVars, promptVars, vars>>

CurationSpec == CurationInit /\ [][CurationNext]_curationVars

\* The fairness of each component while it is the one that moves: every call of a task that
\* runs returns, PostgreSQL grants a free lock, a worker goes on with the poll it has
\* started, and Kubernetes restarts the job.  Nothing obliges a task to come: nothing
\* schedules WIKI_REBUILD, and nobody recovers the claim of a worker that is gone.
WikiGoes(w)   == part = "wiki" /\ ~WikiAt(w, "idle") /\ Step(w)
                 /\ UNCHANGED <<part, promptVars, vars, genesisVars>>
PromptGoes(w) == part = "prompt" /\ (Distil(w) \/ Transaction(w))
                 /\ UNCHANGED <<part, wikiVars, vars, genesisVars>>
PollGoes(p)   == part = "edgar" /\ Poll(p) /\ UNCHANGED <<part, wikiVars, promptVars, genesisVars>>
JobGoes       == part = "genesis" /\ RunStep /\ UNCHANGED <<part, wikiVars, promptVars, vars>>

CurationFairSpec ==
  /\ CurationSpec
  /\ \A w \in WikiWorkers : WF_curationVars(WikiGoes(w))
  /\ \A w \in Workers : WF_curationVars(PromptGoes(w))
  /\ \A p \in Pollers : WF_curationVars(PollGoes(p))
  /\ WF_curationVars(JobGoes)

\* Every variable of the four keeps to its type.
CurationTypeOK == WikiTypeOK /\ PromptTypeOK /\ TypeOK /\ GenesisTypeOK

\* The i-th thing that may be under way where `part' moves: a version of the page that a
\* rebuild is at, after so many stops; an activation; a poll; or the job that makes the
\* database, where it was given the credentials it requires.
Rebuilt      == <<[version |-> 1, stops |-> 1], [version |-> 2, stops |-> 1],
                  [version |-> 2, stops |-> 0]>>
PromptWorker == <<w1, w2, w3>>
Poller       == <<p1, p2>>

IsBegun(i) ==
  \/ part = "wiki"    /\ wikiStops = Rebuilt[i].stops
                      /\ \E w \in WikiWorkers : wikiWorker[w].at = Rebuilt[i].version
  \/ part = "prompt"  /\ PromptAt(PromptWorker[i], "check")
  \/ part = "edgar"   /\ i \in 1..2 /\ poll[Poller[i]].pc \notin {"idle", "done"}
  \/ part = "genesis" /\ i = 1 /\ run.status = "running" /\ Credentials \subseteq env

IsOver(i) ==
  \/ part = "wiki"    /\ \/ wikiStops > Rebuilt[i].stops
                         \/ wikiVersion[Rebuilt[i].version].status = "indexed"
  \/ part = "prompt"  /\ PromptAt(PromptWorker[i], "idle")
  \/ part = "edgar"   /\ i \in 1..2 /\ poll[Poller[i]].pc = "done"
  \/ part = "genesis" /\ i = 1 /\ run.status = "done"

\* What was begun ends.  A rebuild indexes the version it made or resumed, whatever other
\* rebuilds of the page run beside it and wherever the one before it stopped, unless one
\* stops again: "A crashed rebuild resumes from the stalled stage" holds of the rebuild that
\* comes, not that one comes.  Activations that wait for the rows and the pointer of each
\* other do not deadlock.  A poll ends whatever the entries it meets.  Every call of the
\* database job can be repeated: with the retries after its failures it succeeds, if it has
\* the credentials that init-remote.ts:153 requires.
WorkEnds == \A i \in 1..3 : IsBegun(i) ~> IsOver(i)
=============================================================================
