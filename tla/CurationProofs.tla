--------------------------- MODULE CurationProofs ----------------------------
(***************************************************************************)
(* The wiki, the standing prompts, the EDGAR filings and the job that      *)
(* makes the databases, for any facts, versions, filings, dates, workers   *)
(* and pollers and any values of the numeric constants: the inductive      *)
(* invariant of each component, what it implies, and that it holds of the  *)
(* component wherever the others run.                                      *)
(***************************************************************************)
EXTENDS MCCuration, FiniteSetTheorems, TLAPS

-----------------------------------------------------------------------------
(* Wiki rebuild.                                                           *)

\* The statuses from which a version has a body, and those from which it is embedded.
HasBody == {"content_written", "embedded", "indexed"}
Embedded == {"embedded", "indexed"}

\* What the next call of a worker asks of the row it is at: the row is never behind it.
Ready(w) ==
  /\ wikiWorker[w].pc \in {"content", "embed", "publish", "cite"} => wikiWorker[w].at \in Versions
  /\ WikiAt(w, "content") => wikiVersion[wikiWorker[w].at].status # "absent"
  /\ WikiAt(w, "embed") => wikiVersion[wikiWorker[w].at].status \in HasBody
  /\ WikiAt(w, "publish") => wikiVersion[wikiWorker[w].at].status \in Embedded
  /\ WikiAt(w, "cite") => wikiVersion[wikiWorker[w].at].status = "indexed"

RowAheadOfWorker == \A w \in WikiWorkers : Ready(w)

\* The rows: none beyond the last version made, and a body from the content stage on.
RowsInv ==
  \A v \in Versions :
    /\ v > made <=> wikiVersion[v].status = "absent"
    /\ wikiVersion[v].status \in HasBody => wikiVersion[v].body \in SUBSET Facts

\* A fact of the body that has no edge yet is still to be cited by a worker at the version:
\* the one that wrote the body goes through all the calls that follow.
Cites(w, v) ==
  /\ wikiWorker[w].at = v
  /\ \/ wikiWorker[w].pc \in {"embed", "publish"} /\ wikiVersion[v].body \subseteq wikiWorker[w].evidence
     \/ WikiAt(w, "cite") /\ wikiVersion[v].body \subseteq wikiWorker[w].uncited \cup wikiVersion[v].cites

WriterCites ==
  wikiStops = 0 => \A v \in Versions : wikiVersion[v].status \in HasBody =>
    \/ wikiVersion[v].body \subseteq wikiVersion[v].cites
    \/ \E w \in WikiWorkers : Cites(w, v)

WikiInv == WikiTypeOK /\ RowAheadOfWorker /\ RowsInv /\ PublishedIndexed /\ WriterCites

-----------------------------------------------------------------------------
\* The first state has no versions and idle workers.
LEMMA WikiStarts == WikiInit => WikiInv
<1> SUFFICES ASSUME WikiInit PROVE WikiInv  OBVIOUS
<1> USE WikiBoundsAssumption DEF WikiInit, NoWikiVersion, WikiIdle
<1>1. WikiTypeOK  BY DEF WikiTypeOK, WikiVersion, WikiWorker, Versions
<1>2. RowAheadOfWorker  BY DEF RowAheadOfWorker, Ready, WikiAt
<1>3. RowsInv  BY DEF RowsInv, Versions, HasBody
<1>4. PublishedIndexed  BY DEF PublishedIndexed
<1>5. WriterCites  BY DEF WriterCites, HasBody
<1> QED  BY <1>1, <1>2, <1>3, <1>4, <1>5 DEF WikiInv

\* A guarded UPDATE of a status leaves rows.
LEMMA AdvanceType ==
  ASSUME wikiVersion \in [Versions -> WikiVersion], NEW v \in Versions, NEW from,
         NEW to \in {"embedded", "indexed"}
  PROVE  Advance(v, from, [wikiVersion[v] EXCEPT !.status = to]) \in [Versions -> WikiVersion]
<1>1. [wikiVersion[v] EXCEPT !.status = to] \in WikiVersion  BY DEF WikiVersion
<1> QED  BY <1>1 DEF Advance

\* What one call does to the rows: a version is inserted, advances by one status, or gets
\* an edge.
LEMMA WikiTypeStep == WikiInv /\ [WikiNext]_wikiVars => WikiTypeOK'
<1> SUFFICES ASSUME WikiInv, [WikiNext]_wikiVars PROVE WikiTypeOK'  OBVIOUS
<1> USE WikiBoundsAssumption DEF WikiInv, WikiTypeOK, WikiVersion, WikiWorker, Versions
<1>1. ASSUME NEW e \in Evidence, NEW s \in SUBSET Facts, InsertEvidence(e, s) PROVE WikiTypeOK'
  BY <1>1 DEF InsertEvidence
<1>2. ASSUME NEW w \in WikiWorkers, FetchFacts(w) PROVE WikiTypeOK'
  BY <1>2 DEF FetchFacts, Becomes, WikiIdle, Evidence
<1>3. ASSUME NEW w \in WikiWorkers, FetchChunks(w) PROVE WikiTypeOK'
  BY <1>3 DEF FetchChunks, Becomes, Evidence
<1>4. ASSUME NEW w \in WikiWorkers, ResumeStalled(w) PROVE WikiTypeOK'
  <2>1. PICK v \in Versions : wikiWorker' = [wikiWorker EXCEPT
             ![w] = [wikiWorker[w] EXCEPT !.pc = NextCall(wikiVersion[v].status), !.at = v]]
    BY <1>4 DEF ResumeStalled, Becomes
  <2>2. NextCall(wikiVersion[v].status) \in {"content", "embed", "publish", "cite"}
    BY DEF NextCall
  <2> HIDE DEF Versions
  <2>3. wikiWorker' \in [WikiWorkers -> WikiWorker]  BY <2>1, <2>2
  <2> QED  BY <1>4, <2>3 DEF ResumeStalled
<1>5. ASSUME NEW w \in WikiWorkers, FindNone(w) PROVE WikiTypeOK'
  BY <1>5 DEF FindNone, Becomes
<1>6. ASSUME NEW w \in WikiWorkers, InsertWikiVersion(w) PROVE WikiTypeOK'
  <2>1. made + 1 \in Versions /\ made' = made + 1 /\ made' \in 0..MaxVersions
    BY <1>6 DEF InsertWikiVersion
  <2>2. wikiVersion' \in [Versions -> WikiVersion]  BY ZenonT(40), <1>6, <2>1 DEF InsertWikiVersion
  <2>3. wikiWorker' \in [WikiWorkers -> WikiWorker]  BY <1>6, <2>1 DEF InsertWikiVersion, Becomes
  <2> QED  BY <1>6, <2>1, <2>2, <2>3 DEF InsertWikiVersion
<1>7. ASSUME NEW w \in WikiWorkers, WriteContent(w) PROVE WikiTypeOK'
  <2>1. wikiWorker[w].at \in Versions  BY <1>7 DEF WriteContent, RowAheadOfWorker, Ready, WikiAt
  <2>2. wikiVersion' \in [Versions -> WikiVersion]
    <3> DEFINE r == [wikiVersion[wikiWorker[w].at] EXCEPT !.status = "content_written",
                          !.body = SynthesiseMarkdown(wikiWorker[w].evidence)]
    <3>0. SynthesiseMarkdown(wikiWorker[w].evidence) \in {NoPage} \cup SUBSET Facts
      BY DEF SynthesiseMarkdown
    <3>1. r \in WikiVersion
      <4>1. wikiVersion[wikiWorker[w].at] \in WikiVersion  BY <2>1
      <4> HIDE DEF Versions, SynthesiseMarkdown
      <4> QED  BY <3>0, <4>1
    <3>2. wikiVersion' = Advance(wikiWorker[w].at, "pending", r)  BY <1>7 DEF WriteContent
    <3> HIDE DEF r, WikiVersion
    <3> QED  BY <2>1, <3>1, <3>2 DEF Advance
  <2>3. wikiWorker' \in [WikiWorkers -> WikiWorker]  BY <1>7 DEF WriteContent, Becomes
  <2> QED  BY <1>7, <2>2, <2>3 DEF WriteContent
<1>8. ASSUME NEW w \in WikiWorkers, Embed(w) PROVE WikiTypeOK'
  <2>1. wikiWorker[w].at \in Versions  BY <1>8 DEF Embed, RowAheadOfWorker, Ready, WikiAt
  <2>2. wikiVersion' \in [Versions -> WikiVersion]
    BY <1>8, <2>1, AdvanceType DEF Embed
  <2>3. wikiWorker' \in [WikiWorkers -> WikiWorker]  BY <1>8 DEF Embed, Becomes
  <2> QED  BY <1>8, <2>2, <2>3 DEF Embed
<1>9. ASSUME NEW w \in WikiWorkers, PublishVersion(w) PROVE WikiTypeOK'
  <2>1. wikiWorker[w].at \in Versions  BY <1>9 DEF PublishVersion, RowAheadOfWorker, Ready, WikiAt
  <2>2. wikiVersion' \in [Versions -> WikiVersion]
    BY <1>9, <2>1, AdvanceType DEF PublishVersion
  <2>3. wikiWorker' \in [WikiWorkers -> WikiWorker]  BY <1>9 DEF PublishVersion, Becomes
  <2> QED  BY <1>9, <2>1, <2>2, <2>3 DEF PublishVersion
<1>10. ASSUME NEW w \in WikiWorkers, Cite(w) PROVE WikiTypeOK'
  <2>1. wikiVersion' \in [Versions -> WikiVersion] /\ wikiStops' \in 0..MaxWikiStops
    <3>1. wikiWorker[w].at \in Versions /\ wikiWorker[w].uncited \in SUBSET Evidence
      BY <1>10 DEF Cite, RowAheadOfWorker, Ready, WikiAt
    <3>2. \A e \in wikiWorker[w].uncited :
            [wikiVersion EXCEPT ![wikiWorker[w].at].cites = @ \cup {e}] \in [Versions -> WikiVersion]
      BY <3>1
    <3> QED  BY <1>10, <3>2 DEF Cite
  <2>2. wikiWorker' \in [WikiWorkers -> WikiWorker]  BY SMTT(40), <1>10 DEF Cite, Becomes
  <2> QED  BY <1>10, <2>1, <2>2 DEF Cite
<1>11. ASSUME NEW w \in WikiWorkers, Finish(w) PROVE WikiTypeOK'
  BY <1>11 DEF Finish, Becomes, WikiIdle
<1>12. ASSUME NEW w \in WikiWorkers, StopWiki(w) PROVE WikiTypeOK'
  BY <1>12 DEF StopWiki, Becomes, WikiIdle
<1>13. CASE UNCHANGED wikiVars  BY <1>13 DEF wikiVars
<1> QED
  BY <1>1, <1>2, <1>3, <1>4, <1>5, <1>6, <1>7, <1>8, <1>9, <1>10, <1>11, <1>12, <1>13
     DEF WikiNext, Step

\* No step takes a version back, and none changes a body that was written or drops an edge.
LEMMA VersionsAdvance ==
  ASSUME WikiInv, [WikiNext]_wikiVars, NEW v \in Versions
  PROVE  /\ wikiVersion[v].status # "absent" => wikiVersion'[v].status # "absent"
         /\ wikiVersion[v].status \in HasBody =>
              wikiVersion'[v].status \in HasBody /\ wikiVersion'[v].body = wikiVersion[v].body
         /\ wikiVersion[v].status \in Embedded => wikiVersion'[v].status \in Embedded
         /\ wikiVersion[v].status = "indexed" => wikiVersion'[v].status = "indexed"
         /\ wikiVersion[v].cites \subseteq wikiVersion'[v].cites
<1> DEFINE Goal ==
         /\ wikiVersion[v].status # "absent" => wikiVersion'[v].status # "absent"
         /\ wikiVersion[v].status \in HasBody =>
              wikiVersion'[v].status \in HasBody /\ wikiVersion'[v].body = wikiVersion[v].body
         /\ wikiVersion[v].status \in Embedded => wikiVersion'[v].status \in Embedded
         /\ wikiVersion[v].status = "indexed" => wikiVersion'[v].status = "indexed"
         /\ wikiVersion[v].cites \subseteq wikiVersion'[v].cites
<1> USE DEF WikiInv, WikiTypeOK, WikiVersion, HasBody, Embedded
<1>1. CASE UNCHANGED wikiVersion  BY <1>1
<1>2. ASSUME NEW w \in WikiWorkers, InsertWikiVersion(w) PROVE Goal
  <2>1. made + 1 \in Versions /\ wikiVersion[made + 1].status = "absent"
    BY <1>2, WikiBoundsAssumption DEF InsertWikiVersion, RowsInv, Versions
  <2> QED  BY <1>2, <2>1 DEF InsertWikiVersion
<1>3. ASSUME NEW w \in WikiWorkers, WriteContent(w) PROVE Goal
  BY <1>3 DEF WriteContent, Advance
<1>4. ASSUME NEW w \in WikiWorkers, Embed(w) PROVE Goal
  BY <1>4 DEF Embed, Advance
<1>5. ASSUME NEW w \in WikiWorkers, PublishVersion(w) PROVE Goal
  BY <1>5 DEF PublishVersion, Advance
<1>6. ASSUME NEW w \in WikiWorkers, Cite(w) PROVE Goal
  BY <1>6 DEF Cite
<1>7. CASE UNCHANGED wikiVars  BY <1>1, <1>7 DEF wikiVars
<1>8. ASSUME NEW e \in Evidence, NEW s \in SUBSET Facts, InsertEvidence(e, s) PROVE Goal
  BY <1>1, <1>8 DEF InsertEvidence
<1>9. ASSUME NEW w \in WikiWorkers,
             \/ FetchFacts(w) \/ FetchChunks(w) \/ ResumeStalled(w) \/ FindNone(w)
             \/ Finish(w) \/ StopWiki(w)
      PROVE Goal
  BY <1>1, <1>9 DEF FetchFacts, FetchChunks, ResumeStalled, FindNone, Finish, StopWiki
<1> QED
  BY <1>2, <1>3, <1>4, <1>5, <1>6, <1>7, <1>8, <1>9 DEF WikiNext, Step

\* A worker that does not move stays behind its row.
LEMMA OthersReady ==
  ASSUME WikiInv, [WikiNext]_wikiVars, NEW w \in WikiWorkers, wikiWorker'[w] = wikiWorker[w]
  PROVE  Ready(w)'
<1>1. Ready(w)  BY DEF WikiInv, RowAheadOfWorker, Ready
<1> QED  BY <1>1, VersionsAdvance DEF Ready, WikiAt

\* The worker that moves finds its row ready for its next call.
LEMMA MoverReady ==
  ASSUME WikiInv, [WikiNext]_wikiVars, NEW w \in WikiWorkers, Step(w) \/ StopWiki(w)
  PROVE  Ready(w)'
<1> USE DEF WikiInv, WikiTypeOK, Ready, WikiAt, Becomes
<1>0. Ready(w)  BY DEF RowAheadOfWorker
<1>1. CASE FetchFacts(w)  BY <1>1 DEF FetchFacts, WikiIdle
<1>2. CASE FetchChunks(w)  BY <1>2 DEF FetchChunks, WikiWorker
<1>3. CASE ResumeStalled(w)
  <2>1. PICK v \in Versions : /\ Stalled(v)
                              /\ wikiWorker'[w].at = v
                              /\ wikiWorker'[w].pc = NextCall(wikiVersion[v].status)
    BY <1>3 DEF ResumeStalled, LastStalled, WikiWorker
  <2>2. wikiVersion'[v].status = wikiVersion[v].status  BY <1>3 DEF ResumeStalled
  <2>3. wikiVersion[v].status \in {"pending", "content_written", "embedded"}
    BY <2>1 DEF Stalled, WikiVersion
  <2> QED  BY <2>1, <2>2, <2>3 DEF NextCall, HasBody, Embedded
<1>4. CASE FindNone(w)  BY <1>4 DEF FindNone, WikiWorker
<1>5. CASE InsertWikiVersion(w)
  <2>1. made + 1 \in Versions
    BY <1>5, WikiBoundsAssumption DEF InsertWikiVersion, Versions
  <2>2. wikiVersion'[made + 1].status = "pending"  BY <1>5, <2>1 DEF InsertWikiVersion, WikiVersion
  <2> QED  BY <1>5, <2>1, <2>2 DEF InsertWikiVersion, WikiWorker
<1>6. CASE WriteContent(w)
  <2>1. wikiWorker[w].at \in Versions /\ wikiVersion[wikiWorker[w].at].status # "absent"
    BY <1>0, <1>6 DEF WriteContent
  <2>2. wikiVersion'[wikiWorker[w].at].status \in HasBody
    BY <1>6, <2>1 DEF WriteContent, Advance, WikiVersion, HasBody
  <2> QED  BY <1>6, <2>1, <2>2 DEF WriteContent, WikiWorker
<1>7. CASE Embed(w)
  <2>1. wikiWorker[w].at \in Versions /\ wikiVersion[wikiWorker[w].at].status \in HasBody
    BY <1>0, <1>7 DEF Embed
  <2>2. wikiVersion'[wikiWorker[w].at].status \in Embedded
    BY <1>7, <2>1 DEF Embed, Advance, WikiVersion, HasBody, Embedded
  <2> QED  BY <1>7, <2>1, <2>2 DEF Embed, WikiWorker
<1>8. CASE PublishVersion(w)
  <2>1. wikiWorker[w].at \in Versions /\ wikiVersion[wikiWorker[w].at].status \in Embedded
    BY <1>0, <1>8 DEF PublishVersion
  <2>2. wikiVersion'[wikiWorker[w].at].status = "indexed"
    BY <1>8, <2>1 DEF PublishVersion, Advance, WikiVersion, Embedded
  <2> QED  BY <1>8, <2>1, <2>2 DEF PublishVersion, WikiWorker
<1>9. CASE Cite(w)
  <2>1. wikiWorker'[w].pc = "cite" /\ wikiWorker'[w].at = wikiWorker[w].at
    BY <1>9 DEF Cite, WikiWorker
  <2>2. wikiWorker[w].at \in Versions /\ wikiVersion[wikiWorker[w].at].status = "indexed"
    BY <1>0, <1>9 DEF Cite
  <2> QED  BY <2>1, <2>2, VersionsAdvance
<1>10. CASE Finish(w) \/ StopWiki(w)  BY <1>10 DEF Finish, StopWiki, WikiIdle
<1> QED
  BY <1>1, <1>2, <1>3, <1>4, <1>5, <1>6, <1>7, <1>8, <1>9, <1>10 DEF Step

\* Only the worker that takes a step changes.
LEMMA OneWorkerMoves ==
  ASSUME WikiInv, [WikiNext]_wikiVars, NEW w \in WikiWorkers
  PROVE  Step(w) \/ StopWiki(w) \/ wikiWorker'[w] = wikiWorker[w]
<1>1. CASE UNCHANGED wikiVars  BY <1>1 DEF wikiVars
<1>2. ASSUME NEW e \in Evidence, NEW s \in SUBSET Facts, InsertEvidence(e, s)
      PROVE wikiWorker'[w] = wikiWorker[w]
  BY <1>2 DEF InsertEvidence
<1>3. ASSUME NEW u \in WikiWorkers, Step(u) \/ StopWiki(u), u # w PROVE wikiWorker'[w] = wikiWorker[w]
  <2>1. \E r : wikiWorker' = [wikiWorker EXCEPT ![u] = r]
    BY <1>3 DEF Step, Becomes, FetchFacts, FetchChunks, ResumeStalled, FindNone, InsertWikiVersion,
       WriteContent, Embed, PublishVersion, Cite, Finish, StopWiki
  <2> QED  BY <1>3, <2>1 DEF WikiInv, WikiTypeOK
<1> QED  BY <1>1, <1>2, <1>3 DEF WikiNext

\* No worker's next call gets ahead of the row it is at.
LEMMA AheadStep == WikiInv /\ [WikiNext]_wikiVars => RowAheadOfWorker'
<1> SUFFICES ASSUME WikiInv, [WikiNext]_wikiVars, NEW w \in WikiWorkers PROVE Ready(w)'
  BY DEF RowAheadOfWorker, Ready
<1> QED  BY OthersReady, MoverReady, OneWorkerMoves

\* Versions are made in order, and a version that is past the content stage has a body.
LEMMA RowsStep == WikiInv /\ [WikiNext]_wikiVars => RowsInv'
<1> SUFFICES ASSUME WikiInv, [WikiNext]_wikiVars, NEW v \in Versions
             PROVE  /\ v > made' <=> wikiVersion'[v].status = "absent"
                    /\ wikiVersion'[v].status \in HasBody => wikiVersion'[v].body \in SUBSET Facts
  BY DEF RowsInv, Versions
<1> DEFINE Goal == /\ v > made' <=> wikiVersion'[v].status = "absent"
                   /\ wikiVersion'[v].status \in HasBody => wikiVersion'[v].body \in SUBSET Facts
<1>0. /\ v > made <=> wikiVersion[v].status = "absent"
      /\ wikiVersion[v].status \in HasBody => wikiVersion[v].body \in SUBSET Facts
      /\ made \in Nat /\ v \in Nat
  BY WikiBoundsAssumption DEF WikiInv, RowsInv, WikiTypeOK, Versions
<1> USE DEF WikiInv, WikiTypeOK, WikiVersion, HasBody
<1>1. CASE UNCHANGED <<made, wikiVersion>>  BY <1>0, <1>1
<1>2. ASSUME NEW w \in WikiWorkers, InsertWikiVersion(w) PROVE Goal
  <2>1. made' = made + 1 /\ wikiVersion' = [wikiVersion EXCEPT ![made + 1].status = "pending"]
    BY <1>2 DEF InsertWikiVersion
  <2>2. CASE v = made + 1  BY <1>0, <2>1, <2>2
  <2>3. CASE v # made + 1  BY <1>0, <2>1, <2>3
  <2> QED  BY <2>2, <2>3
<1>3. ASSUME NEW w \in WikiWorkers, WriteContent(w) PROVE Goal
  <2>1. made' = made /\ wikiVersion' = Advance(wikiWorker[w].at, "pending",
          [wikiVersion[wikiWorker[w].at] EXCEPT !.status = "content_written",
                              !.body = SynthesiseMarkdown(wikiWorker[w].evidence)])
    BY <1>3 DEF WriteContent
  <2>2. SynthesiseMarkdown(wikiWorker[w].evidence) \in SUBSET Facts  BY DEF SynthesiseMarkdown
  <2>3. CASE v = wikiWorker[w].at  BY <1>0, <2>1, <2>2, <2>3 DEF Advance
  <2>4. CASE v # wikiWorker[w].at  BY <1>0, <2>1, <2>4 DEF Advance
  <2> QED  BY <2>3, <2>4
<1>4. ASSUME NEW w \in WikiWorkers, Embed(w) PROVE Goal
  BY <1>0, <1>4 DEF Embed, Advance
<1>5. ASSUME NEW w \in WikiWorkers, PublishVersion(w) PROVE Goal
  BY <1>0, <1>5 DEF PublishVersion, Advance
<1>6. ASSUME NEW w \in WikiWorkers, Cite(w) PROVE Goal
  BY <1>0, <1>6 DEF Cite
<1>7. CASE UNCHANGED wikiVars  BY <1>1, <1>7 DEF wikiVars
<1>8. ASSUME NEW e \in Evidence, NEW s \in SUBSET Facts, InsertEvidence(e, s) PROVE Goal
  BY <1>1, <1>8 DEF InsertEvidence
<1>9. ASSUME NEW w \in WikiWorkers,
             \/ FetchFacts(w) \/ FetchChunks(w) \/ ResumeStalled(w) \/ FindNone(w)
             \/ Finish(w) \/ StopWiki(w)
      PROVE Goal
  BY <1>1, <1>9 DEF FetchFacts, FetchChunks, ResumeStalled, FindNone, Finish, StopWiki
<1> QED
  BY <1>2, <1>3, <1>4, <1>5, <1>6, <1>7, <1>8, <1>9 DEF WikiNext, Step

\* The pointer moves only to the version of a worker that publishes, which is embedded at
\* least and indexed by the same transaction.
LEMMA PublishedStep == WikiInv /\ [WikiNext]_wikiVars => PublishedIndexed'
<1> SUFFICES ASSUME WikiInv, [WikiNext]_wikiVars, published' # NoPage
             PROVE  /\ wikiVersion'[published'].status = "indexed"
                    /\ wikiVersion'[published'].body # NoPage
  BY DEF PublishedIndexed
<1>1. ASSUME NEW w \in WikiWorkers, PublishVersion(w)
      PROVE  published' \in Versions /\ wikiVersion'[published'].status = "indexed"
  <2>1. Ready(w) /\ published' = wikiWorker[w].at
    BY <1>1 DEF WikiInv, RowAheadOfWorker, Ready, PublishVersion
  <2>2. published' \in Versions /\ wikiVersion[published'].status \in Embedded
    BY <1>1, <2>1 DEF Ready, PublishVersion, WikiAt
  <2> QED  BY <1>1, <2>1, <2>2 DEF PublishVersion, Advance, Embedded, WikiInv, WikiTypeOK, WikiVersion
<1>2. CASE published' = published
  <2>1. published' \in Versions  BY <1>2 DEF WikiInv, WikiTypeOK
  <2>2. wikiVersion[published'].status = "indexed"  BY <1>2 DEF WikiInv, PublishedIndexed
  <2> QED  BY <2>1, <2>2, VersionsAdvance, RowsStep, NoPageAssumption DEF RowsInv, HasBody, Versions
<1>3. published' = published \/ \E w \in WikiWorkers : PublishVersion(w)
  BY DEF WikiNext, Step, wikiVars, InsertEvidence, FetchFacts, FetchChunks, ResumeStalled, FindNone,
     InsertWikiVersion, WriteContent, Embed, Cite, Finish, StopWiki
<1>4. published' \in Versions /\ wikiVersion'[published'].status = "indexed"
      => wikiVersion'[published'].body # NoPage
  BY RowsStep, NoPageAssumption DEF RowsInv, HasBody, Versions
<1> QED  BY <1>1, <1>2, <1>3, <1>4

\* A worker that is to cite a fact of the body, and moves, has cited it or is still to do so.
LEMMA WriterStep ==
  ASSUME WikiInv, [WikiNext]_wikiVars, wikiStops' = 0, NEW v \in Versions, NEW w \in WikiWorkers,
         Cites(w, v), wikiVersion[v].status \in HasBody
  PROVE  wikiVersion'[v].body \subseteq wikiVersion'[v].cites \/ Cites(w, v)'
<1>0. wikiVersion'[v].body = wikiVersion[v].body /\ wikiVersion[v].cites \subseteq wikiVersion'[v].cites
  BY VersionsAdvance
<1>1. CASE wikiWorker'[w] = wikiWorker[w]  BY <1>0, <1>1 DEF Cites, WikiAt
<1>2. CASE StopWiki(w)  BY <1>2 DEF StopWiki, WikiInv, WikiTypeOK
<1> USE DEF WikiInv, WikiTypeOK, WikiAt, Becomes, WikiWorker
<1>3. CASE Embed(w)  BY <1>0, <1>3 DEF Embed, Cites
<1>4. CASE PublishVersion(w)  BY <1>0, <1>4 DEF PublishVersion, Cites
<1>5. CASE Cite(w)
  <2>1. PICK e \in wikiWorker[w].uncited :
          /\ wikiWorker' = [wikiWorker EXCEPT ![w].uncited = @ \ {e}]
          /\ wikiVersion' = [wikiVersion EXCEPT ![v].cites = @ \cup {e}] \/ wikiStops' = wikiStops + 1
    BY <1>5 DEF Cite, Cites
  <2>2. wikiVersion'[v].cites = wikiVersion[v].cites \cup {e}
    BY <2>1 DEF WikiVersion
  <2> QED  BY <1>0, <1>5, <2>1, <2>2 DEF Cites, Cite
<1>6. CASE Finish(w)
  BY <1>0, <1>6 DEF Finish, Cites
<1>7. CASE FetchFacts(w) \/ FetchChunks(w) \/ ResumeStalled(w) \/ FindNone(w) \/ InsertWikiVersion(w)
           \/ WriteContent(w)
  BY <1>7 DEF FetchFacts, FetchChunks, ResumeStalled, FindNone, InsertWikiVersion, WriteContent, Cites
<1> QED  BY <1>1, <1>2, <1>3, <1>4, <1>5, <1>6, <1>7, OneWorkerMoves DEF Step

\* What a body names is cited, or a worker is still to cite it.
LEMMA WriterCitesStep == WikiInv /\ [WikiNext]_wikiVars => WriterCites'
<1> SUFFICES ASSUME WikiInv, [WikiNext]_wikiVars, wikiStops' = 0, NEW v \in Versions,
                    wikiVersion'[v].status \in HasBody
             PROVE  \/ wikiVersion'[v].body \subseteq wikiVersion'[v].cites
                    \/ \E w \in WikiWorkers : Cites(w, v)'
  BY DEF WriterCites, Versions
<1>1. wikiStops = 0
  <2>1. wikiStops' = wikiStops \/ wikiStops' = wikiStops + 1
    BY DEF WikiNext, wikiVars, Step, InsertEvidence, FetchFacts, FetchChunks,
       ResumeStalled, FindNone, InsertWikiVersion, WriteContent, Embed, PublishVersion, Cite, Finish,
       StopWiki
  <2>2. wikiStops \in Nat  BY WikiBoundsAssumption DEF WikiInv, WikiTypeOK
  <2> QED  BY <2>1, <2>2
<1>2. CASE wikiVersion[v].status \in HasBody
  <2>1. CASE wikiVersion[v].body \subseteq wikiVersion[v].cites
    BY <1>2, <2>1, VersionsAdvance
  <2>2. CASE \E w \in WikiWorkers : Cites(w, v)
    BY <1>2, <2>2, WriterStep
  <2> QED  BY <1>1, <1>2, <2>1, <2>2 DEF WikiInv, WriterCites
<1>3. CASE wikiVersion[v].status \notin HasBody
  <2> USE DEF WikiInv, WikiTypeOK, WikiVersion, HasBody
  <2>1. ASSUME NEW w \in WikiWorkers, WriteContent(w) PROVE Cites(w, v)'
    <3>1. v = wikiWorker[w].at  BY <1>3, <2>1 DEF WriteContent, Advance
    <3>2. wikiVersion'[v].body \subseteq wikiWorker[w].evidence
      BY <1>3, <2>1, <3>1 DEF WriteContent, Advance, SynthesiseMarkdown
    <3>3. wikiWorker'[w] = [wikiWorker[w] EXCEPT !.pc = "embed"]
      BY <2>1 DEF WriteContent, Becomes
    <3> QED  BY <3>1, <3>2, <3>3 DEF Cites, WikiWorker
  <2>2. ~ UNCHANGED wikiVersion  BY <1>3
  <2>3. ASSUME NEW w \in WikiWorkers, InsertWikiVersion(w) PROVE FALSE
    BY <1>3, <2>3 DEF InsertWikiVersion
  <2>4. ASSUME NEW w \in WikiWorkers, Embed(w) PROVE FALSE
    BY <1>3, <2>4 DEF Embed, Advance
  <2>5. ASSUME NEW w \in WikiWorkers, PublishVersion(w) PROVE FALSE
    BY <1>3, <2>5 DEF PublishVersion, Advance
  <2>6. ASSUME NEW w \in WikiWorkers, Cite(w) PROVE FALSE
    BY <1>3, <2>6 DEF Cite
  <2> QED
    BY <2>1, <2>2, <2>3, <2>4, <2>5, <2>6 DEF WikiNext, wikiVars, Step, InsertEvidence, FetchFacts, FetchChunks,
       ResumeStalled, FindNone, Finish, StopWiki
<1> QED  BY <1>2, <1>3

-----------------------------------------------------------------------------
\* The parts of the invariant hold together at every step of a rebuild, its stops included.
THEOREM WikiInductive == WikiSpec => []WikiInv
<1>1. WikiInv /\ [WikiNext]_wikiVars => WikiInv'
  BY WikiTypeStep, AheadStep, RowsStep, PublishedStep, WriterCitesStep DEF WikiInv
<1> QED  BY <1>1, WikiStarts, PTL DEF WikiSpec

\* For any facts, versions and workers: what is published is indexed and has a body, and a
\* version indexed without a stop has an edge for every fact of its body.
THEOREM WikiCorrect == WikiSpec => []WikiSound
<1>1. WikiInv => BodyCited
  <2> SUFFICES ASSUME WikiInv, NEW v \in Versions, wikiStops = 0, wikiVersion[v].status = "indexed",
                      \A w \in WikiWorkers : wikiWorker[w].at # v
               PROVE  wikiVersion[v].body \subseteq wikiVersion[v].cites
    BY DEF BodyCited
  <2> QED  BY DEF WikiInv, WriterCites, HasBody, Cites
<1>2. WikiInv => WikiSound  BY <1>1 DEF WikiInv, WikiSound
<1> QED  BY <1>2, WikiInductive, PTL

-----------------------------------------------------------------------------
(* Standing prompts.                                                       *)

\* A task that is under way has a draft of its own, which no other task has.
OwnDrafts ==
  /\ \A w \in Workers : ~PromptAt(w, "idle") =>
       worker[w].window \in Windows /\ version[worker[w].window].status = "draft"
  /\ \A u, w \in Workers : u # w /\ ~PromptAt(u, "idle") /\ ~PromptAt(w, "idle") =>
       worker[u].window # worker[w].window

\* The rows that open transactions have changed are active until they commit, and no row
\* is changed by two of them.
LocksDisjoint ==
  /\ \A w \in Workers : worker[w].locked \subseteq Active
  /\ \A u, w \in Workers : u # w => worker[u].locked \cap worker[w].locked = {}

PromptInv == PromptTypeOK /\ OwnDrafts /\ LocksDisjoint /\ PointerActive

-----------------------------------------------------------------------------
\* At the start there is no version and no task.
LEMMA PromptStarts == PromptInit => PromptInv
<1> SUFFICES ASSUME PromptInit PROVE PromptInv  OBVIOUS
<1> USE PromptBoundsAssumption DEF PromptInit, NoVersion, Idle
<1>1. PromptTypeOK  BY DEF PromptTypeOK, Version, Worker
<1>2. OwnDrafts  BY DEF OwnDrafts, PromptAt
<1>3. LocksDisjoint  BY DEF LocksDisjoint
<1>4. PointerActive  BY DEF PointerActive, Active
<1> QED  BY <1>1, <1>2, <1>3, <1>4 DEF PromptInv

\* The rows and the tasks keep to their types.
LEMMA PromptTypeStep == PromptInv /\ [PromptNext]_promptVars => PromptTypeOK'
<1> SUFFICES ASSUME PromptInv, [PromptNext]_promptVars PROVE PromptTypeOK'  OBVIOUS
<1> USE PromptBoundsAssumption DEF PromptInv, PromptTypeOK, Version, Worker
<1>1. ASSUME NEW w \in Workers, NEW v \in Windows, InsertVersion(w, v) PROVE PromptTypeOK'
  BY <1>1 DEF InsertVersion, Idle
<1>2. ASSUME NEW w \in Workers, Distil(w) PROVE PromptTypeOK'
  BY <1>2 DEF Distil, Goes
<1>3. ASSUME NEW w \in Workers, CheckPinned(w) PROVE PromptTypeOK'
  BY <1>3 DEF CheckPinned, Goes, Idle
<1>4. ASSUME NEW w \in Workers, Snapshot(w) PROVE PromptTypeOK'
  <2>1. Active \in SUBSET Windows  BY DEF Active
  <2>2. worker[w] \in Worker  OBVIOUS
  <2>3. [worker[w] EXCEPT !.pc = "supersede", !.seen = Active] \in Worker  BY <2>1, <2>2
  <2>4. /\ worker' = [worker EXCEPT ![w] = [worker[w] EXCEPT !.pc = "supersede", !.seen = Active]]
        /\ UNCHANGED <<version, pointer, pins, stops>>
    BY <1>4 DEF Snapshot
  <2> HIDE DEF Worker, Version
  <2>5. worker' \in [Workers -> Worker]  BY <2>3, <2>4
  <2> QED  BY <2>4, <2>5
<1>5. ASSUME NEW w \in Workers, Supersede(w) PROVE PromptTypeOK'
  <2>1. worker[w] \in Worker /\ worker[w].seen \cap Active \in SUBSET Windows  BY DEF Active
  <2>2. PICK r \in SUBSET Windows : r = worker[w].seen \cap Active  BY <2>1
  <2>3. PICK m \in Worker : m = [worker[w] EXCEPT !.pc = "activate", !.locked = r]  BY <2>1
  <2>4. worker' = [worker EXCEPT ![w] = m]  BY <1>5, <2>2, <2>3 DEF Supersede
  <2>5. worker' \in [Workers -> Worker]  BY <2>3, <2>4
  <2> QED  BY <1>5, <2>5 DEF Supersede
<1>6. ASSUME NEW w \in Workers, Activate(w) \/ Point(w) PROVE PromptTypeOK'
  BY <1>6 DEF Activate, Point, Goes
<1>7. ASSUME NEW w \in Workers, Commit(w) PROVE PromptTypeOK'
  BY <1>7 DEF Commit, Committed, Idle
<1>8. ASSUME NEW w \in Workers, Stop(w) PROVE PromptTypeOK'
  BY <1>8 DEF Stop, Idle
<1>9. ASSUME NEW pinned \in BOOLEAN, SetPinned(pinned) PROVE PromptTypeOK'
  BY <1>9 DEF SetPinned
<1>10. CASE UNCHANGED promptVars  BY <1>10 DEF promptVars
<1> QED
  BY <1>1, <1>2, <1>3, <1>4, <1>5, <1>6, <1>7, <1>8, <1>9, <1>10 DEF PromptNext, Transaction

\* What a commit leaves: the locked rows superseded, the own draft active, the others alone.
LEMMA CommitRows ==
  ASSUME PromptInv, NEW w \in Workers, Commit(w)
  PROVE  /\ worker[w].window \in Windows /\ pointer' = worker[w].window
         /\ \A v \in Windows :
              /\ v \in worker[w].locked => version'[v].status = "superseded"
              /\ v = worker[w].window => version'[v].status = "active"
              /\ v \notin worker[w].locked \cup {worker[w].window} => version'[v] = version[v]
<1>1. /\ worker[w].window \in Windows /\ version[worker[w].window].status = "draft"
      /\ worker[w].locked \subseteq Active
  BY DEF PromptInv, OwnDrafts, LocksDisjoint, Commit, PromptAt
<1>2. worker[w].window \notin worker[w].locked  BY <1>1 DEF Active
<1> QED  BY <1>1, <1>2 DEF Commit, Committed, PromptInv, PromptTypeOK, Version

\* Every other step leaves the status of each version, but for the draft it inserts.
LEMMA OtherRows ==
  ASSUME PromptInv, [PromptNext]_promptVars, \A w \in Workers : ~Commit(w)
  PROVE  /\ pointer' = pointer
         /\ \A v \in Windows :
              \/ version'[v].status = version[v].status
              \/ version[v].status = "absent" /\ version'[v].status = "draft"
<1> USE DEF PromptInv, PromptTypeOK, Version
<1>1. ASSUME NEW w \in Workers, NEW v \in Windows, InsertVersion(w, v)
      PROVE  pointer' = pointer /\ \A u \in Windows :
               \/ version'[u].status = version[u].status
               \/ version[u].status = "absent" /\ version'[u].status = "draft"
  BY <1>1 DEF InsertVersion
<1>2. ASSUME NEW pinned \in BOOLEAN, SetPinned(pinned)
      PROVE  pointer' = pointer /\ \A u \in Windows : version'[u].status = version[u].status
  BY <1>2 DEF SetPinned
<1>3. ASSUME NEW w \in Workers,
             Distil(w) \/ CheckPinned(w) \/ Snapshot(w) \/ Supersede(w) \/ Activate(w) \/ Point(w) \/ Stop(w)
      PROVE  UNCHANGED <<version, pointer>>
  BY <1>3 DEF Distil, CheckPinned, Snapshot, Supersede, Activate, Point, Stop
<1>4. CASE UNCHANGED promptVars  BY <1>4 DEF promptVars
<1> QED  BY <1>1, <1>2, <1>3, <1>4 DEF PromptNext, Transaction

\* A draft stays its task's own: the steps of others do not touch it.
LEMMA DraftsStep == PromptInv /\ [PromptNext]_promptVars => OwnDrafts'
<1> SUFFICES ASSUME PromptInv, [PromptNext]_promptVars PROVE OwnDrafts'  OBVIOUS
<1> USE DEF PromptInv, PromptTypeOK, PromptAt
<1>1. ASSUME NEW w \in Workers, NEW v \in Windows, InsertVersion(w, v) PROVE OwnDrafts'
  <2>1. \A u \in Workers : ~PromptAt(u, "idle") => worker[u].window # v
    BY <1>1 DEF InsertVersion, OwnDrafts
  <2>2. /\ worker'[w].window = v /\ version'[v].status = "draft"
        /\ \A u \in Workers \ {w} : worker'[u] = worker[u]
        /\ \A u \in Windows \ {v} : version'[u] = version[u]
    BY <1>1 DEF InsertVersion, Version
  <2> QED  BY <2>1, <2>2 DEF OwnDrafts
<1>2. ASSUME NEW w \in Workers, Commit(w) PROVE OwnDrafts'
  <2>1. /\ worker'[w].pc = "idle"
        /\ \A u \in Workers \ {w} : worker'[u] = worker[u]
    BY <1>2 DEF Commit, Idle
  <2>2. ASSUME NEW u \in Workers \ {w}, ~PromptAt(u, "idle")
        PROVE  worker[u].window \notin worker[w].locked \cup {worker[w].window}
    BY <1>2, <2>2 DEF OwnDrafts, LocksDisjoint, Active, Commit
  <2> QED  BY <1>2, <2>1, <2>2, CommitRows DEF OwnDrafts
<1>3. ASSUME NEW w \in Workers,
             Distil(w) \/ CheckPinned(w) \/ Snapshot(w) \/ Supersede(w) \/ Activate(w) \/ Point(w) \/ Stop(w)
      PROVE  OwnDrafts'
  <2>1. \A u \in Workers : worker'[u].pc # "idle" =>
          worker[u].pc # "idle" /\ worker'[u].window = worker[u].window
    BY <1>3 DEF Distil, CheckPinned, Snapshot, Supersede, Activate, Point, Stop, Goes, Idle, Worker
  <2>2. UNCHANGED version
    BY <1>3 DEF Distil, CheckPinned, Snapshot, Supersede, Activate, Point, Stop
  <2> QED  BY <2>1, <2>2 DEF OwnDrafts
<1>4. ASSUME NEW pinned \in BOOLEAN, SetPinned(pinned) PROVE OwnDrafts'
  <2>1. \A w \in Workers : ~Commit(w)  BY <1>4, PromptBoundsAssumption DEF SetPinned, Commit
  <2>2. UNCHANGED worker  BY <1>4 DEF SetPinned
  <2> QED  BY <2>1, <2>2, OtherRows DEF OwnDrafts
<1>5. CASE UNCHANGED promptVars  BY <1>5 DEF promptVars, OwnDrafts
<1> QED  BY <1>1, <1>2, <1>3, <1>4, <1>5 DEF PromptNext, Transaction

\* Locks are taken on rows that nobody holds, and a commit changes its own rows only.
LEMMA LocksStep == PromptInv /\ [PromptNext]_promptVars => LocksDisjoint'
<1> SUFFICES ASSUME PromptInv, [PromptNext]_promptVars PROVE LocksDisjoint'  OBVIOUS
<1> USE DEF PromptInv, PromptTypeOK, Active
<1>1. ASSUME NEW w \in Workers, Commit(w) PROVE LocksDisjoint'
  <2>1. /\ worker'[w].locked = {}
        /\ \A u \in Workers \ {w} : worker'[u] = worker[u]
    BY <1>1 DEF Commit, Idle
  <2>2. ASSUME NEW u \in Workers \ {w}, NEW v \in worker[u].locked
        PROVE  v \in Windows /\ version'[v].status = "active"
    BY <1>1, CommitRows DEF LocksDisjoint
  <2> QED  BY <2>1, <2>2 DEF LocksDisjoint
<1>2. ASSUME NEW w \in Workers, Supersede(w) PROVE LocksDisjoint'
  <2>1. /\ worker'[w].locked = worker[w].seen \cap Active /\ UNCHANGED version
        /\ \A u \in Workers \ {w} : worker'[u] = worker[u]
    BY <1>2 DEF Supersede, Worker
  <2>2. \A u \in Workers \ {w} : worker[w].seen \cap worker[u].locked = {}
    BY <1>2 DEF Supersede, Locked
  <2> QED  BY <2>1, <2>2 DEF LocksDisjoint
<1>3. ASSUME \A w \in Workers : ~Commit(w), \A w \in Workers : ~Supersede(w) PROVE LocksDisjoint'
  <2>1. \A u \in Workers : worker'[u].locked \in {{}, worker[u].locked}
    <3> USE DEF Worker, Idle, Goes
    <3>1. ASSUME NEW w \in Workers, NEW v \in Windows, InsertVersion(w, v)
          PROVE  \A u \in Workers : worker'[u].locked \in {{}, worker[u].locked}
      BY <3>1 DEF InsertVersion
    <3>2. ASSUME NEW w \in Workers,
                 Distil(w) \/ CheckPinned(w) \/ Snapshot(w) \/ Activate(w) \/ Point(w) \/ Stop(w)
          PROVE  \A u \in Workers : worker'[u].locked \in {{}, worker[u].locked}
      BY <3>2 DEF Distil, CheckPinned, Snapshot, Activate, Point, Stop
    <3>3. CASE \E pinned \in BOOLEAN : SetPinned(pinned)  BY <3>3 DEF SetPinned
    <3> QED  BY <1>3, <3>1, <3>2, <3>3 DEF PromptNext, Transaction, promptVars
  <2>2. \A v \in Active : v \in Active'  BY <1>3, OtherRows
  <2> QED  BY <2>1, <2>2 DEF LocksDisjoint
<1> QED  BY <1>1, <1>2, <1>3, PromptBoundsAssumption DEF Commit, Supersede

\* The pointer follows the version that a commit activates.
LEMMA PointerStep == PromptInv /\ [PromptNext]_promptVars => PointerActive'
<1> SUFFICES ASSUME PromptInv, [PromptNext]_promptVars PROVE PointerActive'  OBVIOUS
<1> USE DEF PointerActive, Active
<1>1. ASSUME NEW w \in Workers, Commit(w) PROVE PointerActive'
  BY <1>1, CommitRows, NoWindowAssumption
<1>2. ASSUME \A w \in Workers : ~Commit(w) PROVE PointerActive'
  BY <1>2, OtherRows DEF PromptInv, PromptTypeOK
<1> QED  BY <1>1, <1>2

-----------------------------------------------------------------------------
\* The locks of a commit, the drafts and the pointer keep together at every step.
THEOREM PromptInductive == PromptSpec => []PromptInv
<1>1. PromptInv /\ [PromptNext]_promptVars => PromptInv'
  BY PromptTypeStep, DraftsStep, LocksStep, PointerStep DEF PromptInv
<1> QED  BY <1>1, PromptStarts, PTL DEF PromptSpec

\* For any versions and workers the pointer of the prompt is at the active version, if any.
THEOREM PromptPointerActive == PromptSpec => []PointerActive
<1>1. PromptInv => PointerActive  BY DEF PromptInv
<1> QED  BY <1>1, PromptInductive, PTL

-----------------------------------------------------------------------------
(* EDGAR ingestion.                                                        *)

(* Dates and days.                                                         *)

\* Marks and dates are ticks, and every one of them has a day to ask the feed
\* from.
LEMMA DateTypes ==
  /\ Marks \subseteq 0..LastTick
  /\ \A f \in Filings : Date[f] \in Marks /\ Date[f] \in 1..LastTick /\ Day(f) \in Nat
  /\ \A m \in Marks : Since(m) \in Nat
<1>1. \A f \in Filings : Date[f] \in 1..LastTick
  BY EdgarAssumption
<1>2. Marks \subseteq 0..LastTick
  BY DEF Marks
<1>3. \A f \in Filings : Day(f) \in Nat
  BY <1>1, EdgarAssumption DEF Day
<1>4. \A m \in Marks : Since(m) \in Nat
  <2> TAKE m \in Marks
  <2> (IF m > Overlap THEN m - Overlap ELSE 0) \in 0..LastTick
    BY <1>2, EdgarAssumption
  <2> QED
    BY EdgarAssumption DEF Since
<1>5. \A f \in Filings : Date[f] \in Marks
  BY <1>1, EdgarAssumption DEF Marks
<1> QED
  BY <1>1, <1>2, <1>3, <1>4, <1>5

\* The larger of two marks is one of them, so a candidate stays the date of a
\* filing.
LEMMA LargerMark ==
  ASSUME NEW a \in Marks, NEW b \in Marks
  PROVE  Larger(a, b) \in {a, b} /\ Larger(a, b) \in Marks
BY DEF Larger

\* The empty watermark is a mark.
LEMMA ZeroMark == 0 \in Marks
  BY EdgarAssumption DEF Marks

\* The date that an entry is posted with is a tick, and its own if it has one.
LEMMA FilingDates ==
  ASSUME NEW row, NEW f \in Filings
  PROVE  FiledAt(row, f) \subseteq Marks /\ (f \notin Undated => FiledAt(row, f) = {Date[f]})
BY DateTypes DEF FiledAt, Marks

\* The query of a poll covers the filings that are at most Overlap ticks older
\* than its mark, because the calendar is monotone.
LEMMA NotBehind ==
  ASSUME NEW f \in Filings, NEW m \in Marks, m <= Date[f] + Overlap
  PROVE  ~(Day(f) < Since(m))
<1> DEFINE from == IF m > Overlap THEN m - Overlap ELSE 0
<1>1. from \in 0..LastTick /\ Date[f] \in 0..LastTick /\ from <= Date[f]
  BY DateTypes, EdgarAssumption
<1>2. DayOf[from] <= DayOf[Date[f]]
  BY <1>1, EdgarAssumption
<1>3. DayOf[from] \in Nat /\ DayOf[Date[f]] \in Nat
  BY <1>1, EdgarAssumption
<1> HIDE DEF from
<1>4. ~(DayOf[Date[f]] < DayOf[from])
  BY <1>2, <1>3
<1> QED
  BY <1>4 DEF from, Since, Day

\* A first run asks for everything.
LEMMA ZeroNotBehind ==
  ASSUME NEW f \in Filings PROVE ~(Day(f) < Since(0))
<1> 0 \in Marks /\ 0 <= Date[f] + Overlap
  BY DateTypes, EdgarAssumption DEF Marks
<1> QED
  BY NotBehind

-----------------------------------------------------------------------------
(* Type correctness.                                                       *)

\* What each step makes of a well-typed poll is well typed.
LEMMA RowTypes ==
  ASSUME NEW row \in PollRows
  PROVE  /\ [NoPoll EXCEPT !.pc = "read"] \in PollRows
         /\ \A m \in Marks : Marked(row, m) \in PollRows
         /\ \A page, asked \in SUBSET Filings : Answered(row, page, asked) \in PollRows
         /\ \A f \in Filings : Skipped(row, f) \in PollRows /\ Written(row, f) \in PollRows
         /\ \A f \in Filings, d \in Marks : Seen(row, f, d) \in PollRows
         /\ Ended(row) \in PollRows /\ Broken(row) \in PollRows
<1>1. \A f \in Filings, d \in Marks : Seen(row, f, d) \in PollRows
  <2> TAKE f \in Filings, d \in Marks
  <2>1. Larger(row.candidate, d) \in Marks
    BY LargerMark DEF PollRows
  <2>4. row.stamped \in BOOLEAN
    BY DEF PollRows
  <2>5. (f \in Undated) = TRUE \/ (f \in Undated) = FALSE
    OBVIOUS
  <2>2. (f \in Undated) \in BOOLEAN /\ row.stamped \in BOOLEAN
    BY <2>4, <2>5, Zenon
  <2>3. (IF d > row.candidate THEN f \in Undated ELSE row.stamped) \in BOOLEAN
    BY <2>2, Zenon
  <2> QED
    BY <2>1, <2>3 DEF Seen, PollRows
<1>2. [NoPoll EXCEPT !.pc = "read"] \in PollRows
  BY ZeroMark DEF NoPoll, PollRows
<1>3. \A m \in Marks : Marked(row, m) \in PollRows
  BY DEF Marked, PollRows
<1>4. \A page, asked \in SUBSET Filings : Answered(row, page, asked) \in PollRows
  BY DEF Answered, PollRows
<1>5. \A f \in Filings : Skipped(row, f) \in PollRows /\ Written(row, f) \in PollRows
  BY DEF Skipped, Written, PollRows
<1>6. Ended(row) \in PollRows /\ Broken(row) \in PollRows
  BY DEF Ended, Broken, PollRows
<1> QED
  BY <1>1, <1>2, <1>3, <1>4, <1>5, <1>6

\* Where each step leaves a poll, and what it holds there.
LEMMA RowFields ==
  ASSUME NEW row \in PollRows
  PROVE  /\ [NoPoll EXCEPT !.pc = "read"].pc = "read"
         /\ \A m \in Marks : Marked(row, m).pc = "fetch"
         /\ \A page, asked \in SUBSET Filings : Answered(row, page, asked).pc = "entries"
         /\ \A f \in Filings :
              /\ Skipped(row, f).pc = row.pc
              /\ \A d \in Marks : Seen(row, f, d).pc = "entries"
              /\ Written(row, f).pc = "enqueue" /\ Written(row, f).entry = f
         /\ Ended(row).pc = "done" /\ Broken(row).pc = "done"
BY DEF NoPoll, Marked, Answered, Skipped, Seen, Written, Ended, Broken, PollRows

\* What a poll has in hand are filings.
LEMMA BatchType == ASSUME NEW row \in PollRows PROVE row.batch \subseteq Filings
  BY DEF PollRows

\* A poll that is about to enqueue knows for which filing.
EntryKnown == \A p \in Pollers : At(p, "enqueue") => poll[p].entry \in Filings

TypeInv == TypeOK /\ EntryKnown

\* No poll is under way at first.
LEMMA TypeInit == Init => TypeInv
  BY EdgarAssumption DEF Init, TypeInv, TypeOK, EntryKnown, At, NoPoll, PollRows, Marks

\* A step that replaces the row of one poller keeps the types of all rows.
LEMMA OneRow ==
  ASSUME TypeInv, NEW p \in Pollers, NEW row \in PollRows,
         row.pc = "enqueue" => row.entry \in Filings,
         poll' = [poll EXCEPT ![p] = row]
  PROVE  poll' \in [Pollers -> PollRows] /\ EntryKnown'
BY DEF TypeInv, TypeOK, EntryKnown, At

\* Each step of a poll, and each filing that is published, keeps the types.
LEMMA TypeStep == TypeInv /\ [Next]_vars => TypeInv'
<1> SUFFICES ASSUME TypeInv, [Next]_vars PROVE TypeInv'
  OBVIOUS
<1> USE DEF TypeInv, TypeOK
<1>1. ASSUME NEW f \in Filings, Publish(f) PROVE TypeInv'
  BY <1>1 DEF Publish, EntryKnown, At
<1>2. ASSUME NEW p \in Pollers, Start(p) PROVE TypeInv'
  <2> [NoPoll EXCEPT !.pc = "read"].pc # "enqueue"
    BY DEF NoPoll
  <2> poll' \in [Pollers -> PollRows] /\ EntryKnown'
    BY <1>2, RowTypes, OneRow DEF Start
  <2> QED
    BY <1>2, EdgarAssumption DEF Start
<1>3. ASSUME NEW p \in Pollers, ReadWatermark(p) PROVE TypeInv'
  <2> PICK m \in Marks : poll' = [poll EXCEPT ![p] = Marked(poll[p], m)]
    BY <1>3, ZeroMark DEF ReadWatermark
  <2> Marked(poll[p], m).pc # "enqueue"
    BY RowFields
  <2> poll' \in [Pollers -> PollRows] /\ EntryKnown'
    BY RowTypes, OneRow
  <2> QED
    BY <1>3 DEF ReadWatermark
<1>4. ASSUME NEW p \in Pollers, Fetch(p) PROVE TypeInv'
  <2>1. /\ Ended(poll[p]) \in PollRows /\ Ended(poll[p]).pc # "enqueue"
    BY RowTypes, RowFields
  <2>2. \A page, asked \in SUBSET Filings :
          /\ Answered(poll[p], page, asked) \in PollRows
          /\ Answered(poll[p], page, asked).pc # "enqueue"
    BY RowTypes, RowFields
  <2>3. \E row \in PollRows : row.pc # "enqueue" /\ poll' = [poll EXCEPT ![p] = row]
    BY <1>4, <2>1, <2>2 DEF Fetch, Pages, Asked
  <2>4. poll' \in [Pollers -> PollRows] /\ EntryKnown'
    BY <2>3, OneRow
  <2> QED
    BY <1>4, <2>4 DEF Fetch
<1>5. ASSUME NEW p \in Pollers, SkipEntry(p) PROVE TypeInv'
  <2> PICK f \in Filings : poll' = [poll EXCEPT ![p] = Skipped(poll[p], f)]
    BY <1>5, EdgarAssumption DEF SkipEntry
  <2> Skipped(poll[p], f).pc # "enqueue"
    BY ZenonT(40), <1>5, RowFields DEF SkipEntry, At
  <2> poll' \in [Pollers -> PollRows] /\ EntryKnown'
    BY RowTypes, OneRow
  <2> QED
    BY <1>5 DEF SkipEntry
<1>6. ASSUME NEW p \in Pollers, PostEntry(p) PROVE TypeInv'
  <2>1. poll[p].batch \subseteq Filings
    BY BatchType
  <2>2. PICK f \in Filings :
          /\ \/ poll' = [poll EXCEPT ![p] = Broken(poll[p])]
             \/ \E d \in Marks : poll' = [poll EXCEPT ![p] = Seen(poll[p], f, d)]
             \/ poll' = [poll EXCEPT ![p] = Written(poll[p], f)]
          /\ stored' \in {stored, stored \cup {f}}
    BY <1>6, <2>1, FilingDates DEF PostEntry, Newest
  <2>3. /\ Broken(poll[p]).pc # "enqueue" /\ \A d \in Marks : Seen(poll[p], f, d).pc # "enqueue"
        /\ Written(poll[p], f).entry \in Filings
    BY RowFields
  <2>4. poll' \in [Pollers -> PollRows] /\ EntryKnown'
    BY <2>2, <2>3, RowTypes, OneRow
  <2> QED
    BY <1>6, <2>2, <2>4 DEF PostEntry
<1>7. ASSUME NEW p \in Pollers, Enqueue(p) PROVE TypeInv'
  <2>1. poll[p].entry \in Filings
    BY <1>7 DEF Enqueue, EntryKnown
  <2>2. PICK d \in Marks : poll' = [poll EXCEPT ![p] = Seen(poll[p], poll[p].entry, d)]
    BY <1>7, <2>1, FilingDates DEF Enqueue
  <2>5. Seen(poll[p], poll[p].entry, d).pc # "enqueue"
    BY <2>1, RowFields
  <2>3. poll' \in [Pollers -> PollRows] /\ EntryKnown'
    BY <2>1, <2>2, <2>5, RowTypes, OneRow
  <2>4. enqueued' \in [Filings -> Nat]
    BY <1>7, <2>1 DEF Enqueue
  <2> QED
    BY <1>7, <2>3, <2>4 DEF Enqueue
<1>8. ASSUME NEW p \in Pollers, LoseRequest(p) PROVE TypeInv'
  <2> Broken(poll[p]).pc # "enqueue"
    BY RowFields
  <2> poll' \in [Pollers -> PollRows] /\ EntryKnown'
    BY <1>8, RowTypes, OneRow DEF LoseRequest
  <2> QED
    BY <1>8 DEF LoseRequest
<1>9. ASSUME NEW p \in Pollers, AdvanceWatermark(p) PROVE TypeInv'
  <2> Ended(poll[p]).pc # "enqueue"
    BY RowFields
  <2> poll' \in [Pollers -> PollRows] /\ EntryKnown'
    BY <1>9, RowTypes, OneRow DEF AdvanceWatermark
  <2> Overtaken(poll[p]) \subseteq Filings
    BY DEF Overtaken, PollRows
  <2> cursor' \in Marks /\ passed' \subseteq Filings
    BY <1>9 DEF AdvanceWatermark, PollRows
  <2> QED
    BY <1>9 DEF AdvanceWatermark
<1>10. ASSUME NEW p \in Pollers, Crash(p) PROVE TypeInv'
  <2> Ended(poll[p]).pc # "enqueue"
    BY RowFields
  <2> poll' \in [Pollers -> PollRows] /\ EntryKnown'
    BY <1>10, RowTypes, OneRow DEF Crash
  <2> QED
    BY <1>10 DEF Crash
<1>11. CASE UNCHANGED vars
  BY <1>11 DEF vars, EntryKnown, At
<1> QED
  BY <1>1, <1>2, <1>3, <1>4, <1>5, <1>6, <1>7, <1>8, <1>9, <1>10, <1>11 DEF Next, Poll

\* The types and the entry of an enqueuing poll, in every reachable state.
LEMMA TypeAlways == Spec => []TypeInv
  BY TypeInit, TypeStep, PTL DEF Spec

\* Every reachable state is well typed: the watermark, and the candidate of every
\* poll, is the date of a filing or the empty string.
THEOREM EdgarTypeCorrect == Spec => []TypeOK
<1> TypeInv => TypeOK
  BY DEF TypeInv
<1> QED
  BY TypeAlways, PTL

-----------------------------------------------------------------------------
(* The insert's conflict clause lets one poller enqueue a filing.          *)

\* The poller that is about to enqueue a filing is the one that wrote its row.
OneEnqueuer ==
  /\ \A p \in Pollers : At(p, "enqueue") => poll[p].entry \in stored /\ enqueued[poll[p].entry] = 0
  /\ \A p, q \in Pollers :
       At(p, "enqueue") /\ At(q, "enqueue") /\ poll[p].entry = poll[q].entry => p = q

EnqueueInv == TypeInv /\ EnqueuedOnce /\ OneEnqueuer

\* Nothing is enqueued at first.
LEMMA EnqueueInit == Init => EnqueueInv
  BY TypeInit DEF Init, EnqueueInv, EnqueuedOnce, OneEnqueuer, At, NoPoll

\* A step that moves one poller to a row that is not about to enqueue, and
\* enqueues nothing, keeps the invariant.
LEMMA NotEnqueuing ==
  ASSUME EnqueueInv, NEW p \in Pollers, NEW row \in PollRows, row.pc # "enqueue",
         poll' = [poll EXCEPT ![p] = row], UNCHANGED <<stored, enqueued>>
  PROVE  EnqueuedOnce' /\ OneEnqueuer'
BY DEF EnqueueInv, TypeInv, TypeOK, EnqueuedOnce, OneEnqueuer, At

\* Only the poll whose insert created the row goes on to enqueue, and it does so
\* once.
LEMMA EnqueueStep == EnqueueInv /\ [Next]_vars => EnqueueInv'
<1> SUFFICES ASSUME EnqueueInv, [Next]_vars PROVE EnqueuedOnce' /\ OneEnqueuer'
  BY TypeStep DEF EnqueueInv
<1>0. /\ TypeInv /\ TypeOK /\ EntryKnown /\ EnqueuedOnce /\ OneEnqueuer
      /\ \A p \in Pollers : poll[p] \in PollRows
  BY DEF EnqueueInv, TypeInv, TypeOK
<1>1. ASSUME NEW f \in Filings, Publish(f) PROVE EnqueuedOnce' /\ OneEnqueuer'
  BY <1>0, <1>1 DEF Publish, EnqueuedOnce, OneEnqueuer, At
<1>2. ASSUME NEW p \in Pollers, Start(p) PROVE EnqueuedOnce' /\ OneEnqueuer'
  <2> [NoPoll EXCEPT !.pc = "read"].pc # "enqueue"
    BY DEF NoPoll
  <2> QED
    BY <1>0, <1>2, RowTypes, NotEnqueuing DEF Start
<1>3. ASSUME NEW p \in Pollers, ReadWatermark(p) PROVE EnqueuedOnce' /\ OneEnqueuer'
  <2> PICK m \in Marks : poll' = [poll EXCEPT ![p] = Marked(poll[p], m)]
    BY <1>0, <1>3, ZeroMark DEF ReadWatermark, TypeOK
  <2>1. poll[p] \in PollRows
    BY <1>0
  <2>2. Marked(poll[p], m) \in PollRows
    BY <2>1, RowTypes
  <2>3. Marked(poll[p], m).pc # "enqueue"
    BY <2>1, RowFields
  <2> QED
    BY <1>0, <1>3, <2>2, <2>3, NotEnqueuing DEF ReadWatermark
<1>4. ASSUME NEW p \in Pollers, Fetch(p) PROVE EnqueuedOnce' /\ OneEnqueuer'
  <2>1. /\ Ended(poll[p]) \in PollRows /\ Ended(poll[p]).pc # "enqueue"
        /\ \A page, asked \in SUBSET Filings :
             /\ Answered(poll[p], page, asked) \in PollRows
             /\ Answered(poll[p], page, asked).pc # "enqueue"
    BY <1>0, RowTypes, RowFields
  <2>2. \E row \in PollRows : row.pc # "enqueue" /\ poll' = [poll EXCEPT ![p] = row]
    BY <1>0, <1>4, <2>1 DEF Fetch, Pages, Asked, TypeOK
  <2> QED
    BY <1>0, <1>4, <2>2, NotEnqueuing DEF Fetch
<1>5. ASSUME NEW p \in Pollers, SkipEntry(p) PROVE EnqueuedOnce' /\ OneEnqueuer'
  <2> PICK f \in Filings : poll' = [poll EXCEPT ![p] = Skipped(poll[p], f)]
    BY <1>5, EdgarAssumption DEF SkipEntry
  <2>1. poll[p] \in PollRows
    BY <1>0
  <2>2. poll[p].pc = "entries"
    BY <1>5 DEF SkipEntry, At
  <2>3. Skipped(poll[p], f) \in PollRows
    BY <2>1, RowTypes
  <2>4. Skipped(poll[p], f).pc # "enqueue"
    BY <2>1, <2>2, RowFields
  <2> QED
    BY <1>0, <1>5, <2>3, <2>4, NotEnqueuing DEF SkipEntry
<1>6. ASSUME NEW p \in Pollers, PostEntry(p) PROVE EnqueuedOnce' /\ OneEnqueuer'
  <2>1. /\ poll[p].batch \subseteq Filings
        /\ Broken(poll[p]) \in PollRows /\ Broken(poll[p]).pc # "enqueue"
        /\ \A f \in Filings, d \in Marks :
             Seen(poll[p], f, d) \in PollRows /\ Seen(poll[p], f, d).pc # "enqueue"
    BY <1>0, RowTypes, RowFields, BatchType
  <2>2. CASE \E row \in PollRows :
               row.pc # "enqueue" /\ poll' = [poll EXCEPT ![p] = row] /\ UNCHANGED <<stored, enqueued>>
    BY <1>0, <2>2, NotEnqueuing
  <2>3. ASSUME NEW f \in Filings \ stored, stored' = stored \cup {f},
               poll' = [poll EXCEPT ![p] = Written(poll[p], f)]
        PROVE  EnqueuedOnce' /\ OneEnqueuer'
    <3>1. Written(poll[p], f).pc = "enqueue" /\ Written(poll[p], f).entry = f
      BY <1>0, RowFields
    <3>2. enqueued[f] = 0 /\ \A q \in Pollers : At(q, "enqueue") => poll[q].entry # f
      BY <1>0, <2>3 DEF EnqueuedOnce, OneEnqueuer, TypeOK
    <3>3. UNCHANGED enqueued /\ poll'[p] = Written(poll[p], f)
          /\ \A q \in Pollers \ {p} : poll'[q] = poll[q]
      BY <1>0, <1>6, <2>3 DEF PostEntry, TypeOK
    <3>4. EnqueuedOnce'
      BY <1>0, <2>3, <3>3 DEF EnqueuedOnce, TypeOK
    <3>5. OneEnqueuer'
      BY <1>0, <2>3, <3>1, <3>2, <3>3 DEF OneEnqueuer, At
    <3> QED
      BY <3>4, <3>5
  <2>4. ASSUME NEW f \in Filings, \E d \in FiledAt(poll[p], f) : poll' = [poll EXCEPT ![p] = Seen(poll[p], f, d)],
               UNCHANGED <<stored, enqueued>>
        PROVE  EnqueuedOnce' /\ OneEnqueuer'
    <3> PICK d \in Marks : poll' = [poll EXCEPT ![p] = Seen(poll[p], f, d)]
      BY <2>4, FilingDates
    <3> QED
      BY <2>1, <2>2, <2>4
  <2>5. UNCHANGED enqueued /\ \A f \in Newest(poll[p].batch) \ NoId : f \in Filings
    BY <1>6, <2>1 DEF PostEntry, Newest
  <2> QED
    BY <1>6, <2>1, <2>2, <2>3, <2>4, <2>5 DEF PostEntry
<1>7. ASSUME NEW p \in Pollers, Enqueue(p) PROVE EnqueuedOnce' /\ OneEnqueuer'
  <2> DEFINE f == poll[p].entry
  <2>1. f \in stored /\ f \in Filings /\ enqueued[f] = 0
    BY <1>0, <1>7 DEF Enqueue, EntryKnown, OneEnqueuer
  <2>7. PICK d \in Marks : poll' = [poll EXCEPT ![p] = Seen(poll[p], f, d)]
    BY <1>7, <2>1, FilingDates DEF Enqueue
  <2>2. poll'[p].pc # "enqueue" /\ \A q \in Pollers \ {p} : poll'[q] = poll[q]
    BY <1>0, <2>1, <2>7, RowFields DEF TypeOK
  <2>3. /\ UNCHANGED stored /\ enqueued'[f] = 1
        /\ \A g \in Filings \ {f} : enqueued'[g] = enqueued[g]
    BY <1>0, <1>7, <2>1 DEF Enqueue, TypeOK
  <2>4. \A q \in Pollers \ {p} : At(q, "enqueue") => poll[q].entry # f
    BY <1>0, <1>7 DEF OneEnqueuer, Enqueue
  <2> HIDE DEF f
  <2>5. EnqueuedOnce'
    BY <1>0, <2>1, <2>3 DEF EnqueuedOnce
  <2>6. OneEnqueuer'
    BY <1>0, <2>2, <2>3, <2>4 DEF OneEnqueuer, At, EntryKnown
  <2> QED
    BY <2>5, <2>6
<1>8. ASSUME NEW p \in Pollers, LoseRequest(p) PROVE EnqueuedOnce' /\ OneEnqueuer'
  <2> Broken(poll[p]) \in PollRows /\ Broken(poll[p]).pc # "enqueue"
    BY <1>0, RowTypes, RowFields
  <2> QED
    BY <1>0, <1>8, NotEnqueuing DEF LoseRequest
<1>9. ASSUME NEW p \in Pollers, AdvanceWatermark(p) \/ Crash(p) PROVE EnqueuedOnce' /\ OneEnqueuer'
  <2> Ended(poll[p]) \in PollRows /\ Ended(poll[p]).pc # "enqueue"
    BY <1>0, RowTypes, RowFields
  <2> QED
    BY <1>0, <1>9, NotEnqueuing DEF AdvanceWatermark, Crash
<1>10. CASE UNCHANGED vars
  BY <1>0, <1>10 DEF vars, EnqueuedOnce, OneEnqueuer, At
<1> QED
  BY <1>1, <1>2, <1>3, <1>4, <1>5, <1>6, <1>7, <1>8, <1>9, <1>10 DEF Next, Poll

\* However many polls post a filing, and whichever of them crash or lose an
\* answer, it is enqueued for enrichment at most once.
THEOREM EnqueuedAtMostOnce == Spec => []EnqueuedOnce
<1>1. EnqueueInv => EnqueuedOnce
  BY DEF EnqueueInv
<1> QED
  BY EnqueueInit, EnqueueStep, <1>1, PTL DEF Spec

-----------------------------------------------------------------------------
(* Land before advance.                                                    *)

\* A mark is the empty string, the date of a stored filing, or when one without a date
\* was posted.
Landed(m, st) == m # 0 => \E f \in st : f \in Undated \/ Date[f] = m

\* What a poll knows of the feed fd and the table st.
RowLanded(row, fd, st) == row.batch \subseteq fd /\ Landed(row.candidate, st)

LandedInv ==
  /\ TypeInv /\ stored \subseteq feed /\ Landed(cursor, stored)
  /\ \A p \in Pollers : RowLanded(poll[p], feed, stored)
  /\ \A p \in Pollers : At(p, "enqueue") => poll[p].entry \in stored

\* Rows are only added to the feed and to the table.
LEMMA LandedGrows ==
  ASSUME NEW fd, NEW fd2, fd \subseteq fd2, NEW st, NEW st2, st \subseteq st2
  PROVE  /\ \A m : Landed(m, st) => Landed(m, st2)
         /\ \A row : RowLanded(row, fd, st) => RowLanded(row, fd2, st2)
BY DEF Landed, RowLanded

\* The row of a poll after each step is about the same feed and table.
LEMMA RowSteps ==
  ASSUME NEW fd, NEW st \in SUBSET Filings, NEW row \in PollRows, RowLanded(row, fd, st)
  PROVE  /\ RowLanded([NoPoll EXCEPT !.pc = "read"], fd, st)
         /\ \A m \in Marks : Landed(m, st) => RowLanded(Marked(row, m), fd, st)
         /\ \A page, asked \in SUBSET fd : RowLanded(Answered(row, page, asked), fd, st)
         /\ \A f \in Filings : RowLanded(Skipped(row, f), fd, st) /\ RowLanded(Written(row, f), fd, st)
         /\ \A f \in st : \A d \in FiledAt(row, f) : RowLanded(Seen(row, f, d), fd, st)
         /\ RowLanded(Ended(row), fd, st) /\ RowLanded(Broken(row), fd, st)
<1>1. \A f \in st : \A d \in FiledAt(row, f) : RowLanded(Seen(row, f, d), fd, st)
  <2> TAKE f \in st
  <2> TAKE d \in FiledAt(row, f)
  <2>1. d \in Marks /\ (f \in Undated \/ Date[f] = d)
    BY FilingDates
  <2>2. Larger(row.candidate, d) \in {row.candidate, d}
    BY <2>1, LargerMark DEF PollRows
  <2>3. /\ Seen(row, f, d).candidate = Larger(row.candidate, d)
        /\ Seen(row, f, d).batch = row.batch \ {f}
    BY DEF Seen, PollRows
  <2> QED
    BY <2>1, <2>2, <2>3 DEF RowLanded, Landed
<1>2. RowLanded([NoPoll EXCEPT !.pc = "read"], fd, st)
  BY DEF NoPoll, RowLanded, Landed
<1>3. \A m \in Marks : Landed(m, st) => RowLanded(Marked(row, m), fd, st)
  BY DEF Marked, PollRows, RowLanded
<1>4. \A page, asked \in SUBSET fd : RowLanded(Answered(row, page, asked), fd, st)
  BY DEF Answered, PollRows, RowLanded
<1>5. \A f \in Filings : RowLanded(Skipped(row, f), fd, st) /\ RowLanded(Written(row, f), fd, st)
  BY DEF Skipped, Written, PollRows, RowLanded
<1>6. RowLanded(Ended(row), fd, st) /\ RowLanded(Broken(row), fd, st)
  BY DEF Ended, Broken, PollRows, RowLanded
<1> QED
  BY <1>1, <1>2, <1>3, <1>4, <1>5, <1>6

\* The watermark and the candidates are empty at first.
LEMMA LandedInit == Init => LandedInv
  BY TypeInit DEF Init, LandedInv, RowLanded, Landed, NoPoll, At

\* A step that replaces the row of one poller keeps what is known of all rows.
LEMMA OneLanded ==
  ASSUME LandedInv, NEW p \in Pollers, NEW row \in PollRows,
         poll' = [poll EXCEPT ![p] = row],
         feed \subseteq feed', stored \subseteq stored', RowLanded(row, feed', stored'),
         row.pc = "enqueue" => row.entry \in stored'
  PROVE  /\ \A q \in Pollers : RowLanded(poll'[q], feed', stored')
         /\ \A q \in Pollers : At(q, "enqueue")' => poll'[q].entry \in stored'
BY LandedGrows DEF LandedInv, TypeInv, TypeOK, At

\* A candidate is only moved by an entry whose row is there, the watermark only
\* to a candidate.
LEMMA LandedStep == LandedInv /\ [Next]_vars => LandedInv'
<1> SUFFICES ASSUME LandedInv, [Next]_vars PROVE LandedInv'
  OBVIOUS
<1>0. /\ TypeInv /\ TypeOK /\ EntryKnown /\ TypeInv'
      /\ stored \subseteq feed /\ feed \subseteq Filings /\ Landed(cursor, stored)
      /\ stored \in SUBSET Filings
      /\ \A p \in Pollers : poll[p] \in PollRows /\ RowLanded(poll[p], feed, stored)
      /\ \A p \in Pollers : poll[p].batch \subseteq feed /\ Landed(poll[p].candidate, stored)
  BY TypeStep DEF LandedInv, TypeInv, TypeOK, RowLanded
<1>1. ASSUME NEW p \in Pollers, NEW row \in PollRows, RowLanded(row, feed, stored),
             row.pc # "enqueue" \/ row.entry \in stored,
             poll' = [poll EXCEPT ![p] = row], UNCHANGED <<feed, stored>>, Landed(cursor', stored)
      PROVE  LandedInv'
  BY <1>0, <1>1, OneLanded DEF LandedInv
<1>2. ASSUME NEW f \in Filings, Publish(f) PROVE LandedInv'
  BY <1>0, <1>2, LandedGrows DEF LandedInv, Publish, At
<1>3. ASSUME NEW p \in Pollers, Start(p) PROVE LandedInv'
  <2> DEFINE row == [NoPoll EXCEPT !.pc = "read"]
  <2> row \in PollRows /\ row.pc # "enqueue" /\ RowLanded(row, feed, stored)
    BY <1>0, RowTypes, RowFields, RowSteps
  <2> QED
    BY <1>0, <1>1, <1>3 DEF Start
<1>4. ASSUME NEW p \in Pollers, ReadWatermark(p) PROVE LandedInv'
  <2> PICK m \in Marks : Landed(m, stored) /\ poll' = [poll EXCEPT ![p] = Marked(poll[p], m)]
    BY <1>0, <1>4, ZeroMark DEF ReadWatermark, TypeOK, Landed
  <2> DEFINE row == Marked(poll[p], m)
  <2> row \in PollRows /\ row.pc # "enqueue" /\ RowLanded(row, feed, stored)
    BY <1>0, RowTypes, RowFields, RowSteps
  <2> QED
    BY <1>0, <1>1, <1>4 DEF ReadWatermark
<1>5. ASSUME NEW p \in Pollers, Fetch(p) PROVE LandedInv'
  <2>1. /\ Ended(poll[p]) \in PollRows /\ Ended(poll[p]).pc # "enqueue"
        /\ RowLanded(Ended(poll[p]), feed, stored)
    BY <1>0, RowTypes, RowFields, RowSteps
  <2>2. ASSUME NEW page \in SUBSET feed, NEW asked \in SUBSET feed
        PROVE  /\ Answered(poll[p], page, asked) \in PollRows
               /\ Answered(poll[p], page, asked).pc # "enqueue"
               /\ RowLanded(Answered(poll[p], page, asked), feed, stored)
    BY <1>0, RowTypes, RowFields, RowSteps
  <2>3. \E row \in PollRows : /\ row.pc # "enqueue" /\ RowLanded(row, feed, stored)
                              /\ poll' = [poll EXCEPT ![p] = row]
    BY <1>5, <2>1, <2>2 DEF Fetch, Pages, Asked
  <2> QED
    BY <1>0, <1>1, <1>5, <2>3 DEF Fetch
<1>6. ASSUME NEW p \in Pollers, SkipEntry(p) PROVE LandedInv'
  <2> PICK f \in Filings : poll' = [poll EXCEPT ![p] = Skipped(poll[p], f)]
    BY <1>6, EdgarAssumption DEF SkipEntry
  <2> DEFINE row == Skipped(poll[p], f)
  <2> row \in PollRows /\ row.pc # "enqueue" /\ RowLanded(row, feed, stored)
    BY ZenonT(40), <1>0, <1>6, RowTypes, RowFields, RowSteps DEF SkipEntry, At
  <2> QED
    BY <1>0, <1>1, <1>6 DEF SkipEntry
<1>7. ASSUME NEW p \in Pollers, PostEntry(p) PROVE LandedInv'
  <2>1. CASE poll' = [poll EXCEPT ![p] = Broken(poll[p])] /\ UNCHANGED stored
    <3> DEFINE row == Broken(poll[p])
    <3> row \in PollRows /\ row.pc # "enqueue" /\ RowLanded(row, feed, stored)
      BY <1>0, RowTypes, RowFields, RowSteps
    <3> QED
      BY <1>0, <1>1, <1>7, <2>1 DEF PostEntry
  <2>2. ASSUME NEW f \in stored, NEW d \in FiledAt(poll[p], f),
               poll' = [poll EXCEPT ![p] = Seen(poll[p], f, d)], UNCHANGED stored
        PROVE  LandedInv'
    <3> DEFINE row == Seen(poll[p], f, d)
    <3> d \in Marks
      BY <1>0, FilingDates
    <3> row \in PollRows /\ row.pc # "enqueue" /\ RowLanded(row, feed, stored)
      BY <1>0, RowTypes, RowFields, RowSteps
    <3> QED
      BY <1>0, <1>1, <1>7, <2>2 DEF PostEntry
  <2>3. ASSUME NEW f \in feed, poll' = [poll EXCEPT ![p] = Written(poll[p], f)], stored' = stored \cup {f}
        PROVE  LandedInv'
    <3> DEFINE row == Written(poll[p], f)
    <3> f \in Filings
      BY <1>0
    <3>1. row \in PollRows /\ row.entry = f
      BY <1>0, RowTypes, RowFields
    <3>2. RowLanded(row, feed, stored)
      BY <1>0, RowSteps
    <3>3. UNCHANGED <<feed, cursor>>
      BY <1>7 DEF PostEntry
    <3>4. RowLanded(row, feed', stored') /\ row.entry \in stored' /\ Landed(cursor', stored')
      BY <1>0, <2>3, <3>1, <3>2, <3>3, LandedGrows
    <3> HIDE DEF row
    <3>5. /\ \A q \in Pollers : RowLanded(poll'[q], feed', stored')
          /\ \A q \in Pollers : At(q, "enqueue")' => poll'[q].entry \in stored'
      BY <2>3, <3>1, <3>3, <3>4, OneLanded DEF row
    <3> QED
      BY <1>0, <2>3, <3>3, <3>4, <3>5 DEF LandedInv
  <2> QED
    BY <1>0, <1>7, <2>1, <2>2, <2>3 DEF PostEntry, Newest
<1>8. ASSUME NEW p \in Pollers, Enqueue(p) PROVE LandedInv'
  <2> poll[p].entry \in stored
    BY <1>8 DEF LandedInv, Enqueue
  <2> PICK d \in FiledAt(poll[p], poll[p].entry) :
        poll' = [poll EXCEPT ![p] = Seen(poll[p], poll[p].entry, d)]
    BY <1>8 DEF Enqueue
  <2> DEFINE row == Seen(poll[p], poll[p].entry, d)
  <2> d \in Marks
    BY <1>0, FilingDates
  <2> row \in PollRows /\ row.pc # "enqueue" /\ RowLanded(row, feed, stored)
    BY <1>0, RowTypes, RowFields, RowSteps
  <2> QED
    BY <1>0, <1>1, <1>8 DEF Enqueue
<1>9. ASSUME NEW p \in Pollers, LoseRequest(p) PROVE LandedInv'
  <2> DEFINE row == Broken(poll[p])
  <2> row \in PollRows /\ row.pc # "enqueue" /\ RowLanded(row, feed, stored)
    BY <1>0, RowTypes, RowFields, RowSteps
  <2> QED
    BY <1>0, <1>1, <1>9 DEF LoseRequest
<1>10. ASSUME NEW p \in Pollers, AdvanceWatermark(p) \/ Crash(p) PROVE LandedInv'
  <2> DEFINE row == Ended(poll[p])
  <2>1. row \in PollRows /\ row.pc # "enqueue" /\ RowLanded(row, feed, stored)
    BY <1>0, RowTypes, RowFields, RowSteps
  <2>2. Landed(cursor', stored)
    BY <1>0, <1>10 DEF AdvanceWatermark, Crash
  <2> HIDE DEF row
  <2> QED
    BY <1>0, <1>1, <1>10, <2>1, <2>2 DEF AdvanceWatermark, Crash, row
<1>11. CASE UNCHANGED vars
  BY <1>0, <1>11 DEF vars, LandedInv, At
<1> QED
  BY <1>2, <1>3, <1>4, <1>5, <1>6, <1>7, <1>8, <1>9, <1>10, <1>11 DEF Next, Poll

\* The watermark and every candidate have landed, in every reachable state.
LEMMA LandedAlways == Spec => []LandedInv
  BY LandedInit, LandedStep, PTL DEF Spec

\* The watermark is never moved by an entry whose request was refused or lost:
\* it is the date of a filing whose row is there.
THEOREM WatermarkFollowsRows == Spec => []WatermarkLanded
<1> LandedInv => WatermarkLanded
  BY DEF LandedInv, Landed, WatermarkLanded
<1> QED
  BY LandedAlways, PTL

-----------------------------------------------------------------------------
(* Nothing is skipped but what an answer cut off or a time of day outran.  *)

\* A mark that a later query, or the watermark, may take without leaving f.
Ahead(f, m) == ~(Day(f) < Since(m))

\* A filing that cannot appear any more: the feed fd is too far past it.
Blocked(f, fd) == f \notin fd /\ \E g \in fd : ~(Date[g] <= Date[f] + Overlap)

\* What has not been accounted for is not behind the mark.
KeepsUp(m, fd, acc) == \A f \in Filings \ acc : Ahead(f, m) \/ Blocked(f, fd)

\* What becomes of a filing if the poll goes on to move the watermark: it is in hand, was
\* cut off, is not behind any candidate, or is overtaken by a time of day.
Pending(row, f, fd) ==
  \/ f \in row.batch \cup row.cut
  \/ Blocked(f, fd)
  \/ /\ \A g \in row.batch \ Undated : Ahead(f, Date[g])
     /\ Ahead(f, row.candidate) \/ (row.stamped /\ f \notin row.page)

\* A poll knows what it has seen, and what becomes of what is not accounted for in acc.
RowCovers(row, fd, st, acc) ==
  /\ row.pc = "fetch" => row.mark = row.candidate /\ KeepsUp(row.mark, fd, acc)
  /\ row.pc = "enqueue" => row.entry \in row.batch
  /\ row.pc \in {"entries", "enqueue"} /\ ~row.errors =>
       row.page \subseteq row.batch \cup st /\ \A f \in Filings \ acc : Pending(row, f, fd)

Accounted == stored \cup passed

SkipInv ==
  /\ LandedInv /\ KeepsUp(cursor, feed, Accounted)
  /\ \A p \in Pollers : RowCovers(poll[p], feed, stored, Accounted)

\* Nothing is behind the empty watermark.
LEMMA SkipInit == Init => SkipInv
  BY LandedInit, ZeroNotBehind DEF Init, SkipInv, KeepsUp, Ahead, RowCovers, NoPoll

\* A filing that may still appear is not behind the date of any that has.
LEMMA LateIsAhead ==
  ASSUME NEW f \in Filings, NEW fd \in SUBSET Filings, f \notin fd, ~Blocked(f, fd), NEW g \in fd
  PROVE  Ahead(f, Date[g])
<1> Date[g] \in Marks /\ Date[g] <= Date[f] + Overlap
  BY DateTypes DEF Blocked
<1> QED
  BY NotBehind DEF Ahead

\* A step that replaces the row of one poller and accounts for no less.
LEMMA OneCovers ==
  ASSUME SkipInv, NEW p \in Pollers, NEW row \in PollRows, RowCovers(row, feed, stored, Accounted'),
         poll' = [poll EXCEPT ![p] = row], UNCHANGED <<feed, stored>>, Accounted \subseteq Accounted'
  PROVE  \A q \in Pollers : RowCovers(poll'[q], feed', stored', Accounted')
<1>1. TypeOK
  BY DEF SkipInv, LandedInv, TypeInv
<1>2. \A q \in Pollers : RowCovers(poll[q], feed, stored, Accounted')
  BY DEF SkipInv, RowCovers, KeepsUp
<1> QED
  BY <1>1, <1>2 DEF TypeOK

\* Storing a row only lessens what a poll has to cover.
LEMMA CoversStored ==
  ASSUME NEW fd, NEW st, NEW st2, st \subseteq st2, NEW acc, NEW acc2, acc \subseteq acc2,
         NEW row, RowCovers(row, fd, st, acc)
  PROVE  RowCovers(row, fd, st2, acc2)
BY DEF RowCovers, KeepsUp

\* A poll that ends, or has seen an error, covers whatever there is.
LEMMA CoversNothing ==
  ASSUME NEW row, row.pc \in {"read", "done"} \/ (row.pc = "entries" /\ row.errors),
         NEW fd, NEW st, NEW acc
  PROVE  RowCovers(row, fd, st, acc)
BY DEF RowCovers

\* Seeing an entry whose row is there moves the candidate to a date that is not ahead of
\* what the poll has still to cover, or to a time of day.
LEMMA SeenCovers ==
  ASSUME NEW fd \in SUBSET Filings, NEW st \in SUBSET Filings, NEW acc, st \subseteq acc,
         NEW row \in PollRows, NEW f \in st, NEW d \in FiledAt(row, f),
         RowCovers(row, fd, st, acc), row.pc \in {"entries", "enqueue"}, f \in row.batch
  PROVE  RowCovers(Seen(row, f, d), fd, st, acc)
<1> DEFINE new == Seen(row, f, d)
<1>1. /\ new.pc = "entries" /\ new.errors = row.errors
      /\ new.candidate = Larger(row.candidate, d)
      /\ new.batch = row.batch \ {f} /\ new.page = row.page /\ new.cut = row.cut
      /\ new.stamped = (IF d > row.candidate THEN f \in Undated ELSE row.stamped)
  BY DEF Seen, PollRows
<1>2. d \in Marks /\ (f \notin Undated => d = Date[f])
  BY FilingDates
<1>3. Larger(row.candidate, d) = IF d > row.candidate THEN d ELSE row.candidate
  <2> row.candidate \in Marks /\ d \in Marks
    BY <1>2 DEF PollRows
  <2> row.candidate \in Int /\ d \in Int
    BY DEF Marks
  <2> QED
    BY DEF Larger
<1> HIDE DEF new
<1>4. ASSUME ~row.errors PROVE new.page \subseteq new.batch \cup st
  BY <1>1, <1>4 DEF RowCovers
<1>5. ASSUME ~row.errors, NEW h \in Filings \ acc PROVE Pending(new, h, fd)
  <2>1. Pending(row, h, fd) /\ row.page \subseteq row.batch \cup st
    BY <1>5 DEF RowCovers
  <2>2. h # f /\ h \notin st
    BY <1>5
  <2>3. CASE h \in row.batch \cup row.cut \/ Blocked(h, fd)
    BY <1>1, <2>2, <2>3 DEF Pending
  <2>4. CASE /\ \A g \in row.batch \ Undated : Ahead(h, Date[g])
             /\ Ahead(h, row.candidate) \/ (row.stamped /\ h \notin row.page)
             /\ h \notin row.batch
    <3>1. \A g \in new.batch \ Undated : Ahead(h, Date[g])
      BY <1>1, <2>4
    <3>2. CASE ~(d > row.candidate)
      BY <1>1, <1>3, <2>4, <3>1, <3>2 DEF Pending
    <3>3. CASE d > row.candidate /\ f \notin Undated
      <4> new.candidate = Date[f] /\ Ahead(h, Date[f])
        BY <1>1, <1>2, <1>3, <2>4, <3>3
      <4> QED
        BY <3>1 DEF Pending
    <3>4. CASE d > row.candidate /\ f \in Undated
      <4> new.stamped /\ h \notin new.page
        BY <1>1, <2>1, <2>2, <2>4, <3>4
      <4> QED
        BY <3>1 DEF Pending
    <3> QED
      BY <3>2, <3>3, <3>4
  <2> QED
    BY <2>1, <2>3, <2>4 DEF Pending
<1> QED
  BY <1>1, <1>4, <1>5 DEF RowCovers, new

\* A filing that appears was not blocked, so it is accounted for as before.
LEMMA PublishCovers ==
  ASSUME NEW fd \in SUBSET Filings, NEW f \in Filings, f \notin fd, ~Blocked(f, fd),
         NEW st, NEW acc
  PROVE  /\ \A m : KeepsUp(m, fd, acc) => KeepsUp(m, fd \cup {f}, acc)
         /\ \A row : RowCovers(row, fd, st, acc) => RowCovers(row, fd \cup {f}, st, acc)
<1>1. \A h \in Filings : Blocked(h, fd) => Blocked(h, fd \cup {f})
  BY DEF Blocked
<1>2. \A m : KeepsUp(m, fd, acc) => KeepsUp(m, fd \cup {f}, acc)
  BY <1>1 DEF KeepsUp
<1>3. \A row : \A h \in Filings : Pending(row, h, fd) => Pending(row, h, fd \cup {f})
  BY <1>1 DEF Pending
<1> QED
  BY <1>2, <1>3 DEF RowCovers

\* What was asked for and what is published after are covered by the answer.
LEMMA AnswerCovers ==
  ASSUME NEW fd \in SUBSET Filings, NEW st, NEW acc, NEW row \in PollRows,
         row.pc = "fetch", RowCovers(row, fd, st, acc), NEW asked \in SUBSET fd,
         asked = {f \in fd : row.mark = 0 \/ Day(f) >= Since(row.mark)},
         NEW page \in SUBSET asked
  PROVE  RowCovers(Answered(row, page, asked), fd, st, acc)
<1> DEFINE new == Answered(row, page, asked)
<1>1. /\ new.pc = "entries" /\ new.batch = page /\ new.page = page /\ new.cut = asked \ page
      /\ new.candidate = row.candidate
  BY DEF Answered, PollRows
<1>2. row.mark = row.candidate /\ row.mark \in Marks /\ KeepsUp(row.mark, fd, acc)
  BY DEF RowCovers, PollRows
<1> HIDE DEF new
<1>3. ASSUME NEW f \in Filings \ acc PROVE Pending(new, f, fd)
  <2>1. CASE Blocked(f, fd)
    BY <2>1 DEF Pending
  <2>2. CASE f \in fd /\ Ahead(f, row.mark)
    <3> Day(f) \in Nat /\ Since(row.mark) \in Nat
      BY <1>2, DateTypes
    <3> f \in asked
      BY <2>2 DEF Ahead
    <3> QED
      BY <1>1 DEF Pending
  <2>3. CASE f \notin fd /\ ~Blocked(f, fd) /\ Ahead(f, row.mark)
    <3> \A g \in new.batch : Ahead(f, Date[g])
      BY <1>1, <2>3, LateIsAhead
    <3> QED
      BY <1>1, <1>2, <2>3 DEF Pending
  <2> QED
    BY <1>2, <2>1, <2>2, <2>3 DEF KeepsUp
<1> QED
  BY <1>1, <1>3 DEF RowCovers, new

\* A poll that has gone through its entries without an error leaves nothing behind with
\* its candidate but what it overtakes.
LEMMA AdvanceKeepsUp ==
  ASSUME NEW row \in PollRows, row.pc = "entries", ~row.errors, row.batch = {},
         NEW fd, NEW st, NEW acc, RowCovers(row, fd, st, acc)
  PROVE  KeepsUp(row.candidate, fd, acc \cup Overtaken(row))
<1> SUFFICES ASSUME NEW f \in Filings \ (acc \cup Overtaken(row)), ~Ahead(f, row.candidate)
             PROVE  Blocked(f, fd)
  BY DEF KeepsUp
<1>1. Pending(row, f, fd)
  BY DEF RowCovers
<1>2. f \notin row.cut /\ ~(row.stamped /\ f \notin row.page)
  BY DEF Overtaken, Ahead
<1> QED
  BY <1>1, <1>2 DEF Pending

\* Each step keeps, for every poll, that what it has not covered it still has in
\* hand, has cut off or will be asked for again.
LEMMA SkipStep == SkipInv /\ [Next]_vars => SkipInv'
<1> SUFFICES ASSUME SkipInv, [Next]_vars PROVE SkipInv'
  OBVIOUS
<1>0. /\ LandedInv /\ LandedInv' /\ TypeOK /\ EntryKnown
      /\ feed \in SUBSET Filings /\ stored \in SUBSET Filings /\ stored \subseteq Accounted
      /\ KeepsUp(cursor, feed, Accounted) /\ cursor \in Marks
      /\ \A p \in Pollers : At(p, "enqueue") => poll[p].entry \in stored
      /\ \A p \in Pollers : poll[p] \in PollRows /\ RowCovers(poll[p], feed, stored, Accounted)
      /\ \A p \in Pollers : poll[p].batch \subseteq feed
  BY LandedStep DEF SkipInv, LandedInv, TypeInv, TypeOK, RowLanded, Accounted
<1>1. ASSUME NEW p \in Pollers, NEW row \in PollRows, RowCovers(row, feed, stored, Accounted),
             poll' = [poll EXCEPT ![p] = row], UNCHANGED <<feed, stored, cursor, passed>>
      PROVE  SkipInv'
  <2>1. Accounted' = Accounted
    BY <1>1 DEF Accounted
  <2>2. \A q \in Pollers : RowCovers(poll'[q], feed', stored', Accounted')
    BY <1>1, <2>1, OneCovers
  <2> QED
    BY <1>0, <1>1, <2>1, <2>2 DEF SkipInv
<1>2. ASSUME NEW f \in Filings, Publish(f) PROVE SkipInv'
  <2>1. f \notin feed /\ ~Blocked(f, feed) /\ feed' = feed \cup {f}
        /\ UNCHANGED <<stored, cursor, passed, poll>>
    BY <1>2 DEF Publish, Blocked
  <2>2. Accounted' = Accounted
    BY <2>1 DEF Accounted
  <2>3. KeepsUp(cursor, feed \cup {f}, Accounted)
        /\ \A p \in Pollers : RowCovers(poll[p], feed \cup {f}, stored, Accounted)
    BY <1>0, <2>1, PublishCovers
  <2> QED
    BY <1>0, <2>1, <2>2, <2>3 DEF SkipInv
<1>3. ASSUME NEW p \in Pollers, Start(p) PROVE SkipInv'
  <2> DEFINE row == [NoPoll EXCEPT !.pc = "read"]
  <2> row \in PollRows /\ RowCovers(row, feed, stored, Accounted)
    BY <1>0, RowTypes, RowFields, CoversNothing
  <2> QED
    BY <1>1, <1>3 DEF Start
<1>4. ASSUME NEW p \in Pollers, ReadWatermark(p) PROVE SkipInv'
  <2>1. PICK m \in {cursor, 0} : poll' = [poll EXCEPT ![p] = Marked(poll[p], m)]
    BY <1>4 DEF ReadWatermark
  <2>2. m \in Marks /\ KeepsUp(m, feed, Accounted)
    BY <1>0, ZeroNotBehind, EdgarAssumption DEF KeepsUp, Ahead, Marks
  <2>3. Marked(poll[p], m) \in PollRows
    BY <1>0, <2>2, RowTypes
  <2>4. RowCovers(Marked(poll[p], m), feed, stored, Accounted)
    <3> /\ Marked(poll[p], m).pc = "fetch"
        /\ Marked(poll[p], m).mark = m /\ Marked(poll[p], m).candidate = m
      BY <1>0 DEF Marked, PollRows
    <3> QED
      BY <2>2 DEF RowCovers
  <2> QED
    BY <1>1, <1>4, <2>1, <2>3, <2>4 DEF ReadWatermark
<1>5. ASSUME NEW p \in Pollers, Fetch(p) PROVE SkipInv'
  <2>1. CASE poll' = [poll EXCEPT ![p] = Ended(poll[p])]
    <3> DEFINE row == Ended(poll[p])
    <3> row \in PollRows /\ RowCovers(row, feed, stored, Accounted)
      BY <1>0, RowTypes, RowFields, CoversNothing
    <3> QED
      BY <1>1, <1>5, <2>1 DEF Fetch
  <2>2. ASSUME NEW page \in Pages(Asked(poll[p].mark)),
               poll' = [poll EXCEPT ![p] = Answered(poll[p], page, Asked(poll[p].mark))]
        PROVE  SkipInv'
    <3> DEFINE asked == Asked(poll[p].mark)
    <3> DEFINE row == Answered(poll[p], page, asked)
    <3>1. asked \in SUBSET feed /\ page \in SUBSET asked
      BY DEF Asked, Pages
    <3>2. asked = {f \in feed : poll[p].mark = 0 \/ Day(f) >= Since(poll[p].mark)}
      BY DEF Asked
    <3>3. poll[p].pc = "fetch"
      BY <1>5 DEF Fetch, At
    <3> HIDE DEF asked
    <3>4. row \in PollRows
      BY <1>0, <3>1, RowTypes
    <3>5. RowCovers(row, feed, stored, Accounted)
      BY <1>0, <3>1, <3>2, <3>3, AnswerCovers
    <3> HIDE DEF row
    <3> QED
      BY <1>1, <1>5, <2>2, <3>4, <3>5 DEF Fetch, row, asked
  <2> QED
    BY <1>5, <2>1, <2>2 DEF Fetch
<1>6. ASSUME NEW p \in Pollers, SkipEntry(p) PROVE SkipInv'
  <2>1. PICK f \in Filings : poll' = [poll EXCEPT ![p] = Skipped(poll[p], f)]
    BY <1>6, EdgarAssumption DEF SkipEntry
  <2> DEFINE row == Skipped(poll[p], f)
  <2>2. row.pc = "entries" /\ row.errors
    BY <1>0, <1>6 DEF Skipped, PollRows, SkipEntry, At
  <2>3. row \in PollRows
    BY <1>0, RowTypes
  <2> HIDE DEF row
  <2>4. RowCovers(row, feed, stored, Accounted)
    BY <2>2, CoversNothing
  <2> QED
    BY <1>1, <1>6, <2>1, <2>3, <2>4 DEF SkipEntry, row
<1>7. ASSUME NEW p \in Pollers, PostEntry(p) PROVE SkipInv'
  <2>0. UNCHANGED <<feed, cursor, passed>> /\ poll[p].pc = "entries"
    BY <1>7 DEF PostEntry, At
  <2>1. CASE poll' = [poll EXCEPT ![p] = Broken(poll[p])] /\ UNCHANGED stored
    <3> DEFINE row == Broken(poll[p])
    <3> row \in PollRows /\ RowCovers(row, feed, stored, Accounted)
      BY <1>0, RowTypes, RowFields, CoversNothing
    <3> QED
      BY <1>1, <2>0, <2>1
  <2>2. ASSUME NEW f \in stored, f \in poll[p].batch, NEW d \in FiledAt(poll[p], f),
               poll' = [poll EXCEPT ![p] = Seen(poll[p], f, d)], UNCHANGED stored
        PROVE  SkipInv'
    <3> DEFINE row == Seen(poll[p], f, d)
    <3> d \in Marks
      BY <1>0, FilingDates
    <3>1. row \in PollRows
      BY <1>0, RowTypes
    <3>2. RowCovers(row, feed, stored, Accounted)
      BY <1>0, <2>0, <2>2, SeenCovers
    <3> HIDE DEF row
    <3> QED
      BY <1>1, <2>0, <2>2, <3>1, <3>2 DEF row
  <2>3. ASSUME NEW f \in poll[p].batch, stored' = stored \cup {f},
               poll' = [poll EXCEPT ![p] = Written(poll[p], f)]
        PROVE  SkipInv'
    <3> DEFINE row == Written(poll[p], f)
    <3>1. /\ row.batch = poll[p].batch /\ row.errors = poll[p].errors
          /\ row.page = poll[p].page /\ row.cut = poll[p].cut /\ row.stamped = poll[p].stamped
          /\ row.candidate = poll[p].candidate /\ row.pc = "enqueue" /\ row.entry = f
      BY <1>0 DEF Written, PollRows
    <3> HIDE DEF row
    <3>2. \A h : Pending(poll[p], h, feed) => Pending(row, h, feed)
      BY <3>1 DEF Pending
    <3>3. RowCovers(row, feed, stored, Accounted)
      BY <1>0, <2>0, <2>3, <3>1, <3>2 DEF RowCovers
    <3>4. poll'[p] = row /\ \A q \in Pollers \ {p} : poll'[q] = poll[q]
      BY <1>0, <2>3 DEF TypeOK, row
    <3>5. stored \subseteq stored' /\ Accounted \subseteq Accounted'
      BY <2>0, <2>3 DEF Accounted
    <3>6. \A q \in Pollers : RowCovers(poll'[q], feed', stored', Accounted')
      BY <1>0, <2>0, <3>3, <3>4, <3>5, CoversStored
    <3>7. KeepsUp(cursor, feed, Accounted)'
      BY <1>0, <2>0, <3>5 DEF KeepsUp
    <3> QED
      BY <1>0, <3>6, <3>7 DEF SkipInv
  <2> QED
    BY <1>7, <2>1, <2>2, <2>3 DEF PostEntry, Newest
<1>8. ASSUME NEW p \in Pollers, Enqueue(p) PROVE SkipInv'
  <2>1. /\ poll[p].entry \in stored /\ poll[p].entry \in poll[p].batch /\ poll[p].entry \in Filings
        /\ poll[p].pc = "enqueue"
    BY <1>0, <1>8 DEF Enqueue, RowCovers, At
  <2>2. PICK d \in FiledAt(poll[p], poll[p].entry) :
          poll' = [poll EXCEPT ![p] = Seen(poll[p], poll[p].entry, d)]
    BY <1>8 DEF Enqueue
  <2> DEFINE row == Seen(poll[p], poll[p].entry, d)
  <2> d \in Marks
    BY <2>1, FilingDates
  <2>3. row \in PollRows
    BY <1>0, <2>1, RowTypes
  <2>4. RowCovers(row, feed, stored, Accounted)
    BY <1>0, <2>1, SeenCovers
  <2> HIDE DEF row
  <2> QED
    BY <1>1, <1>8, <2>2, <2>3, <2>4 DEF Enqueue, row
<1>9. ASSUME NEW p \in Pollers, LoseRequest(p) PROVE SkipInv'
  <2> DEFINE row == Broken(poll[p])
  <2> row \in PollRows /\ RowCovers(row, feed, stored, Accounted)
    BY <1>0, RowTypes, RowFields, CoversNothing
  <2> QED
    BY <1>1, <1>9 DEF LoseRequest
<1>10. ASSUME NEW p \in Pollers, Crash(p) PROVE SkipInv'
  <2> DEFINE row == Ended(poll[p])
  <2> row \in PollRows /\ RowCovers(row, feed, stored, Accounted)
    BY <1>0, RowTypes, RowFields, CoversNothing
  <2> QED
    BY <1>1, <1>10 DEF Crash
<1>11. ASSUME NEW p \in Pollers, AdvanceWatermark(p) PROVE SkipInv'
  <2> DEFINE row == Ended(poll[p])
  <2>0. /\ poll[p].pc = "entries" /\ poll[p].batch = {} /\ UNCHANGED <<feed, stored>>
        /\ poll' = [poll EXCEPT ![p] = Ended(poll[p])]
    BY <1>11 DEF AdvanceWatermark, At
  <2>1. row \in PollRows /\ RowCovers(row, feed, stored, Accounted')
    BY <1>0, RowTypes, RowFields, CoversNothing
  <2>2. Accounted \subseteq Accounted'
    BY <1>11, <2>0 DEF AdvanceWatermark, Accounted
  <2>3. \A q \in Pollers : RowCovers(poll'[q], feed', stored', Accounted')
    BY <2>0, <2>1, <2>2, OneCovers
  <2>4. KeepsUp(cursor, feed, Accounted)'
    <3>1. CASE UNCHANGED <<cursor, passed>>
      BY <1>0, <2>0, <3>1 DEF Accounted
    <3>2. CASE /\ ~poll[p].errors /\ cursor' = poll[p].candidate
               /\ passed' = passed \cup Overtaken(poll[p])
      <4>1. KeepsUp(poll[p].candidate, feed, Accounted \cup Overtaken(poll[p]))
        BY <1>0, <2>0, <3>2, AdvanceKeepsUp
      <4>2. Accounted' = Accounted \cup Overtaken(poll[p])
        BY <2>0, <3>2 DEF Accounted
      <4> QED
        BY <2>0, <3>2, <4>1, <4>2
    <3> QED
      BY <1>11, <3>1, <3>2 DEF AdvanceWatermark
  <2> QED
    BY <1>0, <2>3, <2>4 DEF SkipInv
<1>12. CASE UNCHANGED vars
  BY <1>0, <1>12 DEF vars, SkipInv, Accounted
<1> QED
  BY <1>2, <1>3, <1>4, <1>5, <1>6, <1>7, <1>8, <1>9, <1>10, <1>11, <1>12 DEF Next, Poll

\* Land before advance, for any number of pollers and any length of an answer: a published
\* filing that no poll will ask for again has been stored, or was cut off the answer of
\* the poll that moved the watermark past it, or outrun by its now().
THEOREM NeverSkips == Spec => []NothingSkipped
<1>1. SkipInv => NothingSkipped
  BY DEF SkipInv, LandedInv, TypeInv, TypeOK, KeepsUp, Blocked, Ahead, NothingSkipped, Accounted
<1> QED
  BY SkipInit, SkipStep, <1>1, PTL DEF Spec

\* What a deployment relies on, for any number of pollers, filings and polls, and any
\* length of an answer (edgar-ingest-job.ts).
THEOREM EdgarCorrect == Spec => []EdgarSound
<1>1. NothingSkipped /\ WatermarkLanded /\ EnqueuedOnce => EdgarSound
  BY DEF EdgarSound
<1> QED
  BY <1>1, NeverSkips, WatermarkFollowsRows, EnqueuedAtMostOnce, PTL

-----------------------------------------------------------------------------
(* The database job.                                                       *)

\* What the calls of this run that are behind it have made is there.
MadeSoFar ==
  run.status # "failed" =>
    \A i \in DOMAIN Required : i < run.pc /\ Required[i].kind # "drop" => Required[i].object \in catalog

GenesisInv ==
  /\ run \in [pc : 0..VerifyAt, status : {"running", "failed", "done"}, runs : 1..MaxRuns]
  /\ env \subseteq Credentials /\ boot \in 0..Len(BootTables) /\ failures \in 0..MaxFailures
  /\ MadeSoFar
  /\ run.status = "done" => run.pc = VerifyAt /\ <<"mutable", "business_journal">> \notin catalog

-----------------------------------------------------------------------------
CallKinds == {"add", "create", "drop", "grant all", "table"}

\* A call takes nothing away but what it drops, and makes what it is for.
LEMMA Keeps ==
  ASSUME NEW call, NEW cat, call.kind \in CallKinds,
         NEW x \in cat, call.kind = "drop" => call.object # x
  PROVE  x \in Effect(call, cat)
  BY DEF Effect, CallKinds

LEMMA Makes ==
  ASSUME NEW call, NEW cat, call.kind \in CallKinds, call.kind # "drop"
  PROVE  call.object \in Effect(call, cat)
  BY DEF Effect, CallKinds

\* Making a table opens that one to the application and no other.
LEMMA StaysSealed ==
  ASSUME NEW call, NEW cat, call.kind = "table", Table("business_journal") \in cat,
         call.object # <<"mutable", "business_journal">>, <<"mutable", "business_journal">> \notin cat
  PROVE  <<"mutable", "business_journal">> \notin Effect(call, cat)
<1> DEFINE open == <<"mutable", "business_journal">>
<1>1. Effect(call, cat) =
        IF call.object \in cat THEN cat
        ELSE cat \cup {call.object} \cup (Mutable(cat \cup {call.object}) \ Mutable(cat))
  BY DEF Effect
<1>2. ASSUME open \in Mutable(cat \cup {call.object}), open \notin Mutable(cat)
      PROVE  FALSE
  <2>1. \A t \in ToSet(AppTables) : Table(t) \in cat => <<"mutable", t>> \in Mutable(cat)
    BY DEF Mutable
  <2>2. PICK t \in ToSet(AppTables) : <<"mutable", t>> = open
    BY <1>2 DEF Mutable
  <2>3. t = "business_journal"
    BY <2>2
  <2> QED  BY <1>2, <2>1, <2>2, <2>3
<1> HIDE DEF open
<1>3. open \notin cat /\ call.object # open
  BY DEF open
<1>4. open \notin Effect(call, cat)
  BY <1>1, <1>2, <1>3
<1> QED  BY <1>4 DEF open

\* The numbers of the script, and where the required calls are in it.
LEMMA ScriptNumbers ==
  /\ Len(Required) \in Nat /\ VerifyAt \in Nat /\ Len(Required) < VerifyAt
  /\ MaxRuns \in Nat /\ 1 <= MaxRuns /\ MaxFailures \in Nat /\ 1 <= VerifyAt
<1>1. Len(Required) \in Nat /\ VerifyAt \in Nat /\ Len(Required) < VerifyAt
  BY ScriptAssumption
<1>2. MaxRuns \in Nat /\ 1 <= MaxRuns /\ MaxFailures \in Nat
  BY GenesisAssumption
<1> QED  BY <1>1, <1>2

LEMMA ScriptPlaces == ASSUME NEW i \in DOMAIN Required PROVE i \in 1..Len(Required) /\ Script[i] = Required[i]
  BY ScriptAssumption

\* The databases are empty, and nothing has run.
LEMMA GenesisStarts == GenesisInit => GenesisInv
<1> SUFFICES ASSUME GenesisInit PROVE GenesisInv  OBVIOUS
<1>1. Len(BootTables) \in Nat /\ 1 <= Len(BootTables)
  BY DEF BootTables, AppTables, MktTables, TopicTables
<1>2. run = [pc |-> 0, status |-> "running", runs |-> 1] /\ boot = 1 /\ failures = 0
      /\ env \subseteq Credentials
  BY DEF GenesisInit, Manifest
<1>3. MaxRuns \in Nat /\ 1 <= MaxRuns /\ MaxFailures \in Nat /\ VerifyAt \in Nat /\ 1 <= VerifyAt
  BY ScriptNumbers
<1>4. MadeSoFar
  <2>1. \A i \in DOMAIN Required : ~(i < run.pc)
    BY <1>2, ScriptNumbers, ScriptPlaces
  <2> QED  BY <2>1 DEF MadeSoFar
<1> QED  BY <1>1, <1>2, <1>3, <1>4 DEF GenesisInv

LEMMA GenesisStep == ASSUME GenesisInv, GenesisNext PROVE GenesisInv'
<1>0. /\ run \in [pc : 0..VerifyAt, status : {"running", "failed", "done"}, runs : 1..MaxRuns]
      /\ env \subseteq Credentials /\ boot \in 0..Len(BootTables) /\ failures \in 0..MaxFailures
      /\ MadeSoFar
      /\ run.status = "done" => run.pc = VerifyAt /\ <<"mutable", "business_journal">> \notin catalog
  BY DEF GenesisInv
<1>a. /\ MaxRuns \in Nat /\ 1 <= MaxRuns /\ MaxFailures \in Nat /\ VerifyAt \in Nat /\ 1 <= VerifyAt
      /\ Len(Required) \in Nat /\ Len(Required) < VerifyAt
  BY ScriptNumbers
<1>k. \A i \in 1..VerifyAt - 1 : Script[i].kind \in CallKinds
  BY ScriptAssumption DEF CallKinds
<1>d. \A i \in DOMAIN Required : \A j \in i + 1..VerifyAt - 1 :
        Required[i].kind # "drop" /\ Script[j].kind = "drop" => Script[j].object # Required[i].object
  BY ScriptAssumption
<1>n. \A i \in DOMAIN Required : i \in Nat /\ i < VerifyAt /\ i <= Len(Required)
  BY <1>a, ScriptPlaces
<1>b. /\ Len(BootTables) = Len(AppTables) + Len(MktTables) + Len(TopicTables)
      /\ Len(AppTables \o MktTables) = Len(AppTables) + Len(MktTables)
      /\ Len(AppTables) = 8 /\ Len(MktTables) = 3 /\ Len(TopicTables) = 2
  BY DEF BootTables, AppTables, MktTables, TopicTables
<1>e. env' = env
  BY DEF GenesisNext, RunStep, LoadConfig, Call, CallFails, Verify, Retry, RunAgain, BootStep, ServerRestarts
<1>c. CASE LoadConfig
  <2>1. /\ run.status = "running" /\ run.pc = 0 /\ UNCHANGED <<catalog, boot, failures>>
        /\ run' = [run EXCEPT !.pc = 1] \/ run' = [run EXCEPT !.status = "failed"]
    BY <1>c DEF LoadConfig
  <2>2. /\ run' \in [pc : 0..VerifyAt, status : {"running", "failed", "done"}, runs : 1..MaxRuns]
        /\ run'.status # "done" /\ run'.pc <= 1
    BY <1>0, <1>a, <2>1
  <2>3. MadeSoFar'
    <3>1. \A i \in DOMAIN Required : ~(i < run'.pc)
      BY <1>a, <2>2, ScriptPlaces
    <3> QED  BY <3>1 DEF MadeSoFar
  <2> QED  BY <1>0, <1>e, <2>1, <2>2, <2>3 DEF GenesisInv
<1>1. CASE Call
  <2>1. /\ run.status = "running" /\ run.pc \in 1..VerifyAt - 1 /\ UNCHANGED <<boot, failures>>
        /\ catalog' = Effect(Script[run.pc], catalog) /\ run' = [run EXCEPT !.pc = @ + 1]
    BY <1>1 DEF Call
  <2>2. /\ run' \in [pc : 0..VerifyAt, status : {"running", "failed", "done"}, runs : 1..MaxRuns]
        /\ run'.pc = run.pc + 1 /\ run'.status = "running" /\ run.pc \in 1..VerifyAt - 1
    BY <1>0, <1>a, <2>1
  <2>3. MadeSoFar'
    <3> SUFFICES ASSUME NEW i \in DOMAIN Required, i < run.pc + 1, Required[i].kind # "drop"
                 PROVE  Required[i].object \in catalog'
      BY <2>2 DEF MadeSoFar
    <3>1. Script[run.pc].kind \in CallKinds
      BY <1>k, <2>2
    <3>2. CASE i = run.pc
      <4>1. Script[run.pc] = Required[i]
        BY <3>2, ScriptPlaces
      <4>2. Script[run.pc].object \in catalog'
        BY <2>1, <3>1, <4>1, Makes
      <4> QED  BY <4>1, <4>2
    <3>3. CASE i # run.pc
      <4>1. i < run.pc /\ run.pc \in i + 1..VerifyAt - 1
        BY <1>a, <1>n, <2>2, <3>3
      <4>2. Required[i].object \in catalog
        BY <1>0, <2>1, <4>1 DEF MadeSoFar
      <4>3. Script[run.pc].kind = "drop" => Script[run.pc].object # Required[i].object
        BY <1>d, <4>1
      <4>4. Required[i].object \in Effect(Script[run.pc], catalog)
        BY <3>1, <4>2, <4>3, Keeps
      <4> QED  BY <2>1, <4>4
    <3> QED  BY <3>2, <3>3
  <2> QED  BY <1>0, <1>e, <2>1, <2>2, <2>3 DEF GenesisInv
<1>2. CASE CallFails
  <2>1. /\ run.status = "running" /\ catalog' = catalog /\ boot' = boot
        /\ failures' \in 0..MaxFailures
        /\ run' = IF run.pc > Len(Required) THEN [run EXCEPT !.pc = VerifyAt] ELSE [run EXCEPT !.status = "failed"]
    BY <1>0, <1>2, <1>a DEF CallFails
  <2>2. CASE run.pc > Len(Required)
    <3>1. /\ run' \in [pc : 0..VerifyAt, status : {"running", "failed", "done"}, runs : 1..MaxRuns]
          /\ run'.status = "running"
      BY <1>0, <1>a, <2>1, <2>2
    <3>2. \A i \in DOMAIN Required : i < run.pc
      BY <1>0, <1>a, <1>n, <2>2
    <3>3. MadeSoFar'
      BY <1>0, <2>1, <3>2 DEF MadeSoFar
    <3> QED  BY <1>0, <1>e, <2>1, <3>1, <3>3 DEF GenesisInv
  <2>3. CASE ~(run.pc > Len(Required))
    <3>1. /\ run' \in [pc : 0..VerifyAt, status : {"running", "failed", "done"}, runs : 1..MaxRuns]
          /\ run'.status = "failed"
      BY <1>0, <2>1, <2>3
    <3> QED  BY <1>0, <1>e, <2>1, <3>1 DEF GenesisInv, MadeSoFar
  <2> QED  BY <2>2, <2>3
<1>3. CASE Verify
  <2>1. /\ run.status = "running" /\ run.pc = VerifyAt /\ UNCHANGED <<catalog, boot, failures>>
        /\ run' = [run EXCEPT !.status = IF VerifyFails THEN "failed" ELSE "done"]
    BY <1>3 DEF Verify
  <2>2. /\ run' \in [pc : 0..VerifyAt, status : {"running", "failed", "done"}, runs : 1..MaxRuns]
        /\ run'.pc = VerifyAt /\ run'.status = IF VerifyFails THEN "failed" ELSE "done"
    BY <1>0, <2>1
  <2>3. run'.status = "done" => <<"mutable", "business_journal">> \notin catalog'
    BY <2>1, <2>2 DEF VerifyFails
  <2>4. MadeSoFar'
    BY <1>0, <2>1, <2>2 DEF MadeSoFar
  <2> QED  BY <1>0, <1>e, <2>1, <2>2, <2>3, <2>4 DEF GenesisInv
<1>4. CASE Retry \/ RunAgain
  <2>1. /\ run' \in [pc : 0..VerifyAt, status : {"running", "failed", "done"}, runs : 1..MaxRuns]
        /\ run'.pc = 0 /\ run'.status = "running" /\ UNCHANGED <<catalog, boot, failures>>
    <3>1. CASE Retry
      <4>1. run' = [run EXCEPT !.status = "running", !.pc = 0] /\ UNCHANGED <<catalog, boot, failures>>
        BY <3>1 DEF Retry
      <4>2. run' = [pc |-> 0, status |-> "running", runs |-> run.runs]
        BY <1>0, <4>1
      <4> QED  BY <1>0, <1>a, <4>1, <4>2
    <3>2. CASE RunAgain
      BY <1>0, <1>a, <3>2 DEF RunAgain
    <3> QED  BY <1>4, <3>1, <3>2
  <2>2. MadeSoFar'
    <3>1. \A i \in DOMAIN Required : ~(i < 0)
      BY ScriptNumbers, ScriptPlaces
    <3> QED  BY <2>1, <3>1 DEF MadeSoFar
  <2> QED  BY <1>0, <1>e, <2>1, <2>2 DEF GenesisInv
<1>5. CASE BootStep
  <2> DEFINE call == MakeTable(BootTables[boot])
  <2>1. /\ run' = run /\ boot > 0 /\ (catalog' = catalog \/ catalog' = Effect(call, catalog))
    BY <1>5 DEF BootStep
  <2>2. failures' \in 0..MaxFailures
    BY <1>0, <1>5, <1>a DEF BootStep
  <2>3. boot' \in 0..Len(BootTables)
    BY <1>0, <1>5, <1>b DEF BootStep
  <2>4. call.kind = "table" /\ call.object = Table(BootTables[boot])
    BY DEF MakeTable
  <2>5. call.object # <<"mutable", "business_journal">>
    BY <2>4 DEF Table
  <2> HIDE DEF call
  <2>6. \A x \in catalog : x \in catalog'
    <3>1. call.kind \in CallKinds /\ call.kind # "drop"
      BY <2>4 DEF CallKinds
    <3>2. \A x \in catalog : x \in Effect(call, catalog)
      BY <3>1, Keeps
    <3> QED  BY <2>1, <3>2
  <2>7. MadeSoFar'
    BY <1>0, <2>1, <2>6 DEF MadeSoFar
  <2>8. run.status = "done" => <<"mutable", "business_journal">> \notin catalog'
    <3> SUFFICES ASSUME run.status = "done" PROVE <<"mutable", "business_journal">> \notin catalog'
      OBVIOUS
    <3>1. PICK i \in DOMAIN Required : Required[i].kind # "drop" /\ Required[i].object = Table("business_journal")
      BY ScriptAssumption
    <3>2. i < run.pc
      BY <1>0, <1>n
    <3>3. Table("business_journal") \in catalog
      BY <1>0, <3>1, <3>2 DEF MadeSoFar
    <3> QED  BY <1>0, <2>1, <2>4, <2>5, <3>3, StaysSealed
  <2> QED  BY <1>0, <1>e, <2>1, <2>2, <2>3, <2>7, <2>8 DEF GenesisInv
<1>6. CASE ServerRestarts
  <2>1. boot' \in 0..Len(BootTables) /\ UNCHANGED <<catalog, run, failures>>
    BY <1>6, <1>b DEF ServerRestarts
  <2> QED  BY <1>0, <1>e, <2>1 DEF GenesisInv, MadeSoFar
<1> QED  BY <1>c, <1>1, <1>2, <1>3, <1>4, <1>5, <1>6 DEF GenesisNext, RunStep

\* A run that reports success leaves everything the required calls are for and a journal that
\* may only be appended to, whatever failed before it and whatever a server migrates meanwhile.
THEOREM GenesisCorrect == GenesisSpec => [](GenesisTypeOK /\ GenesisWhole)
<1>1. GenesisInv /\ [GenesisNext]_genesisVars => GenesisInv'
  <2> SUFFICES ASSUME GenesisInv, [GenesisNext]_genesisVars PROVE GenesisInv'
    OBVIOUS
  <2>1. CASE UNCHANGED genesisVars
    BY <2>1 DEF genesisVars, GenesisInv, MadeSoFar
  <2> QED  BY <2>1, GenesisStep
<1>2. GenesisInv => GenesisTypeOK /\ GenesisWhole
  <2> SUFFICES ASSUME GenesisInv PROVE GenesisTypeOK /\ GenesisWhole
    OBVIOUS
  <2>1. GenesisTypeOK
    BY DEF GenesisInv, GenesisTypeOK
  <2>2. ASSUME run.status = "done" PROVE Whole \subseteq catalog
    <3>1. \A i \in DOMAIN Required : i < run.pc
      BY <2>2, ScriptNumbers, ScriptPlaces DEF GenesisInv
    <3>2. \A i \in DOMAIN Required : Required[i].kind # "drop" => Required[i].object \in catalog
      BY <2>2, <3>1 DEF GenesisInv, MadeSoFar
    <3> QED  BY <3>2 DEF Whole
  <2> QED  BY <2>1, <2>2 DEF GenesisInv, GenesisWhole
<1> QED  BY <1>1, <1>2, GenesisStarts, PTL DEF GenesisSpec

-----------------------------------------------------------------------------
(* The components together.                                                *)

\* A behaviour of the whole is one of each component: nothing that one does touches the
\* state of another.
LEMMA CurationRuns == CurationSpec => WikiSpec /\ PromptSpec /\ Spec /\ GenesisSpec
<1>1. CurationInit => WikiInit /\ PromptInit /\ Init /\ GenesisInit
  BY DEF CurationInit
<1>2. [CurationNext]_curationVars =>
        [WikiNext]_wikiVars /\ [PromptNext]_promptVars /\ [Next]_vars /\ [GenesisNext]_genesisVars
  BY DEF CurationNext, curationVars
<1> QED  BY <1>1, <1>2, PTL DEF CurationSpec, WikiSpec, PromptSpec, Spec, GenesisSpec

\* Every variable of the four keeps to its type, for any value of the constants.
THEOREM CurationTypes == CurationSpec => []CurationTypeOK
<1>1. WikiInv => WikiTypeOK
  BY DEF WikiInv
<1>2. PromptInv => PromptTypeOK
  BY DEF PromptInv
<1> QED
  BY <1>1, <1>2, CurationRuns, WikiInductive, PromptInductive, EdgarTypeCorrect, GenesisCorrect, PTL
  DEF CurationTypeOK

\* What readers and curators rely on, where rebuilds, activations and polls all run: the
\* published page is finished and cited, and the prompt's pointer is at an active version.
THEOREM CurationCorrect == CurationSpec => []WikiSound /\ []PointerActive
  BY CurationRuns, WikiCorrect, PromptPointerActive, PTL

\* A run of the database job that reports success leaves everything its required calls are for
\* and a journal that may only be appended to, wherever the others run.
THEOREM DatabasesWhole == CurationSpec => []GenesisWhole
  BY CurationRuns, GenesisCorrect, PTL
=============================================================================
