---------------------------- MODULE WikiRebuild ----------------------------
(***************************************************************************)
(* The rebuild of one wiki page: the workers that run WIKI_REBUILD tasks   *)
(* for its subject, the internal API they call, and the rows of            *)
(* wiki_pages, wiki_page_versions_mkt and wiki_page_cites.                 *)
(*                                                                         *)
(* Code: apps/worker/src/wiki-rebuild-job.ts, apps/server/src/api/         *)
(* wiki-rebuild-api.ts, packages/db/wiki-rebuild-store.ts.                 *)
(*                                                                         *)
(* The queue delivers at least once and one subject may have several tasks *)
(* at a time, so workers run concurrently on the same page.  Pages of      *)
(* different subjects share nothing: one page is enough.  One SQL          *)
(* statement (or transaction) is one step.                                 *)
(***************************************************************************)
EXTENDS Integers, FiniteSets

CONSTANTS
  WikiWorkers,      \* workers that may rebuild this page
  Facts,        \* confirmed_facts rows the subject may get
  Chunks,       \* corpus_chunks rows the subject may get
  NoPage,         \* SQL NULL
  MaxVersions,  \* bound on the versions of the page
  MaxWikiStops      \* bound on crashes and failed calls

ASSUME WikiBoundsAssumption == MaxVersions \in Nat /\ MaxWikiStops \in Nat
ASSUME NoPageAssumption == /\ \A S \in SUBSET Facts : NoPage # S
                         /\ \A v \in 1..MaxVersions : NoPage # v
ASSUME EvidenceAssumption == Facts \cap Chunks = {}

VARIABLES
  current,    \* facts with superseded_by_id NULL, and the chunks
  confirmed,  \* facts and chunks ever inserted
  made,       \* versions inserted so far; a version's number is its age
  wikiVersion,    \* rows of wiki_page_versions_mkt with their cites edges
  published,  \* currently_published_version_id
  wikiWorker,     \* what each worker has read and does next
  wikiStops       \* crashes and failed calls so far

wikiVars == <<current, confirmed, made, wikiVersion, published, wikiWorker, wikiStops>>

Versions == 1..MaxVersions
Evidence == Facts \cup Chunks

\* Status, the facts the body was synthesised from, the targets of the cites edges.
WikiVersion == [status : {"absent", "pending", "content_written", "embedded", "indexed"},
            body : {NoPage} \cup SUBSET Facts, cites : SUBSET Evidence]
NoWikiVersion == [status |-> "absent", body |-> NoPage, cites |-> {}]

\* pc names the next call of executeWikiRebuildTask; evidence is what its first two
\* calls returned, uncited what its cites loops still have to post.
WikiWorker == [pc : {"idle", "chunks", "find", "insert", "content", "embed", "publish", "cite"},
           at : {NoPage} \cup Versions, evidence : SUBSET Evidence,
           uncited : SUBSET Evidence]
WikiIdle == [pc |-> "idle", at |-> NoPage, evidence |-> {}, uncited |-> {}]

WikiInit ==
  /\ current = {} /\ confirmed = {}
  /\ made = 0
  /\ wikiVersion = [v \in Versions |-> NoWikiVersion]
  /\ published = NoPage
  /\ wikiWorker = [w \in WikiWorkers |-> WikiIdle]
  /\ wikiStops = 0

-----------------------------------------------------------------------------
(* The evidence: insertConfirmedFact, which may supersede a current fact,  *)
(* and the chunks of FINDING_INGEST.                                       *)

InsertEvidence(e, superseded) ==
  /\ e \notin confirmed
  /\ superseded \subseteq current \cap Facts /\ Cardinality(superseded) <= 1
  /\ e \in Chunks => superseded = {}
  /\ current' = (current \ superseded) \cup {e}
  /\ confirmed' = confirmed \cup {e}
  /\ UNCHANGED <<made, wikiVersion, published, wikiWorker, wikiStops>>

-----------------------------------------------------------------------------
(* executeWikiRebuildTask, one call at a time.  The definitions named      *)
(* ...Wrong are plausible slips in the one that follows; no action uses    *)
(* them.                                                                   *)

Becomes(w, r) == wikiWorker' = [wikiWorker EXCEPT ![w] = r]
WikiAt(w, pc) == wikiWorker[w].pc = pc

\* GET facts: only those not superseded.
FetchFacts(w) ==
  /\ WikiAt(w, "idle")
  /\ Becomes(w, [WikiIdle EXCEPT !.pc = "chunks", !.evidence = current \cap Facts])
  /\ UNCHANGED <<current, confirmed, made, wikiVersion, published, wikiStops>>

FetchChunks(w) ==
  /\ WikiAt(w, "chunks")
  /\ Becomes(w, [wikiWorker[w] EXCEPT !.pc = "find", !.evidence = @ \cup (current \cap Chunks)])
  /\ UNCHANGED <<current, confirmed, made, wikiVersion, published, wikiStops>>

Stalled(v) == wikiVersion[v].status \notin {"absent", "indexed"}
LastStalled(v) == Stalled(v) /\ \A u \in Versions : Stalled(u) => u <= v

\* The next call for a version of the given status.
NextCall(status) == CASE status = "pending" -> "content"
                      [] status = "content_written" -> "embed"
                      [] status = "embedded" -> "publish"
                      [] OTHER -> "cite"

\* upsertWikiPage and getStalledWikiPageVersion: the youngest version that is not
\* indexed is resumed from its status, whoever may be working on it.
ResumeStalled(w) ==
  /\ WikiAt(w, "find")
  /\ \E v \in Versions :
       /\ LastStalled(v)
       /\ Becomes(w, [wikiWorker[w] EXCEPT !.pc = NextCall(wikiVersion[v].status), !.at = v])
  /\ UNCHANGED <<current, confirmed, made, wikiVersion, published, wikiStops>>

FindNone(w) ==
  /\ WikiAt(w, "find")
  /\ \A v \in Versions : ~Stalled(v)
  /\ Becomes(w, [wikiWorker[w] EXCEPT !.pc = "insert"])
  /\ UNCHANGED <<current, confirmed, made, wikiVersion, published, wikiStops>>

\* insertWikiPageVersion, a statement of its own: another worker may have inserted
\* a version since the SELECT.
InsertWikiVersion(w) ==
  /\ WikiAt(w, "insert")
  /\ made < MaxVersions
  /\ made' = made + 1
  /\ wikiVersion' = [wikiVersion EXCEPT ![made + 1].status = "pending"]
  /\ Becomes(w, [wikiWorker[w] EXCEPT !.pc = "content", !.at = made + 1])
  /\ UNCHANGED <<current, confirmed, published, wikiStops>>

\* An UPDATE of the version guarded by its status; the PATCH answers ok whether or
\* not it matched.
Advance(v, from, row) == IF wikiVersion[v].status = from THEN [wikiVersion EXCEPT ![v] = row]
                                                      ELSE wikiVersion

\* The body is made of the facts; the chunks are only cited.
SynthesiseMarkdown(evidence) == evidence \cap Facts

\* The name of the call is written instead of the stage it completes.
WriteContentStageWrong(w) ==
  LET v == wikiWorker[w].at IN
  /\ WikiAt(w, "content")
  /\ wikiVersion' = Advance(v, "pending",
       [wikiVersion[v] EXCEPT !.status = wikiWorker[w].pc, !.body = SynthesiseMarkdown(wikiWorker[w].evidence)])
  /\ Becomes(w, [wikiWorker[w] EXCEPT !.pc = "embed"])
  /\ UNCHANGED <<current, confirmed, made, published, wikiStops>>

\* setWikiPageVersionBody
WriteContent(w) ==
  LET v == wikiWorker[w].at IN
  /\ WikiAt(w, "content")
  /\ wikiVersion' = Advance(v, "pending",
       [wikiVersion[v] EXCEPT !.status = "content_written",
                          !.body = SynthesiseMarkdown(wikiWorker[w].evidence)])
  /\ Becomes(w, [wikiWorker[w] EXCEPT !.pc = "embed"])
  /\ UNCHANGED <<current, confirmed, made, published, wikiStops>>

\* The status guard of the embedding is missing.
EmbedWrong(w) ==
  LET v == wikiWorker[w].at IN
  /\ WikiAt(w, "embed")
  /\ wikiVersion' = [wikiVersion EXCEPT ![v].status = "embedded"]
  /\ Becomes(w, [wikiWorker[w] EXCEPT !.pc = "publish"])
  /\ UNCHANGED <<current, confirmed, made, published, wikiStops>>

\* setWikiPageVersionEmbedded
Embed(w) ==
  LET v == wikiWorker[w].at IN
  /\ WikiAt(w, "embed")
  /\ wikiVersion' = Advance(v, "content_written", [wikiVersion[v] EXCEPT !.status = "embedded"])
  /\ Becomes(w, [wikiWorker[w] EXCEPT !.pc = "publish"])
  /\ UNCHANGED <<current, confirmed, made, published, wikiStops>>

\* publishWikiPageVersion: in one transaction a guarded UPDATE of the version and
\* an unguarded one of the pointer.  The distillation trigger that follows enqueues
\* nothing yet and changes no state here.
PublishVersion(w) ==
  LET v == wikiWorker[w].at IN
  /\ WikiAt(w, "publish")
  /\ wikiVersion' = Advance(v, "embedded", [wikiVersion[v] EXCEPT !.status = "indexed"])
  /\ published' = v
  /\ Becomes(w, [wikiWorker[w] EXCEPT !.pc = "cite", !.uncited = wikiWorker[w].evidence])
  /\ UNCHANGED <<current, confirmed, made, wikiStops>>

\* One POST of the cites loops, facts first: insertCitesEdge, or an error response
\* that the loop ignores.
Cite(w) ==
  LET v == wikiWorker[w].at IN
  /\ WikiAt(w, "cite")
  /\ \E e \in wikiWorker[w].uncited :
       /\ e \in Chunks => wikiWorker[w].uncited \cap Facts = {}
       /\ Becomes(w, [wikiWorker[w] EXCEPT !.uncited = @ \ {e}])
       /\ \/ /\ wikiVersion' = [wikiVersion EXCEPT ![v].cites = @ \cup {e}]
             /\ UNCHANGED wikiStops
          \/ /\ wikiStops < MaxWikiStops
             /\ wikiStops' = wikiStops + 1
             /\ UNCHANGED wikiVersion
  /\ UNCHANGED <<current, confirmed, made, published>>

Finish(w) ==
  /\ WikiAt(w, "cite") /\ wikiWorker[w].uncited = {}
  /\ Becomes(w, WikiIdle)
  /\ UNCHANGED <<current, confirmed, made, wikiVersion, published, wikiStops>>

\* The pod crashes, or a call fails (before or after it took effect) and the task
\* returns an error result: the rows stay as they are.
StopWiki(w) ==
  /\ ~WikiAt(w, "idle")
  /\ wikiStops < MaxWikiStops
  /\ wikiStops' = wikiStops + 1
  /\ Becomes(w, WikiIdle)
  /\ UNCHANGED <<current, confirmed, made, wikiVersion, published>>

Step(w) ==
  \/ FetchFacts(w) \/ FetchChunks(w)
  \/ ResumeStalled(w) \/ FindNone(w) \/ InsertWikiVersion(w)
  \/ WriteContent(w) \/ Embed(w) \/ PublishVersion(w)
  \/ Cite(w) \/ Finish(w)

WikiNext ==
  \/ \E e \in Evidence, s \in SUBSET Facts : InsertEvidence(e, s)
  \/ \E w \in WikiWorkers : Step(w) \/ StopWiki(w)

WikiSpec == WikiInit /\ [][WikiNext]_wikiVars

-----------------------------------------------------------------------------
(* Properties.                                                             *)

\* Every variable keeps to its type; a version has one of the four statuses.
WikiTypeOK ==
  /\ current \subseteq Evidence /\ confirmed \subseteq Evidence
  /\ made \in 0..MaxVersions
  /\ wikiVersion \in [Versions -> WikiVersion]
  /\ published \in {NoPage} \cup Versions
  /\ wikiWorker \in [WikiWorkers -> WikiWorker]
  /\ wikiStops \in 0..MaxWikiStops

\* AC-3, "Readers never follow a non-indexed version": the pointer is NULL or at an
\* indexed version with a body, although the pointer UPDATE is unguarded and the
\* PATCHes before it answer ok when they matched nothing.
PublishedIndexed ==
  published # NoPage => /\ wikiVersion[published].status = "indexed"
                      /\ wikiVersion[published].body # NoPage

\* "Wiki claims and facts cite their evidence via typed cites edges": unless a pod or
\* a call failed, a version no worker is at has a cites edge for every fact of its
\* body, also when one worker wrote the body and another published it.
BodyCited ==
  \A v \in Versions :
    wikiStops = 0 /\ wikiVersion[v].status = "indexed" /\ (\A w \in WikiWorkers : wikiWorker[w].at # v)
      => wikiVersion[v].body \subseteq wikiVersion[v].cites

\* Both, for the rows a reader follows: what is published is finished and cited.
WikiSound == PublishedIndexed /\ BodyCited

\* The pointer "is advanced": the published version is never replaced by an older one.
PublishedAdvances ==
  [][published # NoPage => published' >= published]_wikiVars
=============================================================================
