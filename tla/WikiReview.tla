----------------------------- MODULE WikiReview -----------------------------
(***************************************************************************)
(* The two gates before the drafts of a wiki page are published: the       *)
(* review by designated approvers, and the citations of their claims.      *)
(*                                                                         *)
(*   apps/server/src/api/internal-wiki-versions.ts                         *)
(*   apps/server/src/api/wiki-draft-review.ts                              *)
(*   apps/web/src/components/DraftReviewModal.tsx                          *)
(*   apps/server/src/api/wiki-page-view.ts                                 *)
(*   apps/server/src/api/wiki.ts   packages/db/claim-citation-coverage.ts  *)
(*                                                                         *)
(* A decision reads the draft, writes its audit event and then the         *)
(* versions, each statement committed by itself; the last one names the    *)
(* draft and not the state it was read in.  The server may stop between    *)
(* any two of them.  For the citations a version is inserted, checked and  *)
(* marked by separate statements, and published by a request that reads    *)
(* the mark before it writes; the one that inserts may stop before it.     *)
(***************************************************************************)
EXTENDS Naturals, FiniteSets

-----------------------------------------------------------------------------
(* The review.                                                             *)

CONSTANTS
  Drafts,      \* versions of the page, written by workers
  Reviewers,   \* designated approvers, each with one modal open
  MaxStops     \* bound: requests that stop half-way

ASSUME ReviewAssumption == MaxStops \in Nat

VARIABLES
  version,    \* wiki_page_versions: the state of each
  modal,      \* of each reviewer: the draft shown and the step it is at
  decided,    \* audit events: <<what, draft>>
  overlapping,      \* history: whether two decisions were ever under way at once
  stops       \* history: requests that stopped half-way

reviewVars == <<version, modal, decided, overlapping, stops>>

NoDraft == "no draft"
ClosedModal  == [d |-> NoDraft, at |-> "closed"]

Published == {d \in Drafts : version[d] = "published"}

-----------------------------------------------------------------------------
ReviewInit ==
  /\ version = [d \in Drafts |-> "none"]
  /\ modal = [r \in Reviewers |-> ClosedModal] /\ decided = {} /\ overlapping = FALSE /\ stops = 0

\* POST /internal/wiki/versions: the audit event and the draft.  Its embedding,
\* whose failure is swallowed, is left out.
CreateDraft == \E d \in Drafts :
  /\ version[d] = "none"
  /\ version' = [version EXCEPT ![d] = "draft"]
  /\ decided' = decided \cup {<<"created", d>>}
  /\ UNCHANGED <<modal, overlapping, stops>>

\* GET /api/wiki/drafts/:id: the modal shows the draft, and how it differs from the published
\* version, as they are now.
OpenModal(r) == \E d \in Drafts :
  /\ modal[r].at = "closed" /\ version[d] = "draft"
  /\ modal' = [modal EXCEPT ![r] = [d |-> d, at |-> "shown"]]
  /\ UNCHANGED <<version, decided, overlapping, stops>>

CloseModal(r) ==
  /\ modal[r].at = "shown"
  /\ modal' = [modal EXCEPT ![r] = ClosedModal]
  /\ UNCHANGED <<version, decided, overlapping, stops>>

\* The handler reads the version again: one that is no longer a draft is answered 422.
\* Its audit event is written before anything else.
Decide(r, what, next) ==
  LET d == modal[r].d IN
  /\ modal[r].at = "shown" /\ version[d] = "draft"
  /\ decided' = decided \cup {<<what, d>>}
  /\ modal' = [modal EXCEPT ![r].at = next]
  /\ overlapping' = (overlapping \/ \E q \in Reviewers \ {r} : modal[q].at \notin {"closed", "shown"})
  /\ UNCHANGED <<version, stops>>

HandleApprove(r) == Decide(r, "approved", "archive others")
HandleReject(r)  == Decide(r, "rejected", "archive")

\* The published version of the page looked for among the drafts.
OthersWrong(d) == {x \in Drafts \ {d} : version[x] = "draft"}

Others(d) == Published \ {d}

ArchiveOthers(r) ==
  /\ modal[r].at = "archive others"
  /\ version' = [x \in Drafts |-> IF x \in Others(modal[r].d) THEN "archived" ELSE version[x]]
  /\ modal' = [modal EXCEPT ![r].at = "publish"]
  /\ UNCHANGED <<decided, overlapping, stops>>

Settle(r, at, state) ==
  /\ modal[r].at = at
  /\ version' = [version EXCEPT ![modal[r].d] = state]
  /\ modal' = [modal EXCEPT ![r] = ClosedModal]
  /\ UNCHANGED <<decided, overlapping, stops>>

Publish(r) == Settle(r, "publish", "published")
RejectDraft(r)  == Settle(r, "archive", "archived")

StopReview(r) ==
  /\ modal[r].at \notin {"closed", "shown"} /\ stops < MaxStops
  /\ stops' = stops + 1
  /\ modal' = [modal EXCEPT ![r] = ClosedModal]
  /\ UNCHANGED <<version, decided, overlapping>>

ReviewNext ==
  \/ CreateDraft
  \/ \E r \in Reviewers : OpenModal(r) \/ CloseModal(r) \/ HandleApprove(r) \/ HandleReject(r)
                            \/ ArchiveOthers(r) \/ Publish(r) \/ RejectDraft(r) \/ StopReview(r)

ReviewSpec == ReviewInit /\ [][ReviewNext]_reviewVars

-----------------------------------------------------------------------------
\* GET /api/wiki/pages/:customer: drafts too are listed, archived versions are not.
Listed == {d \in Drafts : version[d] \in {"draft", "published"}}

ReviewTypeOK ==
  /\ version \in [Drafts -> {"none", "draft", "published", "archived"}]
  /\ stops \in 0..MaxStops

\* No version is published without an approval on the audit log, nor archived without
\* a decision on it or on another; while decisions do not overlap there is one
\* published version at most, none that a rejection closed, and, once one was
\* approved, exactly one unless a request stopped half-way.
ReviewSound ==
  /\ \A d \in Published : <<"approved", d>> \in decided
  /\ \A d \in Drafts : version[d] = "archived" =>
       \E x \in Drafts : <<"approved", x>> \in decided \/ <<"rejected", d>> \in decided
  /\ ~overlapping =>
       /\ Cardinality(Published) <= 1
       /\ stops = 0 =>
            /\ \A d \in Published : <<"rejected", d>> \notin decided
            /\ (\E d \in Drafts : <<"approved", d>> \in decided) =>
                 \/ \E r \in Reviewers : modal[r].at \in {"archive others", "publish"}
                 \/ Published # {}
  /\ Published \subseteq Listed

-----------------------------------------------------------------------------
(* The gate on versions whose claims are not cited.                        *)

CONSTANTS
  Submitted,   \* versions
  MaxClaims,   \* bound: claims in the text of one
  Sla          \* CITATION_COVERAGE_THRESHOLD, in percent

ASSUME GateAssumption == MaxClaims \in Nat /\ Sla \in 0..100

VARIABLES
  text,       \* of each version: its claims, and those of them with a citation marker
  gated,      \* of each: "none", "new" until it is marked, "blocked" or "clear"
  letting,    \* versions a request for publication has read and not written yet
  released,   \* those published
  early       \* history: those let through before they were marked

gateVars == <<text, gated, letting, released, early>>

GateInit ==
  /\ text = [s \in Submitted |-> [claims |-> 0, marked |-> 0]]
  /\ gated = [s \in Submitted |-> "none"]
  /\ letting = {} /\ released = {} /\ early = {}

\* POST /api/wiki/versions inserts the version.
SubmitVersion == \E s \in Submitted, n \in 0..MaxClaims : \E k \in 0..n :
  /\ gated[s] = "none"
  /\ gated' = [gated EXCEPT ![s] = "new"]
  /\ text' = [text EXCEPT ![s] = [claims |-> n, marked |-> k]]
  /\ UNCHANGED <<letting, released, early>>

\* sentenceIsCited: any marker, while no chunk is related to the version; of a
\* version inserted by the same request none is.
CitedClaims(t, chunks) == IF chunks = {} THEN t.marked ELSE 0

\* checkCitationCoverage: a text without claims is covered.
Passes(t) == t.claims = 0 \/ 100 * CitedClaims(t, {}) >= Sla * t.claims

CheckAndMarkDraft(s) ==
  /\ gated[s] = "new"
  /\ gated' = [gated EXCEPT ![s] = IF Passes(text[s]) THEN "clear" ELSE "blocked"]
  /\ UNCHANGED <<text, letting, released, early>>

\* POST .../publish refuses a version marked blocked: one that is not marked is not.
LetThrough(s) ==
  /\ gated[s] \in {"new", "clear"}
  /\ letting' = letting \cup {s}
  /\ early' = IF gated[s] = "new" THEN early \cup {s} ELSE early
  /\ UNCHANGED <<text, gated, released>>

PublishVersion(s) ==
  /\ s \in letting
  /\ released' = released \cup {s}
  /\ letting' = letting \ {s}
  /\ UNCHANGED <<text, gated, early>>

GateNext ==
  SubmitVersion \/ \E s \in Submitted : CheckAndMarkDraft(s) \/ LetThrough(s) \/ PublishVersion(s)

GateSpec == GateInit /\ [][GateNext]_gateVars

-----------------------------------------------------------------------------
GateTypeOK ==
  /\ gated \in [Submitted -> {"none", "new", "blocked", "clear"}]
  /\ \A s \in Submitted : text[s].marked <= text[s].claims
  /\ letting \cup released \cup early \subseteq Submitted

\* A version is published with fewer citations than the threshold asks for only when
\* its publication was let through between its insertion and its mark.
GateHolds ==
  \A s \in released \ early :
    /\ gated[s] = "clear"
    /\ 100 * text[s].marked >= Sla * text[s].claims
=============================================================================
