------------------------------- MODULE Golden -------------------------------
(***************************************************************************)
(* The golden documents of one author: written, activated, retired.        *)
(*                                                                         *)
(*   packages/db/golden-document-store.ts   packages/db/schema.sql         *)
(*   apps/server/src/api/golden-documents.ts   packages/db/rls-context.ts  *)
(*   apps/web/src/pages/golden-documents.tsx                               *)
(*                                                                         *)
(* An activation is one transaction at READ COMMITTED: it retires the      *)
(* other active documents of the kind that its statement sees, then        *)
(* activates its own.  A row another transaction has written is waited     *)
(* for.  The pages of one author share the documents and see them late, so *)
(* every operation may be asked of a document in any state.                *)
(***************************************************************************)
EXTENDS Naturals, FiniteSets

CONSTANTS
  Docs,      \* documents the author creates
  KindOf,    \* the kind of each
  Pages,     \* open pages, one operation in flight on each
  MaxAsked,  \* bound: operations asked
  NoDoc      \* no document

ASSUME GoldenAssumption == MaxAsked \in Nat /\ NoDoc \notin Docs

VARIABLES
  doc,        \* the committed state of each row, "none" before it is created
  stamp,      \* updated_at: the order in which the transactions that wrote them began
  page,       \* of each page: the operation in flight, its document, the step it is at
  target,     \* of each page: the rows its UPDATE of the others has seen
  draft,      \* of each page: the rows its transaction has written and not committed
  sections,   \* documents with a section
  journal,    \* journal rows: <<what, document>>
  asked,      \* operations asked
  gone,       \* history: documents ever retired
  raced       \* history: whether two activations of a kind were ever under way at once

goldenVars == <<doc, stamp, page, target, draft, sections, journal, asked, gone, raced>>

States == {"authored", "active", "retired"}
NoOp   == [op |-> "none", d |-> NoDoc, at |-> "idle", began |-> 0]

Alike(d) == {x \in Docs : KindOf[x] = KindOf[d]}

\* Rows that another transaction has written and not yet committed.
Locked(p) == UNION {DOMAIN draft[q] : q \in Pages \ {p}}

\* What the transaction of a page reads of a row: its own write, or the committed one.
Reads(p, x) == IF x \in DOMAIN draft[p] THEN draft[p][x] ELSE doc[x]

Written(p, rows, s) == [x \in DOMAIN draft[p] \cup rows |-> IF x \in rows THEN s ELSE draft[p][x]]

-----------------------------------------------------------------------------
GoldenInit ==
  /\ doc = [d \in Docs |-> "none"] /\ stamp = [d \in Docs |-> 0]
  /\ page = [p \in Pages |-> NoOp] /\ target = [p \in Pages |-> {}]
  /\ draft = [p \in Pages |-> <<>>]
  /\ sections = {} /\ journal = {} /\ asked = 0 /\ gone = {} /\ raced = FALSE

\* A button of the page: disabled while its own operation is in flight.
Press(p) == page[p].at = "idle" /\ asked < MaxAsked /\ asked' = asked + 1

Send(op, d, at) == [op |-> op, d |-> d, at |-> at, began |-> asked + 1]

\* handleCreate of the page; the document is inserted as authored.
CreateGoldenDocument(p) == \E d \in Docs :
  /\ doc[d] = "none"
  /\ Press(p)
  /\ page' = [page EXCEPT ![p] = Send("create", d, "journal")]
  /\ doc' = [doc EXCEPT ![d] = "authored"]
  /\ stamp' = [stamp EXCEPT ![d] = asked + 1]
  /\ UNCHANGED <<target, draft, sections, journal, gone, raced>>

\* handleStateChange of the page.
AskState(p) == \E d \in Docs, op \in {"activate", "retire"} :
  /\ Press(p)
  /\ page' = [page EXCEPT ![p] = Send(op, d, "look")]
  /\ raced' = (raced \/ /\ op = "activate"
                        /\ \E q \in Pages \ {p} : page[q].op = "activate" /\ page[q].d \in Alike(d))
  /\ UNCHANGED <<doc, stamp, target, draft, sections, journal, gone>>

\* handleSave of the page: the section of an existing document, whatever its state.
UpsertSection(p) == \E d \in Docs :
  /\ doc[d] # "none"
  /\ Press(p)
  /\ sections' = sections \cup {d}
  /\ UNCHANGED <<doc, stamp, page, target, draft, journal, gone, raced>>

\* The API reads the document in a transaction of its own and refuses one that is
\* not there.
LookUp(p) ==
  /\ page[p].at = "look"
  /\ page' = [page EXCEPT ![p] = IF doc[page[p].d] = "none" THEN NoOp
                                 ELSE [@ EXCEPT !.at = "begin"]]
  /\ UNCHANGED <<doc, stamp, target, draft, sections, journal, asked, gone, raced>>

\* The UPDATE of the others takes its snapshot: the active rows it must write.
SeeOthers(p) ==
  LET d == page[p].d IN
  /\ page[p].at = "begin" /\ page[p].op = "activate"
  /\ target' = [target EXCEPT ![p] = {x \in Alike(d) \ {d} : doc[x] = "active"}]
  /\ page' = [page EXCEPT ![p].at = "retire others"]
  /\ UNCHANGED <<doc, stamp, draft, sections, journal, asked, gone, raced>>

\* ... waits for the rows of it that are locked, and writes those still active.
RetireOthers(p) ==
  /\ page[p].at = "retire others"
  /\ target[p] \cap Locked(p) = {}
  /\ draft' = [draft EXCEPT ![p] = Written(p, {x \in target[p] : doc[x] = "active"}, "retired")]
  /\ target' = [target EXCEPT ![p] = {}]
  /\ page' = [page EXCEPT ![p].at = "set"]
  /\ UNCHANGED <<doc, stamp, sections, journal, asked, gone, raced>>

\* The guard on the state forgotten: any document of the author can be activated.
ActivatableWrong == States

Activatable == {"authored", "active"}

\* A retired document is not activated: no row, an answer of 404 and a commit.
Activate(p) ==
  LET d == page[p].d IN
  /\ page[p].at = "set"
  /\ d \notin Locked(p)
  /\ draft' = [draft EXCEPT ![p] = IF Reads(p, d) \in Activatable
                                   THEN Written(p, {d}, "active") ELSE @]
  /\ page' = [page EXCEPT ![p].at = "commit"]
  /\ UNCHANGED <<doc, stamp, target, sections, journal, asked, gone, raced>>

RetireGoldenDocument(p) ==
  LET d == page[p].d IN
  /\ page[p].at = "begin" /\ page[p].op = "retire"
  /\ d \notin Locked(p)
  /\ draft' = [draft EXCEPT ![p] = IF doc[d] # "retired" THEN Written(p, {d}, "retired") ELSE @]
  /\ page' = [page EXCEPT ![p].at = "commit"]
  /\ UNCHANGED <<doc, stamp, target, sections, journal, asked, gone, raced>>

\* The transaction commits; a transition that wrote its own row is journalled next.
Commit(p) ==
  LET w == draft[p] IN
  /\ page[p].at = "commit"
  /\ doc' = [x \in Docs |-> IF x \in DOMAIN w THEN w[x] ELSE doc[x]]
  /\ stamp' = [x \in Docs |-> IF x \in DOMAIN w THEN page[p].began ELSE stamp[x]]
  /\ gone' = gone \cup {x \in DOMAIN w : w[x] = "retired"}
  /\ draft' = [draft EXCEPT ![p] = <<>>]
  /\ page' = [page EXCEPT ![p] = IF page[p].d \in DOMAIN w
                                 THEN [@ EXCEPT !.at = "journal"] ELSE NoOp]
  /\ UNCHANGED <<target, sections, journal, asked, raced>>

\* writeJournalEvent, after the commit and outside the transaction.
WriteJournal(p) ==
  /\ page[p].at = "journal"
  /\ journal' = journal \cup {<<page[p].op, page[p].d>>}
  /\ page' = [page EXCEPT ![p] = NoOp]
  /\ UNCHANGED <<doc, stamp, target, draft, sections, asked, gone, raced>>

\* Two transactions that wait for each other: PostgreSQL rolls one back.  The same
\* when the server stops, at any step.
GoldenFails(p) ==
  /\ page[p].at # "idle"
  /\ draft' = [draft EXCEPT ![p] = <<>>]
  /\ target' = [target EXCEPT ![p] = {}]
  /\ page' = [page EXCEPT ![p] = NoOp]
  /\ UNCHANGED <<doc, stamp, sections, journal, asked, gone, raced>>

\* A bearer token is refused before any of this, and the refusal journalled.
RefuseWorker(p) ==
  /\ page[p].at = "idle"
  /\ journal' = journal \cup {<<"denied", NoDoc>>}
  /\ UNCHANGED <<doc, stamp, page, target, draft, sections, asked, gone, raced>>

GoldenNext == \E p \in Pages :
  \/ CreateGoldenDocument(p) \/ AskState(p) \/ UpsertSection(p) \/ LookUp(p)
  \/ SeeOthers(p) \/ RetireOthers(p) \/ Activate(p) \/ RetireGoldenDocument(p)
  \/ Commit(p) \/ WriteJournal(p) \/ GoldenFails(p) \/ RefuseWorker(p)

GoldenSpec == GoldenInit /\ [][GoldenNext]_goldenVars

-----------------------------------------------------------------------------
GoldenTypeOK ==
  /\ doc \in [Docs -> States \cup {"none"}]
  /\ stamp \in [Docs -> 0..MaxAsked] /\ asked \in 0..MaxAsked
  /\ sections \subseteq Docs /\ gone \subseteq Docs

Active(d) == {x \in Alike(d) : doc[x] = "active"}

\* fetchActiveGoldenDocument: the active document of the kind with the latest updated_at.
FetchActive(d) == {x \in Active(d) : \A y \in Active(d) : stamp[y] <= stamp[x]}

\* Whatever pages do at the same time: a document once retired is never active
\* again, a row is in two transactions' hands at no moment, the journal tells of no
\* change that did not happen, and while activations of a kind do not overlap there
\* is one document to serve and no second active one.
GoldenSound ==
  /\ \A d \in gone : doc[d] = "retired"
  /\ \A p, q \in Pages : p # q => DOMAIN draft[p] \cap DOMAIN draft[q] = {}
  /\ \A d \in Docs : /\ <<"retire", d>> \in journal => doc[d] = "retired"
                     /\ <<"activate", d>> \in journal => doc[d] \in {"active", "retired"}
  /\ ~raced => \A d \in Docs : Cardinality(Active(d)) <= 1 /\ FetchActive(d) = Active(d)
=============================================================================
