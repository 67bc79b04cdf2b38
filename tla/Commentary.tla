----------------------------- MODULE Commentary -----------------------------
(***************************************************************************)
(* A researcher corrects a wiki page, in the chat or inline, and the entry *)
(* of methodology commentary that a correction may open.                   *)
(*                                                                         *)
(*   packages/db/chat-feedback-store.ts                                    *)
(*   packages/db/wiki-inline-edit-store.ts                                 *)
(*   apps/server/src/api/chat-feedback-api.ts                              *)
(*   apps/server/src/api/wiki-inline-edit-api.ts                           *)
(*                                                                         *)
(* The entry and the correction are two statements.  A request may stop    *)
(* between them, and the researcher's client, which saw no answer, sends   *)
(* the correction again.                                                   *)
(***************************************************************************)
EXTENDS Naturals, FiniteSets, Sequences

CONSTANTS
  Requests,     \* requests in flight
  Researchers,
  MaxEntries,   \* bound: entries of commentary
  MaxEdits,     \* bound: corrections stored
  NoEntry       \* a correction without an entry

ASSUME CommentaryAssumption == {MaxEntries, MaxEdits} \subseteq Nat /\ NoEntry \notin Nat

VARIABLES
  widened,   \* whether the inline-edit DDL has widened the CHECK on the source
  entry,     \* methodology_meta_commentary, in the order of insertion
  edit,      \* chat_feedback and wiki_inline_edits, as one set
  edits,     \* rows stored in them
  request,   \* of each request: the step it is at, and what it carries
  cut        \* history: requests that stopped between their two rows

commentaryVars == <<widened, entry, edit, edits, request, cut>>

Sources == {"chat_feedback", "wiki_inline_edit", "maintenance"}
NoRequest == [at |-> "idle", source |-> "none", who |-> "none", opened |-> NoEntry]

Open(source, who) ==
  [source |-> source, who |-> who, status |-> "open",
   acknowledged |-> FALSE, folded |-> FALSE, archived |-> FALSE]

Of(who) == {e \in DOMAIN entry : entry[e].who = who}

-----------------------------------------------------------------------------
CommentaryInit ==
  /\ widened = FALSE /\ entry = <<>> /\ edit = {} /\ edits = 0
  /\ request = [r \in Requests |-> NoRequest] /\ cut = 0

\* The second DDL: dropping and adding the CHECK, whose failure is swallowed.
WidenSources ==
  /\ ~widened
  /\ widened' = TRUE
  /\ UNCHANGED <<entry, edit, edits, request, cut>>

Allowed(source) == source # "wiki_inline_edit" \/ widened

Insert(source, who) == entry' = Append(entry, Open(source, who))

\* A correction with a shift of method opens the entry first; the INSERT fails while
\* the CHECK does not allow its source, and the request with it.
Correct(r, source, shift) == \E who \in Researchers :
  /\ request[r].at = "idle" /\ edits < MaxEdits
  /\ IF ~shift
     THEN /\ request' = [request EXCEPT ![r] = [at |-> "row", source |-> source, who |-> who,
                                                opened |-> NoEntry]]
          /\ UNCHANGED entry
     ELSE /\ Len(entry) < MaxEntries /\ Allowed(source)
          /\ Insert(source, who)
          /\ request' = [request EXCEPT ![r] = [at |-> "row", source |-> source, who |-> who,
                                                opened |-> Len(entry) + 1]]
  /\ UNCHANGED <<widened, edit, edits, cut>>

\* The handlers require the observation whenever the shift is set.
ApplyFeedback(r)   == \E shift \in BOOLEAN : Correct(r, "chat_feedback", shift)
ApplyInlineEdit(r) == \E shift \in BOOLEAN : Correct(r, "wiki_inline_edit", shift)

InsertFeedback(r) ==
  LET q == request[r] IN
  /\ q.at = "row" /\ edits < MaxEdits
  /\ edits' = edits + 1
  /\ edit' = edit \cup {[id |-> edits + 1, source |-> q.source, who |-> q.who, entry |-> q.opened]}
  /\ request' = [request EXCEPT ![r] = NoRequest]
  /\ UNCHANGED <<widened, entry, cut>>

\* The server stops, or the second INSERT fails.
StopRequest(r) ==
  /\ request[r].at # "idle"
  /\ request' = [request EXCEPT ![r] = NoRequest]
  /\ cut' = cut + (IF request[r].opened # NoEntry THEN 1 ELSE 0)
  /\ UNCHANGED <<widened, entry, edit, edits>>

\* openMetaCommentaryEntry, for an entry that no correction opened.
OpenEntry == \E who \in Researchers :
  /\ Len(entry) < MaxEntries
  /\ Insert("maintenance", who)
  /\ UNCHANGED <<widened, edit, edits, request, cut>>

\* Each transition is one UPDATE of the researcher's entry, guarded by its status;
\* no row is an answer of 409.
Acknowledge == \E who \in Researchers : \E e \in Of(who) :
  /\ entry[e].status = "open"
  /\ entry' = [entry EXCEPT ![e].status = "acknowledged", ![e].acknowledged = TRUE]
  /\ UNCHANGED <<widened, edit, edits, request, cut>>

FoldIn == \E who \in Researchers : \E e \in Of(who) :
  /\ entry[e].status = "acknowledged"
  /\ entry' = [entry EXCEPT ![e].status = "folded_in", ![e].folded = TRUE]
  /\ UNCHANGED <<widened, edit, edits, request, cut>>

Archivable(e) == entry[e].status \in {"open", "acknowledged"}

Archive == \E who \in Researchers : \E e \in Of(who) :
  /\ Archivable(e)
  /\ entry' = [entry EXCEPT ![e].status = "archived", ![e].archived = TRUE]
  /\ UNCHANGED <<widened, edit, edits, request, cut>>

CommentaryNext ==
  \/ WidenSources \/ OpenEntry \/ Acknowledge \/ FoldIn \/ Archive
  \/ \E r \in Requests : ApplyFeedback(r) \/ ApplyInlineEdit(r) \/ InsertFeedback(r) \/ StopRequest(r)

CommentarySpec == CommentaryInit /\ [][CommentaryNext]_commentaryVars

-----------------------------------------------------------------------------
CommentaryTypeOK ==
  /\ widened \in BOOLEAN /\ edits \in 0..MaxEdits /\ Len(entry) <= MaxEntries
  /\ \A e \in DOMAIN entry : entry[e].source \in Sources /\ entry[e].who \in Researchers

\* The entries that a correction should name and none does.
Orphans ==
  {e \in DOMAIN entry : entry[e].source # "maintenance" /\ \A x \in edit : x.entry # e}

\* A stored correction names an entry of its own, of its source and its researcher,
\* however requests interleave and repeat; the entries left without one are those of
\* requests in flight and of requests that stopped; and an entry has been folded in
\* or archived, never both, and folded in only once acknowledged.
CommentarySound ==
  /\ \A x \in edit : x.entry # NoEntry =>
       /\ x.entry \in DOMAIN entry
       /\ entry[x.entry].source = x.source /\ entry[x.entry].who = x.who
       /\ \A y \in edit : y.entry = x.entry => y = x
  /\ Cardinality(Orphans) = cut + Cardinality({r \in Requests : request[r].opened # NoEntry})
  /\ \A e \in DOMAIN entry :
       /\ ~(entry[e].folded /\ entry[e].archived)
       /\ entry[e].folded => entry[e].acknowledged
=============================================================================
