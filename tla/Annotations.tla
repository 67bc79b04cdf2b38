----------------------------- MODULE Annotations -----------------------------
(***************************************************************************)
(* Annotations of wiki pages: the agent's correction of a passage, which a *)
(* reader accepts or rejects, and the threads of comments with their       *)
(* replies.                                                                *)
(*                                                                         *)
(*   apps/server/src/api/annotations.ts                                    *)
(*   apps/server/src/api/annotation-agent.ts                               *)
(*   apps/server/src/api/annotation-threads.ts                             *)
(*                                                                         *)
(* Every statement and every audit event is a step of its own; there is no *)
(* transaction.  A request may stop between two steps: the server dies,    *)
(* the audit database or the model does not answer.                        *)
(***************************************************************************)
EXTENDS Naturals, FiniteSets

CONSTANTS
  NoteCalls,   \* requests: each runs once
  Notes,       \* annotations of a passage
  Threads,
  Replies

\* "none" stands for the absence of one.
ASSUME AnnotationsAssumption == "none" \notin Threads

VARIABLES
  note,       \* wiki_annotation entities: the state of each, or "none"
  corrected,  \* wiki_page_version entities with a source_annotation_id, counted
  opened,     \* audit events annotation.opened
  created,    \* audit events wiki_version.create, counted
  thread,     \* annotation_threads: "none", "open" or "resolved"
  reply,      \* annotation_replies: the thread of each, or "none"
  touched,    \* of each thread: the replies its updated_at is not older than
  noteCall,   \* of each request: its step, what it is about and what it has read
  torn,       \* history: acceptances that stopped between their two rows
  disputed,   \* history: annotations two requests decided at once
  untouched   \* history: threads a reply to which stopped half way

noteVars == <<note, corrected, opened, created, thread, reply, touched, noteCall, torn, disputed, untouched>>

Asleep   == [at |-> "idle", note |-> "none", thread |-> "none", reply |-> "none", shown |-> {}]
Deciding == {"accept", "write", "settle", "accepted", "reject", "rejected"}

AnnotationsInit ==
  /\ note = [n \in Notes |-> "none"] /\ corrected = [n \in Notes |-> 0]
  /\ opened = {} /\ created = [n \in Notes |-> 0]
  /\ thread = [t \in Threads |-> "none"] /\ reply = [p \in Replies |-> "none"]
  /\ touched = [t \in Threads |-> {}]
  /\ noteCall = [c \in NoteCalls |-> Asleep]
  /\ torn = [n \in Notes |-> 0] /\ disputed = {} /\ untouched = {}

NowAt(c, step) == noteCall' = [noteCall EXCEPT ![c].at = step]
NotesSame   == UNCHANGED <<note, corrected, opened, created, torn, disputed>>
ThreadsSame == UNCHANGED <<thread, reply, touched, untouched>>

-----------------------------------------------------------------------------
(* POST /api/annotations.                                                  *)

\* The id is fresh, and annotation.opened comes before everything else.
RecordOpened(c, n) ==
  /\ noteCall[c].at = "idle" /\ n \notin opened
  /\ opened' = opened \cup {n}
  /\ noteCall' = [noteCall EXCEPT ![c] = [Asleep EXCEPT !.at = "ask", !.note = n]]
  /\ ThreadsSame /\ UNCHANGED <<note, corrected, created, torn, disputed>>

\* A failure of the model is answered with 502, and nothing but the event remains.
CallAnnotationAgent(c) ==
  /\ noteCall[c].at = "ask"
  /\ NowAt(c, "insert")
  /\ NotesSame /\ ThreadsSame

InsertNote(c) ==
  /\ noteCall[c].at = "insert"
  /\ note' = [note EXCEPT ![noteCall[c].note] = "AGENT_REPLIED"]
  /\ NowAt(c, "replied")
  /\ ThreadsSame /\ UNCHANGED <<corrected, opened, created, torn, disputed>>

\* annotation.reply, annotation.accepted or annotation.rejected, and the answer.
RecordOutcome(c) ==
  /\ noteCall[c].at \in {"replied", "accepted", "rejected"}
  /\ NowAt(c, "done")
  /\ NotesSame /\ ThreadsSame

-----------------------------------------------------------------------------
(* POST /api/annotations/:id/accept and /reject: the state is read, and    *)
(* written by its id alone.                                                *)

DecidableWrong(n) == note[n] \in {"AGENT_REPLIED", "ACCEPTED"}
Decidable(n) == note[n] = "AGENT_REPLIED"

Decider(n) == {c \in NoteCalls : noteCall[c].note = n /\ noteCall[c].at \in Deciding}

ReadNote(c, n, step) ==
  /\ noteCall[c].at = "idle" /\ Decidable(n)
  /\ noteCall' = [noteCall EXCEPT ![c] = [Asleep EXCEPT !.at = step, !.note = n]]
  /\ disputed' = disputed \cup (IF Decider(n) = {} THEN {} ELSE {n})
  /\ ThreadsSame /\ UNCHANGED <<note, corrected, opened, created, torn>>

ReadToAccept(c, n) == ReadNote(c, n, "accept")
ReadToReject(c, n) == ReadNote(c, n, "reject")

RecordVersion(c) ==
  /\ noteCall[c].at = "accept"
  /\ created' = [created EXCEPT ![noteCall[c].note] = @ + 1]
  /\ NowAt(c, "write")
  /\ ThreadsSame /\ UNCHANGED <<note, corrected, opened, torn, disputed>>

InsertCorrection(c) ==
  /\ noteCall[c].at = "write"
  /\ corrected' = [corrected EXCEPT ![noteCall[c].note] = @ + 1]
  /\ NowAt(c, "settle")
  /\ ThreadsSame /\ UNCHANGED <<note, opened, created, torn, disputed>>

SetAccepted(c) ==
  /\ noteCall[c].at = "settle"
  /\ note' = [note EXCEPT ![noteCall[c].note] = "ACCEPTED"]
  /\ NowAt(c, "accepted")
  /\ ThreadsSame /\ UNCHANGED <<corrected, opened, created, torn, disputed>>

SetRejected(c) ==
  /\ noteCall[c].at = "reject"
  /\ note' = [note EXCEPT ![noteCall[c].note] = "REJECTED"]
  /\ NowAt(c, "rejected")
  /\ ThreadsSame /\ UNCHANGED <<corrected, opened, created, torn, disputed>>

-----------------------------------------------------------------------------
(* Threads.                                                                *)

\* The version exists; threads of a version that does not are answered with 404.
CreateThread(c, t) ==
  /\ noteCall[c].at = "idle" /\ thread[t] = "none"
  /\ thread' = [thread EXCEPT ![t] = "open"]
  /\ NowAt(c, "done")
  /\ NotesSame /\ UNCHANGED <<reply, touched, untouched>>

InsertReply(c, t, p) ==
  /\ noteCall[c].at = "idle" /\ thread[t] # "none" /\ reply[p] = "none"
  /\ reply' = [reply EXCEPT ![p] = t]
  /\ noteCall' = [noteCall EXCEPT ![c] = [Asleep EXCEPT !.at = "touch", !.thread = t, !.reply = p]]
  /\ NotesSame /\ UNCHANGED <<thread, touched, untouched>>

Answers(t) == {p \in Replies : reply[p] = t}

\* updated_at = NOW().
TouchThread(c) ==
  /\ noteCall[c].at = "touch"
  /\ touched' = [touched EXCEPT ![noteCall[c].thread] = Answers(noteCall[c].thread)]
  /\ NowAt(c, "done")
  /\ NotesSame /\ UNCHANGED <<thread, reply, untouched>>

\* PATCH: who and when go with the flag, in one statement.
SetResolved(c, t, to) ==
  /\ noteCall[c].at = "idle" /\ thread[t] # "none"
  /\ thread' = [thread EXCEPT ![t] = to]
  /\ touched' = [touched EXCEPT ![t] = Answers(t)]
  /\ NowAt(c, "done")
  /\ NotesSame /\ UNCHANGED <<reply, untouched>>

\* GET: the threads of the version, then the replies of those.
ListThreads(c) ==
  /\ noteCall[c].at = "idle"
  /\ noteCall' = [noteCall EXCEPT ![c] = [Asleep EXCEPT !.at = "list",
                                            !.shown = {t \in Threads : thread[t] # "none"}]]
  /\ NotesSame /\ ThreadsSame

ListReplies(c) ==
  /\ noteCall[c].at = "list"
  /\ noteCall' = [noteCall EXCEPT ![c].at = "done",
                    ![c].shown = @ \cup UNION {Answers(t) : t \in noteCall[c].shown}]
  /\ NotesSame /\ ThreadsSame

-----------------------------------------------------------------------------
\* The request stops at the step it is at.
NoteCallStops(c) ==
  LET step == noteCall[c].at IN
  /\ step \notin {"idle", "done"}
  /\ NowAt(c, "done")
  /\ torn' = IF step = "settle" THEN [torn EXCEPT ![noteCall[c].note] = @ + 1] ELSE torn
  /\ untouched' = untouched \cup (IF step = "touch" THEN {noteCall[c].thread} ELSE {})
  /\ UNCHANGED <<note, corrected, opened, created, disputed, thread, reply, touched>>

AnnotationsNext == \E c \in NoteCalls :
  \/ \E n \in Notes : RecordOpened(c, n) \/ ReadToAccept(c, n) \/ ReadToReject(c, n)
  \/ CallAnnotationAgent(c) \/ InsertNote(c) \/ RecordOutcome(c)
  \/ RecordVersion(c) \/ InsertCorrection(c) \/ SetAccepted(c) \/ SetRejected(c)
  \/ \E t \in Threads :
       \/ CreateThread(c, t)
       \/ \E p \in Replies : InsertReply(c, t, p)
       \/ \E to \in {"open", "resolved"} : SetResolved(c, t, to)
  \/ TouchThread(c) \/ ListThreads(c) \/ ListReplies(c)
  \/ NoteCallStops(c)

AnnotationsSpec == AnnotationsInit /\ [][AnnotationsNext]_noteVars

-----------------------------------------------------------------------------
AnnotationsTypeOK ==
  /\ note \in [Notes -> {"none", "AGENT_REPLIED", "ACCEPTED", "REJECTED"}]
  /\ thread \in [Threads -> {"none", "open", "resolved"}]
  /\ reply \in [Replies -> Threads \cup {"none"}]

\* What the audit trail does not know has not happened; an annotation that no request is
\* deciding, and that no two ever decided at once, has published one version if it is
\* accepted and none if it is not, but for the acceptances that stopped half way; and
\* a thread nobody is replying to is as new as its last reply.
AnnotationsSound ==
  /\ \A n \in Notes :
       /\ note[n] # "none" => n \in opened
       /\ corrected[n] <= created[n]
       /\ Decider(n) = {} /\ n \notin disputed
            => corrected[n] = torn[n] + (IF note[n] = "ACCEPTED" THEN 1 ELSE 0)
  /\ \A t \in Threads \ untouched :
       (\A c \in NoteCalls : noteCall[c].at = "touch" => noteCall[c].thread # t)
         => touched[t] = Answers(t)
=============================================================================
