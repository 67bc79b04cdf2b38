----------------------------- MODULE Lifecycles -----------------------------
(***************************************************************************)
(* The four state machines a worker moves an item through: recordings      *)
(* (on the edge or the worker path), emails, annotations, autolearn jobs.  *)
(*                                                                         *)
(*   packages/db/transcription-state-machine.ts                            *)
(*   packages/db/email-ingestion-state-machine.ts                          *)
(*   packages/db/annotation-state-machine.ts                               *)
(*   packages/db/autolearn-state-machine.ts                                *)
(*                                                                         *)
(* They have one shape.  A move reads the row, checks the map, writes the  *)
(* row and then, in statements of their own, the log of transitions and    *)
(* the audit chain; nothing locks the row in between, and a caller may     *)
(* stop after any statement: the comments of three of the four say that    *)
(* row and log are written atomically, and no transaction does it.         *)
(***************************************************************************)
EXTENDS Naturals, FiniteSets, Sequences

CONSTANTS
  LifeCalls,   \* callers
  MaxMoves,    \* bound: calls started
  NoState      \* the from_state of a first log row, and a row not yet inserted

ASSUME LifeAssumption == MaxMoves \in Nat

VARIABLES
  machine,     \* which machine the item is of
  row,         \* the item's row: its state
  ledger,      \* the log of transitions, each <<from_state, to_state>>
  chain,       \* the audit events of an annotation, each with the place of the one it is hashed on
  mover,       \* of each caller: the step it is at, the state it read, the one it wants
  started,     \* calls started
  moves,       \* history: the moves written to the row, each <<state read, state written>>
  cuts,        \* history: calls that stopped between the row and its log
  overlapped   \* history: whether a call ever started while another was running

lifeVars == <<machine, row, ledger, chain, mover, started, moves, cuts, overlapped>>

-----------------------------------------------------------------------------
(* The maps of legal transitions. *)

EdgePath ==
  [IDLE |-> {"RECORDING"}, RECORDING |-> {"TRANSCRIBING"},
   TRANSCRIBING |-> {"UPLOADING", "TRANSCRIPTION_FAILED"},
   UPLOADING |-> {"TRANSCRIBED", "UPLOAD_FAILED"}, TRANSCRIBED |-> {"QUEUED"},
   QUEUED |-> {"INDEXED"}, INDEXED |-> {}, TRANSCRIPTION_FAILED |-> {},
   UPLOAD_FAILED |-> {"UPLOADING"}]

WorkerPath ==
  [EdgePath EXCEPT !.RECORDING = {"UPLOADING"},
                   !.UPLOADING = {"TRANSCRIBING", "UPLOAD_FAILED"},
                   !.TRANSCRIBING = {"TRANSCRIBED", "TRANSCRIPTION_FAILED"}]

\* LEGAL_TRANSITIONS of a recording: either path's.
EitherPath == [s \in DOMAIN EdgePath |-> EdgePath[s] \cup WorkerPath[s]]

EmailPath ==
  [IMAP_RECEIVED |-> {"ANONYMISING"}, ANONYMISING |-> {"STORING", "FAILED"},
   STORING |-> {"QUEUED", "FAILED"}, QUEUED |-> {"INDEXED"}, INDEXED |-> {},
   FAILED |-> {"ANONYMISING", "STORING"}]

AnnotationPath ==
  [ANNOTATION_OPEN |-> {"AGENT_RESPONDING"},
   AGENT_RESPONDING |-> {"DISCUSSION", "CORRECTION_APPLIED", "AUTO_RESOLVED"},
   DISCUSSION |-> {"AGENT_RESPONDING", "CORRECTION_APPLIED", "DISMISSED"},
   CORRECTION_APPLIED |-> {"REOPENED"}, DISMISSED |-> {},
   REOPENED |-> {"AGENT_RESPONDING", "DISCUSSION"}, AUTO_RESOLVED |-> {}]

AutolearnPath ==
  [WORKER_STARTED |-> {"FETCHING_GROUND_TRUTH", "FAILED"},
   FETCHING_GROUND_TRUTH |-> {"FETCHING_WIKI", "FAILED"},
   FETCHING_WIKI |-> {"WRITING_TEMP_FILES", "FAILED"},
   WRITING_TEMP_FILES |-> {"CLAUDE_CLI_RUNNING", "FAILED"},
   CLAUDE_CLI_RUNNING |-> {"WRITING_NEW_VERSION", "FAILED"},
   WRITING_NEW_VERSION |-> {"EMBEDDING", "FAILED"},
   EMBEDDING |-> {"AWAITING_REVIEW", "FAILED"},
   AWAITING_REVIEW |-> {"PUBLISHED", "REJECTED", "FAILED"},
   PUBLISHED |-> {"COMPLETE", "FAILED"}, REJECTED |-> {}, COMPLETE |-> {}, FAILED |-> {}]

Maps == [edge |-> EdgePath, worker |-> WorkerPath, email |-> EmailPath,
         annotation |-> AnnotationPath, autolearn |-> AutolearnPath]

First == [edge |-> "IDLE", worker |-> "IDLE", email |-> "IMAP_RECEIVED",
          annotation |-> "ANNOTATION_OPEN", autolearn |-> "WORKER_STARTED"]

\* The states the schemas' CHECK constraints and the modules' enumerations name.
RecordingStates  == {"IDLE", "RECORDING", "TRANSCRIBING", "UPLOADING", "TRANSCRIBED", "QUEUED",
                     "INDEXED", "TRANSCRIPTION_FAILED", "UPLOAD_FAILED"}
AnnotationStates == {"ANNOTATION_OPEN", "AGENT_RESPONDING", "DISCUSSION", "CORRECTION_APPLIED",
                     "DISMISSED", "REOPENED", "AUTO_RESOLVED"}
EmailStates      == {"IMAP_RECEIVED", "ANONYMISING", "STORING", "QUEUED", "INDEXED", "FAILED"}
AutolearnStates  == {"WORKER_STARTED", "FETCHING_GROUND_TRUTH", "FETCHING_WIKI", "WRITING_TEMP_FILES",
                     "CLAUDE_CLI_RUNNING", "WRITING_NEW_VERSION", "EMBEDDING", "AWAITING_REVIEW",
                     "PUBLISHED", "REJECTED", "COMPLETE", "FAILED"}

\* TERMINAL_STATES.
Ended == [edge |-> {"INDEXED", "TRANSCRIPTION_FAILED"}, worker |-> {"INDEXED", "TRANSCRIPTION_FAILED"},
          email |-> {"INDEXED"}, annotation |-> {"DISMISSED", "AUTO_RESOLVED"},
          autolearn |-> {"COMPLETE", "REJECTED", "FAILED"}]

\* A row that is not there has none of the states.
ASSUME NoStateAssumption ==
  NoState \notin RecordingStates \cup EmailStates \cup AnnotationStates \cup AutolearnStates

\* Every caller knows the item's machine by the module it calls.
Of(kinds) == machine \in kinds
Recordings == {"edge", "worker"}

-----------------------------------------------------------------------------
Waiting == [at |-> "idle", from |-> NoState, to |-> NoState]

LifeInit ==
  /\ machine \in DOMAIN Maps
  /\ row = NoState /\ ledger = <<>> /\ chain = <<>> /\ moves = <<>>
  /\ mover = [c \in LifeCalls |-> Waiting]
  /\ started = 0 /\ cuts = 0 /\ overlapped = FALSE

StartMove(c) ==
  /\ mover[c].at = "idle" /\ started < MaxMoves
  /\ started' = started + 1
  /\ overlapped' = (overlapped \/ \E d \in LifeCalls : mover[d].at # "idle")

\* The row is inserted, or the insert refused by the primary key; the first log
\* row is a statement of its own.
Insert(c, after) ==
  /\ StartMove(c)
  /\ row = NoState
  /\ row' = First[machine]
  /\ moves' = Append(moves, <<NoState, First[machine]>>)
  /\ mover' = [mover EXCEPT ![c] = [at |-> after, from |-> NoState, to |-> First[machine]]]
  /\ UNCHANGED <<machine, ledger, chain, cuts>>

InitRecordingState(c)  == Of(Recordings) /\ Insert(c, "log")
InitEmailState(c)      == Of({"email"}) /\ Insert(c, "log")
InitAnnotationState(c) == Of({"annotation"}) /\ Insert(c, "log")
CreateAutolearnJob(c)  == Of({"autolearn"}) /\ Insert(c, "idle")

\* The row is read and the move checked against its state: a caller whose move
\* is not legal is answered an error and has changed nothing.
Check(c, map) ==
  /\ StartMove(c)
  /\ row # NoState
  /\ \E to \in map[row] :
        mover' = [mover EXCEPT ![c] = [at |-> "write", from |-> row, to |-> to]]
  /\ UNCHANGED <<machine, row, ledger, chain, moves, cuts>>

TransitionRecording(c) ==
  Of(Recordings) /\ Check(c, IF machine = "edge" THEN EdgePath ELSE WorkerPath)
TransitionEmail(c)      == Of({"email"}) /\ Check(c, EmailPath)
TransitionAnnotation(c) == Of({"annotation"}) /\ Check(c, AnnotationPath)

AdvanceAutolearn(c) == Of({"autolearn"}) /\ Check(c, AutolearnPath)

MoveOf(c) == <<mover[c].from, mover[c].to>>

\* UPDATE ... WHERE the id: whatever the row has become since.
WriteRow(c) ==
  /\ mover[c].at = "write"
  /\ row' = mover[c].to
  /\ moves' = Append(moves, MoveOf(c))
  /\ mover' = [mover EXCEPT ![c].at = IF Of({"autolearn"}) THEN "idle" ELSE "log"]
  /\ UNCHANGED <<machine, ledger, chain, started, cuts, overlapped>>

Logged(c) == Append(ledger, MoveOf(c))

WriteLog(c) ==
  /\ mover[c].at = "log"
  /\ ledger' = Logged(c)
  /\ mover' = [mover EXCEPT ![c].at = IF Of({"annotation"}) THEN "hash" ELSE "idle"]
  /\ UNCHANGED <<machine, row, chain, started, moves, cuts, overlapped>>

\* emitAuditEvent reads the hash of the last event, then inserts its own.  The
\* place read is kept in "from", which the step before has used up.
ReadLastHash(c) ==
  /\ mover[c].at = "hash"
  /\ mover' = [mover EXCEPT ![c].at = "audit", ![c].from = Len(chain)]
  /\ UNCHANGED <<machine, row, ledger, chain, started, moves, cuts, overlapped>>

WriteAudit(c) ==
  /\ mover[c].at = "audit"
  /\ chain' = Append(chain, mover[c].from)
  /\ mover' = [mover EXCEPT ![c] = Waiting]
  /\ UNCHANGED <<machine, row, ledger, started, moves, cuts, overlapped>>

\* The caller stops, or its statement fails: what it has written stays.
Cut(c) ==
  /\ mover[c].at # "idle"
  /\ mover' = [mover EXCEPT ![c] = Waiting]
  /\ cuts' = cuts + (IF mover[c].at = "log" THEN 1 ELSE 0)
  /\ UNCHANGED <<machine, row, ledger, chain, started, moves, overlapped>>

LifeNext == \E c \in LifeCalls :
  \/ InitRecordingState(c) \/ InitEmailState(c) \/ InitAnnotationState(c) \/ CreateAutolearnJob(c)
  \/ TransitionRecording(c) \/ TransitionEmail(c) \/ TransitionAnnotation(c) \/ AdvanceAutolearn(c)
  \/ WriteRow(c) \/ WriteLog(c) \/ ReadLastHash(c) \/ WriteAudit(c) \/ Cut(c)

LifeSpec == LifeInit /\ [][LifeNext]_lifeVars

-----------------------------------------------------------------------------
LifeTypeOK ==
  /\ machine \in DOMAIN Maps
  /\ row \in {NoState} \cup (CASE machine \in Recordings -> RecordingStates
                             [] machine = "email"      -> EmailStates
                             [] machine = "annotation" -> AnnotationStates
                             [] machine = "autolearn"  -> AutolearnStates)
  /\ started \in 0..MaxMoves /\ cuts \in 0..started

\* A row of the log is a move of the item's own path: never one of the other path,
\* and never out of a state the machine ends in.
LogLegal ==
  \A i \in DOMAIN ledger :
    LET from == ledger[i][1] IN
    /\ from = NoState \/ ledger[i][2] \in Maps[machine][from]
    /\ from \notin Ended[machine]

\* Calls that have written the row and not yet its log.
Untold == {c \in LifeCalls : mover[c].at = "log"}

Times(s, m) == Cardinality({i \in DOMAIN s : s[i] = m})

\* However calls overlap, the log tells moves that were written to the row, each once,
\* and every one of them but those whose call stopped in between, or is there now.
LogAccounts ==
  machine # "autolearn" =>
    /\ \A m \in {ledger[i] : i \in DOMAIN ledger} :
         Times(ledger, m) + Cardinality({c \in Untold : MoveOf(c) = m}) <= Times(moves, m)
    /\ Len(moves) = Len(ledger) + Cardinality(Untold) + cuts

\* The places where the log does not continue: where a row does not start at the
\* state the one before it ended at, and where the last is not the item's state.
Breaks ==
  {i \in 1..Len(ledger) + 1 :
     (IF i = 1 THEN NoState ELSE ledger[i - 1][2])
        # (IF i = Len(ledger) + 1 THEN row ELSE ledger[i][1])}

\* While the calls for an item did not overlap, its log is also in the order of its
\* history, with one break at most per move it lacks, and the audit events of an
\* annotation are hashed on each other in one chain.  Where they did overlap it may
\* branch, or tell two moves in the other order: that is all that can be said.
LogContinues ==
  (machine # "autolearn" /\ ~overlapped) =>
    /\ Cardinality(Breaks) <= cuts + (IF Untold = {} THEN 0 ELSE 1)
    /\ \A i \in DOMAIN chain : chain[i] = i - 1

\* What the log of an item is good for, whoever moved it.
LogSound == LogLegal /\ LogAccounts /\ LogContinues
=============================================================================
