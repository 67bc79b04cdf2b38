----------------------------- MODULE Autolearn -----------------------------
(***************************************************************************)
(* An autolearn run in its pod: staging and the command-line tool          *)
(*                                                                         *)
(*   apps/worker/src/autolearn-stager.ts, autolearn-cli.ts,                *)
(*   autolearn-job.ts                                                      *)
(*                                                                         *)
(* Several runs share the file system of a worker.  A run makes            *)
(* its staging directory, fetches both inputs in parallel, writes them,    *)
(* and hands the staged wiki to the tool, which is stopped when it takes   *)
(* too long; the child process lives on its own until it is killed.        *)
(***************************************************************************)
EXTENDS Naturals, FiniteSets

CONSTANTS
  Runs       \* runs of the stager and the tool, each of one (dept, customer) pair

VARIABLES
  phase,     \* where each run is
  fetching,  \* the fetches of each run that have not answered
  files,     \* <<run, name>> of the files and directories that exist
  child,     \* the process of each run's tool: none, alive, told to stop, exited
  exit,      \* its exit code: success or not
  outcome    \* what each run returned or threw

autoVars == <<phase, fetching, files, child, exit, outcome>>

Staged == {"dir", "ground-truth.json", "wiki.md"}
Temp   == {"input.md", "output.md"}

AutoInit ==
  /\ phase = [r \in Runs |-> "idle"]
  /\ fetching = [r \in Runs |-> {}]
  /\ files = {}
  /\ child = [r \in Runs |-> "none"]
  /\ exit = [r \in Runs |-> "none"]
  /\ outcome = [r \in Runs |-> "none"]

Move(r, from, to) == phase[r] = from /\ phase' = [phase EXCEPT ![r] = to]

End(r, what) == outcome' = [outcome EXCEPT ![r] = what]

-----------------------------------------------------------------------------
(***************************************************************************)
(* stageAutolearnInput.                                                    *)
(***************************************************************************)
CreateStagingDir(r) ==
  /\ \/ /\ Move(r, "idle", "fetch")
        /\ files' = files \cup {<<r, "dir">>}
        /\ fetching' = [fetching EXCEPT ![r] = {"ground-truth.json", "wiki.md"}]
        /\ UNCHANGED outcome
     \/ Move(r, "idle", "ended") /\ End(r, "StagingWriteError") /\ UNCHANGED <<files, fetching>>
  /\ UNCHANGED <<child, exit>>

\* A fetch answers.
Fetched(r, what) ==
  /\ what \in fetching[r]
  /\ fetching' = [fetching EXCEPT ![r] = @ \ {what}]
  /\ UNCHANGED <<phase, files, child, exit, outcome>>

\* The network, the API's refusal or a body that is not JSON: the other answer is for nobody.
FetchFails(r, what) ==
  /\ what \in fetching[r] /\ Move(r, "fetch", "ended")
  /\ fetching' = [fetching EXCEPT ![r] = @ \ {what}]
  /\ End(r, IF what = "wiki.md" THEN "AutolearnFetchError" ELSE "AutolearnFetchError or AutolearnParseError")
  /\ UNCHANGED <<files, child, exit>>

\* Both files are written, the ground truth first.
WriteStagingFile(r) ==
  /\ fetching[r] = {}
  /\ \/ /\ Move(r, "fetch", "write")
        /\ files' = files \cup {<<r, "ground-truth.json">>}
        /\ UNCHANGED outcome
     \/ /\ Move(r, "write", "staged")
        /\ files' = files \cup {<<r, "wiki.md">>}
        /\ UNCHANGED outcome
     \/ /\ Move(r, "fetch", "ended") \/ Move(r, "write", "ended")
        /\ End(r, "StagingWriteError")
        /\ UNCHANGED files
  /\ UNCHANGED <<fetching, child, exit>>

-----------------------------------------------------------------------------
(***************************************************************************)
(* invokeAutolearnCli: the child is a process of its own.                  *)
(***************************************************************************)
Invoke(r) ==
  /\ \/ /\ Move(r, "staged", "running")
        /\ child' = [child EXCEPT ![r] = "alive"]
        /\ UNCHANGED outcome
     \/ Move(r, "staged", "clean input") /\ End(r, "spawn error") /\ UNCHANGED child
  /\ files' = files \cup {<<r, "input.md">>}
  /\ UNCHANGED <<fetching, exit>>

\* The tool writes its output, whenever it is ready to and is not killed before.
WriteOutput(r) ==
  /\ child[r] \in {"alive", "stopping"}
  /\ files' = files \cup {<<r, "output.md">>}
  /\ UNCHANGED <<phase, fetching, child, exit, outcome>>

\* It ends by itself, by the signal, or is killed when the grace is over.
Exit(r, code) ==
  /\ child[r] \in {"alive", "stopping"}
  /\ child' = [child EXCEPT ![r] = "exited"]
  /\ exit' = [exit EXCEPT ![r] = code]
  /\ UNCHANGED <<phase, fetching, files, outcome>>

\* close: the promise resolves when the timeout has not rejected it.
ClosedWrong(r) ==
  /\ child[r] = "exited" /\ Move(r, "running", "clean input")
  /\ End(r, IF <<r, "output.md">> \in files THEN "result" ELSE "AutolearnCliOutputError")
  /\ UNCHANGED <<fetching, files, child, exit>>

ChildClosed(r) ==
  /\ child[r] = "exited" /\ Move(r, "running", "clean input")
  /\ End(r, CASE exit[r] # "success" -> "AutolearnCliError"
              [] exit[r] = "success" /\ <<r, "output.md">> \notin files -> "AutolearnCliOutputError"
              [] OTHER -> "result")
  /\ UNCHANGED <<fetching, files, child, exit>>

\* SIGTERM, and the caller is told at once.
Timeout(r) ==
  /\ Move(r, "running", "clean input")
  /\ child' = [child EXCEPT ![r] = IF @ = "alive" THEN "stopping" ELSE @]
  /\ End(r, "AutolearnCliTimeoutError")
  /\ UNCHANGED <<fetching, files, exit>>

\* finally: one file, then the other.
Cleanup(r) ==
  /\ \/ Move(r, "clean input", "clean output") /\ files' = files \ {<<r, "input.md">>}
     \/ Move(r, "clean output", "ended") /\ files' = files \ {<<r, "output.md">>}
  /\ UNCHANGED <<fetching, child, exit, outcome>>

\* The orderly end of a run, with the path that staging returned.
CleanupStagingDir(r) ==
  /\ Move(r, "ended", "gone") /\ <<r, "wiki.md">> \in files
  /\ files' = {f \in files : ~(f[1] = r /\ f[2] \in Staged)}
  /\ UNCHANGED <<fetching, child, exit, outcome>>

AutoNext ==
  \E r \in Runs :
    \/ CreateStagingDir(r) \/ WriteStagingFile(r)
    \/ \E what \in Staged : Fetched(r, what) \/ FetchFails(r, what)
    \/ Invoke(r) \/ WriteOutput(r) \/ ChildClosed(r) \/ Timeout(r)
    \/ \E code \in {"success", "failure"} : Exit(r, code)
    \/ Cleanup(r) \/ CleanupStagingDir(r)

AutoSpec == AutoInit /\ [][AutoNext]_autoVars

-----------------------------------------------------------------------------
AutoTypeOK ==
  /\ phase \in [Runs -> {"idle", "fetch", "write", "staged", "running", "clean input",
                         "clean output", "ended", "gone"}]
  /\ \A r \in Runs : fetching[r] \subseteq Staged
  /\ files \subseteq Runs \X (Staged \cup Temp)
  /\ child \in [Runs -> {"none", "alive", "stopping", "exited"}]
  /\ exit \in [Runs -> {"none", "success", "failure"}]

\* A result stands for a tool that ended well, before the deadline, on two staged inputs,
\* with its output read and removed: neither a run cut short, nor one whose tool failed
\* after writing its output, nor one with half an input returns a wiki.
AutolearnSound ==
  \A r \in Runs :
    outcome[r] = "result" =>
      /\ child[r] = "exited" /\ exit[r] = "success" /\ fetching[r] = {}
      /\ phase[r] # "gone" => \A f \in Staged : <<r, f>> \in files
      /\ phase[r] \in {"clean input", "clean output"} => <<r, "output.md">> \in files
      /\ phase[r] \in {"ended", "gone"} => \A f \in Temp : <<r, f>> \notin files
=============================================================================
