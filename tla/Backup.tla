------------------------------- MODULE Backup -------------------------------
(***************************************************************************)
(* Backups of the two databases, the data keys they are encrypted with,    *)
(* and what can be restored from them.                                     *)
(*                                                                         *)
(*   packages/db/backup.ts          packages/core/kms.ts                   *)
(*   scripts/backup-postgres.sh     scripts/restore-postgres.sh            *)
(*   scripts/rotate-data-keys.ts                                           *)
(*                                                                         *)
(* A dump is the state of its database at one moment.  A data key of the   *)
(* local backend is a function of the master key in the environment; one   *)
(* of AWS or of Vault is fresh, and wrapped by a root key that stays with  *)
(* the service.  The databases hold what matters to a pair of dumps: which *)
(* operations are recorded in the one and have taken effect in the other.  *)
(***************************************************************************)
EXTENDS Naturals, FiniteSets

CONSTANTS
  Jobs,        \* backup processes: each runs once
  Operations,  \* operations that are audited and then take effect
  Masters,     \* values of ENCRYPTION_MASTER_KEY
  NoKey,       \* the variable is not set
  MaxSeconds,  \* bound: the clock
  MaxChanges   \* bound: changes of the environment

ASSUME BackupAssumption ==
  /\ {MaxSeconds, MaxChanges} \subseteq Nat /\ NoKey \notin Masters
  /\ NoKey \notin ({"local"} \X Masters) \cup ({"aws", "vault"} \X Jobs \X {"app", "audit"})

VARIABLES
  recorded,  \* the audit database
  effected,  \* the application database
  master,    \* ENCRYPTION_MASTER_KEY, as a new process finds it
  changes,
  second,
  enc,       \* the .dump.enc files, by backup id
  meta,      \* the .meta.json files, by backup id
  job        \* of each process: its step and what it holds

backupVars == <<recorded, effected, master, changes, second, enc, meta, job>>

Backends == {"local", "aws", "vault"}
Labels   == {"app", "audit"}
Ids      == Labels \X (0..MaxSeconds)
Missing  == [by |-> "nobody"]
Fresh    == [at |-> "idle", backend |-> "local", master |-> NoKey, one |-> FALSE, label |-> "app",
             id |-> <<"app", 0>>, snap |-> {}, key |-> NoKey, done |-> {}]

-----------------------------------------------------------------------------
(* The key service.                                                        *)

\* Deterministic in the master key, whose absence is a failure.
GenerateLocal(j) == IF job[j].master = NoKey THEN {} ELSE {<<"local", job[j].master>>}

\* GenerateDataKey, with credentials and a signed request.
GenerateAws(j) == {<<"aws", j, job[j].label>>}

\* Random bytes, encrypted by the transit key.
GenerateVault(j) == {<<"vault", j, job[j].label>>}

Generates(j) ==
  CASE job[j].backend = "local" -> GenerateLocal(j)
    [] job[j].backend = "aws"   -> GenerateAws(j)
    [] job[j].backend = "vault" -> GenerateVault(j)

\* What a process with a backend and a master key gets from a wrapped key: the local
\* backend derives it anew from the master key.
DecryptLocal(m) == IF m = NoKey THEN {} ELSE {<<"local", m>>}
DecryptAws(wrapped)   == IF wrapped[1] = "aws" THEN {wrapped} ELSE {}
DecryptVault(wrapped) == IF wrapped[1] = "vault" THEN {wrapped} ELSE {}

Unwrap(backend, m, wrapped) ==
  CASE backend = "local" -> DecryptLocal(m)
    [] backend = "aws"   -> DecryptAws(wrapped)
    [] backend = "vault" -> DecryptVault(wrapped)

-----------------------------------------------------------------------------
BackupInit ==
  /\ recorded = {} /\ effected = {} /\ changes = 0 /\ second = 0
  /\ master \in Masters \cup {NoKey}
  /\ enc = [i \in Ids |-> Missing] /\ meta = [i \in Ids |-> Missing]
  /\ job = [j \in Jobs |-> Fresh]

UnchangedFiles == UNCHANGED <<enc, meta>>
UnchangedWorld == UNCHANGED <<recorded, effected, master, changes, second>>

\* The record first, the effect after it.
Record(o) == o \notin recorded /\ recorded' = recorded \cup {o}
  /\ UNCHANGED <<effected, master, changes, second, enc, meta, job>>
TakeEffect(o) == o \in recorded \ effected /\ effected' = effected \cup {o}
  /\ UNCHANGED <<recorded, master, changes, second, enc, meta, job>>

SecondPasses == second < MaxSeconds /\ second' = second + 1
  /\ UNCHANGED <<recorded, effected, master, changes, enc, meta, job>>

\* The master key is replaced in the environment: LocalDevKmsBackend.rotateDataKey
\* would pick it up, and so does every new process.
ReplaceMaster(m) ==
  /\ changes < MaxChanges /\ m # master
  /\ master' = m /\ changes' = changes + 1
  /\ UNCHANGED <<recorded, effected, second, enc, meta, job>>

-----------------------------------------------------------------------------
(* runScheduledBackup, backupDatabase.                                     *)

\* The audit database first.
FirstLabelWrong == "audit"
FirstLabel == "app"

\* loadBackupConfig: the process has its environment and its backend from here on, and
\* knows one database or two: without URLs of its own the audit log is in the first.
StartJob(j, backend, one) ==
  /\ job[j].at = "idle"
  /\ job' = [job EXCEPT ![j] = [Fresh EXCEPT !.at = "name", !.backend = backend, !.master = master,
                                             !.one = one, !.label = FirstLabel]]
  /\ UnchangedWorld /\ UnchangedFiles

\* The id is the label and the second.
NameBackup(j) ==
  /\ job[j].at = "name"
  /\ job' = [job EXCEPT ![j].at = "dump", ![j].id = <<job[j].label, second>>]
  /\ UnchangedWorld /\ UnchangedFiles

RunPgDump(j) ==
  /\ job[j].at = "dump"
  /\ job' = [job EXCEPT ![j].at = "key",
                        ![j].snap = IF job[j].label = "app" THEN effected ELSE recorded]
  /\ UnchangedWorld /\ UnchangedFiles

\* Without a master key in the environment the dump is written as it is, whatever the
\* backend.
ChooseKey(j) ==
  /\ job[j].at = "key"
  /\ \E key \in IF job[j].master = NoKey THEN {NoKey} ELSE Generates(j) :
       job' = [job EXCEPT ![j].at = "enc", ![j].key = key]
  /\ UnchangedWorld /\ UnchangedFiles

WriteArtifact(j) ==
  /\ job[j].at = "enc"
  /\ enc' = [enc EXCEPT ![job[j].id] = [by |-> j, snap |-> job[j].snap, key |-> job[j].key]]
  /\ job' = [job EXCEPT ![j].at = "meta"]
  /\ UnchangedWorld /\ UNCHANGED meta

\* The second database follows the first, if it is another.
WriteSidecar(j) ==
  /\ job[j].at = "meta"
  /\ meta' = [meta EXCEPT ![job[j].id] = [by |-> j, wrapped |-> job[j].key]]
  /\ job' = [job EXCEPT ![j] = [job[j] EXCEPT !.at = IF job[j].one \/ job[j].label # FirstLabel
                                                    THEN "done" ELSE "name",
                                              !.label = CHOOSE l \in Labels : l # FirstLabel,
                                              !.snap = {}, !.key = NoKey,
                                              !.done = job[j].done \cup {job[j].id}]]
  /\ UnchangedWorld /\ UNCHANGED enc

\* pg_dump, the key service or the disk fails, or the process is killed.
JobFails(j) ==
  /\ job[j].at \notin {"idle", "done", "failed"}
  /\ job' = [job EXCEPT ![j].at = "failed", ![j].snap = {}, ![j].key = NoKey]
  /\ UnchangedWorld /\ UnchangedFiles

BackupNext ==
  \/ SecondPasses
  \/ \E o \in Operations : Record(o) \/ TakeEffect(o)
  \/ \E m \in Masters : ReplaceMaster(m)
  \/ \E j \in Jobs :
       \/ \E b \in Backends, one \in BOOLEAN : StartJob(j, b, one)
       \/ NameBackup(j) \/ RunPgDump(j) \/ ChooseKey(j) \/ WriteArtifact(j) \/ WriteSidecar(j)
       \/ JobFails(j)

BackupSpec == BackupInit /\ [][BackupNext]_backupVars

-----------------------------------------------------------------------------
BackupTypeOK ==
  /\ effected \subseteq Operations /\ recorded \subseteq Operations
  /\ second \in 0..MaxSeconds /\ changes \in 0..MaxChanges

\* restoreDatabase, by a process with a backend and the master key of now: what it
\* hands to pg_restore.  The initialisation vector is the writer's.
Restores(i, backend) ==
  IF enc[i] = Missing \/ meta[i] = Missing THEN {}
  ELSE IF meta[i].wrapped = NoKey
       THEN IF enc[i].key = NoKey THEN {enc[i].snap} ELSE {}
       ELSE {enc[i].snap : k \in {x \in Unwrap(backend, master, meta[i].wrapped) :
                                    x = enc[i].key /\ enc[i].by = meta[i].by}}

\* Two jobs that named a backup in the same second.
Replaced(i) == \E j, k \in Jobs : j # k /\ i \in job[j].done /\ (i \in job[k].done \/ job[k].id = i)

\* A backup that its job has finished is restored to the dump of that job by a process
\* with the job's backend, unless another job took the same second or the master key is
\* not the one the job ran with; and of the two dumps of a job, every effect in the one
\* has its record in the other.
BackupSound ==
  /\ \A j \in Jobs : \A i \in job[j].done :
       ~Replaced(i) /\ job[j].master \in {master, NoKey}
         => /\ enc[i].by = j /\ Restores(i, job[j].backend) = {enc[i].snap}
  /\ \A i, k \in Ids :
       enc[i] # Missing /\ enc[k] # Missing /\ enc[i].by = enc[k].by /\ i[1] = "app" /\ k[1] = "audit"
         => enc[i].snap \subseteq enc[k].snap
=============================================================================
