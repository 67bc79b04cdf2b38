----------------------------- MODULE MCRecords ------------------------------
(***************************************************************************)
(* Instances for TLC of the components that decide on records, keep them   *)
(* and prove what became of them. The components share no state here:      *)
(* `part' says which of them moves in a behaviour, so that one run         *)
(* explores each of them and not their product.                            *)
(***************************************************************************)
EXTENDS Approvals, LegalHold, Lifecycles, AuditChain, Retention, Backup, TLC

CONSTANTS c1, c2,              \* calls of LegalHold, Lifecycles and Retention; backups
          p1, p2, p3,          \* approvers and officers; audited operations
          v1, v2, v3, r1,      \* votes and a request of Approvals; a record of Retention
          h1, e1, e2           \* LegalHold; an operation and a key of Backup

MCRequired == r1 :> 2
\* One policy asks for a day, the other for nothing.
MCFloorOf == [p \in Policies |-> IF p = "day" THEN 1 ELSE 0]

VARIABLE part  \* the component that moves in this behaviour

recordsVars == <<part,
    approvalVars, holdVars, lifeVars, auditVars, retentionVars, backupVars>>

RecordsInit ==
  /\ part \in {"approvals", "holds", "lifecycles", "audit", "retention",
            "backup"}
  /\ ApprovalsInit
  /\ HoldsInit
  /\ LifeInit
  /\ AuditInit
  /\ RetentionInit
  /\ BackupInit
  /\ part = "lifecycles" \/ machine = CHOOSE k \in DOMAIN Maps : TRUE
  /\ part = "backup" \/ master = NoKey

RecordsNext ==
  \/ /\ part = "approvals" /\ ApprovalsNext
     /\ UNCHANGED <<part, holdVars, lifeVars, auditVars, retentionVars, backupVars>>
  \/ /\ part = "holds" /\ HoldsNext
     /\ UNCHANGED <<part, approvalVars, lifeVars, auditVars, retentionVars, backupVars>>
  \/ /\ part = "lifecycles" /\ LifeNext
     /\ UNCHANGED <<part, approvalVars, holdVars, auditVars, retentionVars, backupVars>>
  \/ /\ part = "audit" /\ AuditNext
     /\ UNCHANGED <<part, approvalVars, holdVars, lifeVars, retentionVars, backupVars>>
  \/ /\ part = "retention" /\ RetentionNext
     /\ UNCHANGED <<part, approvalVars, holdVars, lifeVars, auditVars, backupVars>>
  \/ /\ part = "backup" /\ BackupNext
     /\ UNCHANGED <<part, approvalVars, holdVars, lifeVars, auditVars, retentionVars>>

RecordsSpec == RecordsInit /\ [][RecordsNext]_recordsVars

\* Calls and people are interchangeable; no property of the runs is a liveness
\* property.
Symmetry ==
  Permutations({c1, c2}) \cup Permutations({p1, p2, p3})

\* Every variable of the six keeps to its type.
RecordsTypeOK ==
  /\ ApprovalsTypeOK /\ HoldsTypeOK /\ LifeTypeOK /\ AuditTypeOK /\ RetentionTypeOK
  /\ BackupTypeOK

\* What the logs say happened did, in the order they say: the log of a life cycle is its
\* history, and the chain of an audited table, where it is whole, has a link for every
\* operation that was let through.
LogsSound == LogSound /\ AuditSound
=============================================================================
