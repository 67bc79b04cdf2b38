-------------------------- MODULE FieldEncryption --------------------------
(***************************************************************************)
(* Sensitive fields of entities, and the backfill that encrypts the rows   *)
(* written before the master key was there.                                *)
(*                                                                         *)
(*   packages/db/kms-backfill.ts       packages/core/encryption.ts         *)
(*   packages/core/kms.ts                                                  *)
(*                                                                         *)
(* A field is the number of times it is encrypted: 0 is plaintext, and     *)
(* decryptField takes off one layer.  A replica without the key passes     *)
(* text through, one with the key encrypts; both run during a roll-out,    *)
(* and the backfill runs beside them.                                      *)
(***************************************************************************)
EXTENDS Naturals, SequencesExt, FiniteSetsExt

CONSTANTS
  Ids,        \* ids of the rows of one entity type, 1..n: the order of the cursor
  Fields,     \* its sensitive fields
  BatchSize,  \* rows per SELECT
  MaxFailed,  \* bound: encryptions that fail
  MaxWrites   \* bound: updates of rows by the application

ASSUME FieldAssumption ==
  /\ Ids \subseteq Nat \ {0} /\ IsFiniteSet(Ids)
  /\ BatchSize \in Nat \ {0} /\ {MaxFailed, MaxWrites} \subseteq Nat

VARIABLES
  rows,      \* ids that have a row
  layers,    \* per id and field: how often it is encrypted
  oldOnes,   \* replicas without the master key still run
  writes,    \* bound: updates so far
  backfill,  \* the backfill: cursor, rows of the batch as read, errors
  stained    \* history: a replica without the key has written since it started

fieldVars == <<rows, layers, oldOnes, writes, backfill, stained>>

Plain  == [f \in Fields |-> 0]
Sealed == [f \in Fields |-> 1]
Idle   == [pc |-> "idle", cursor |-> 0, batch |-> <<>>, errors |-> 0]

\* Rows from before the key: none, some or all of the fields are in plaintext.
FieldInit ==
  /\ rows \in SUBSET Ids
  /\ layers \in [Ids -> [Fields -> {0, 1}]]
  /\ oldOnes = TRUE
  /\ writes = 0
  /\ backfill = Idle
  /\ stained = FALSE

-----------------------------------------------------------------------------
(* The application: encryptProperties before every insert and update.      *)

\* encryptProperties: every sensitive field, or none without a key.
EncryptProperties(withKey) == IF withKey THEN Sealed ELSE Plain

Write(r, withKey) ==
  /\ withKey \/ oldOnes
  /\ writes < MaxWrites /\ writes' = writes + 1
  /\ rows' = rows \cup {r}
  /\ layers' = [layers EXCEPT ![r] = EncryptProperties(withKey)]
  /\ stained' = (stained \/ ~withKey)
  /\ UNCHANGED <<oldOnes, backfill>>

RollOutEnds ==
  /\ oldOnes /\ oldOnes' = FALSE
  /\ UNCHANGED <<rows, layers, writes, backfill, stained>>

-----------------------------------------------------------------------------
(* backfillEntities.                                                       *)

\* isEncrypted, needsBackfill.
NeedsBackfill(properties) == \E f \in Fields : properties[f] = 0

EncryptPlaintextFields(properties) ==
  [f \in Fields |-> IF properties[f] = 0 THEN 1 ELSE properties[f]]

StartBackfill ==
  /\ backfill.pc \in {"idle", "done"}
  /\ backfill' = [Idle EXCEPT !.pc = "select"]
  /\ stained' = FALSE
  /\ UNCHANGED <<rows, layers, oldOnes, writes>>

\* The ids behind the cursor, in order.
Behind == {r \in rows : r > backfill.cursor}

\* The smallest BatchSize of them.
NextIds == {r \in Behind : Cardinality({q \in Behind : q <= r}) <= BatchSize}

SelectBatch ==
  /\ backfill.pc = "select"
  /\ IF NextIds = {}
     THEN backfill' = [backfill EXCEPT !.pc = "done"]
     ELSE backfill' = [backfill EXCEPT
            !.pc = "rows", !.cursor = Max(NextIds),
            !.batch = SetToSeq({[id |-> r, properties |-> layers[r]] : r \in NextIds})]
  /\ UNCHANGED <<rows, layers, oldOnes, writes, stained>>

Rest == [backfill EXCEPT !.batch = Tail(@), !.pc = IF Len(backfill.batch) = 1 THEN "select" ELSE @]

SkipRow ==
  /\ backfill.pc = "rows" /\ ~NeedsBackfill(Head(backfill.batch).properties)
  /\ backfill' = Rest
  /\ UNCHANGED <<rows, layers, oldOnes, writes, stained>>

\* The properties that were read are written back, whatever the row holds by now.
UpdateRow ==
  LET row == Head(backfill.batch) IN
  /\ backfill.pc = "rows" /\ NeedsBackfill(row.properties)
  /\ layers' = [layers EXCEPT ![row.id] = EncryptPlaintextFields(row.properties)]
  /\ backfill' = Rest
  /\ UNCHANGED <<rows, oldOnes, writes, stained>>

\* An encryption or the UPDATE throws: the row stays as it is and is counted.
FailRow ==
  /\ backfill.pc = "rows" /\ NeedsBackfill(Head(backfill.batch).properties)
  /\ backfill.errors < MaxFailed
  /\ backfill' = [Rest EXCEPT !.errors = @ + 1]
  /\ UNCHANGED <<rows, layers, oldOnes, writes, stained>>

\* The process is stopped; it is started again from the first id.
StopBackfill ==
  /\ backfill.pc \in {"select", "rows"}
  /\ backfill' = Idle
  /\ UNCHANGED <<rows, layers, oldOnes, writes, stained>>

FieldNext ==
  \/ \E r \in Ids, withKey \in BOOLEAN : Write(r, withKey)
  \/ RollOutEnds
  \/ StartBackfill \/ SelectBatch \/ SkipRow \/ UpdateRow \/ FailRow \/ StopBackfill

FieldSpec == FieldInit /\ [][FieldNext]_fieldVars

-----------------------------------------------------------------------------
FieldTypeOK ==
  /\ rows \subseteq Ids /\ layers \in [Ids -> [Fields -> Nat]]
  /\ backfill.pc \in {"idle", "select", "rows", "done"}
  /\ backfill.cursor \in Ids \cup {0} /\ backfill.errors \in 0..MaxFailed
  /\ {oldOnes, stained} \subseteq BOOLEAN

\* A backfill that ends without an error leaves no plaintext behind, however it was
\* stopped and repeated and whatever the replicas that have the key wrote meanwhile;
\* and no field is ever encrypted twice, which one decryptField could not undo.
BackfillCovers ==
  /\ backfill.pc = "done" /\ backfill.errors = 0 /\ ~stained
       => \A r \in rows : ~NeedsBackfill(layers[r])
  /\ \A r \in rows, f \in Fields : layers[r][f] < 2
=============================================================================
