--------------------------- MODULE LabelClearance ---------------------------
(***************************************************************************)
(* One label name in several tenants: content keys, grants, and the        *)
(* records that are encrypted under the label.                             *)
(*                                                                         *)
(*   packages/db/label-clearance.ts    packages/db/schema.sql              *)
(*   apps/server/src/api/label-clearance.ts                                *)
(*                                                                         *)
(* The server configures no other backend than the local one of core/kms,  *)
(* which derives a content key from its context: the label's name and the  *)
(* tenant.  A ciphertext is the key it was made with and the tenant it was *)
(* written for; AES-GCM opens it under that key and under no other.        *)
(***************************************************************************)

CONSTANTS
  LabelTenants,  \* tenants (or NULL) in which the label's name is used
  Readers,       \* users who are no superusers
  Entities,      \* entities that carry a labelled record
  LabelCalls,    \* requests under way at a time
  Superuser,     \* any superuser: reads without a grant
  NoLabel        \* no tenant, entity or user

ASSUME LabelAssumption ==
  /\ Superuser \notin Readers
  /\ NoLabel \notin LabelTenants \cup Entities

VARIABLES
  label,     \* access_labels by tenant: "none", "keyless" or "keyed"
  grant,     \* user_labels: the tenants in which a user holds the label
  record,    \* labeled_ground_truth by entity: UNIQUE (entity_id, label_name)
  request,   \* per request: where it is and what it has read
  opened     \* history: <<tenant asked for, tenant written for>> of the last plaintext read

labelVars == <<label, grant, record, request, opened>>

NoRequest == [pc |-> "idle", tenant |-> NoLabel, entity |-> NoLabel, user |-> NoLabel,
              label |-> "none", cipher |-> [key |-> NoLabel, of |-> NoLabel]]
NoRecord  == [tenant |-> NoLabel, cipher |-> [key |-> NoLabel, of |-> NoLabel]]

\* As KeyOf below, had the context been the name of the label alone.
KeyOfWrong(t) == Superuser

\* labelEncryptionContext, from which the key is derived.
KeyOf(t) == t

LabelInit ==
  /\ label   = [t \in LabelTenants |-> "none"]
  /\ grant   = [u \in Readers |-> {}]
  /\ record  = [e \in Entities |-> NoRecord]
  /\ request = [c \in LabelCalls |-> NoRequest]
  /\ opened  = <<>>

RequestAt(c, pc) == request[c].pc = pc
Replies(c)       == request' = [request EXCEPT ![c] = NoRequest]

\* createAccessLabel; a second one in the tenant violates the constraint.
CreateAccessLabel(t) ==
  /\ label[t] = "none"
  /\ label' = [label EXCEPT ![t] = "keyless"]
  /\ UNCHANGED <<grant, record, request, opened>>

\* createLabelContentKey: the label must be there; a wrapped key that is there is
\* replaced by one of the same context.
StartContentKey(c, t) ==
  /\ RequestAt(c, "idle") /\ label[t] # "none"
  /\ request' = [request EXCEPT ![c] = [NoRequest EXCEPT !.pc = "key", !.tenant = t]]
  /\ UNCHANGED <<label, grant, record, opened>>

CreateLabelContentKey(c) ==
  /\ RequestAt(c, "key")
  /\ label' = [label EXCEPT ![request[c].tenant] = "keyed"]
  /\ Replies(c)
  /\ UNCHANGED <<grant, record, opened>>

\* grantUserLabel, revokeUserLabel: single statements after a read that only refuses.
GrantUserLabel(u, t) ==
  /\ label[t] # "none"
  /\ grant' = [grant EXCEPT ![u] = @ \cup {t}]
  /\ UNCHANGED <<label, record, request, opened>>

RevokeUserLabel(u, t) ==
  /\ t \in grant[u]
  /\ grant' = [grant EXCEPT ![u] = @ \ {t}]
  /\ UNCHANGED <<label, record, request, opened>>

\* writeLabeledGroundTruth: the label is read, the text encrypted, the row upserted.
StartWrite(c, t, e) ==
  /\ RequestAt(c, "idle") /\ label[t] = "keyed"
  /\ request' = [request EXCEPT ![c] =
       [NoRequest EXCEPT !.pc = "write", !.tenant = t, !.entity = e,
                         !.cipher = [key |-> KeyOf(t), of |-> t]]]
  /\ UNCHANGED <<label, grant, record, opened>>

\* ON CONFLICT (entity_id, label_name): the row keeps the tenant it was inserted with.
WriteRecord(c) ==
  LET q == request[c] IN
  /\ RequestAt(c, "write")
  /\ record' = [record EXCEPT ![q.entity] =
       [tenant |-> IF @ = NoRecord THEN q.tenant ELSE @.tenant, cipher |-> q.cipher]]
  /\ Replies(c)
  /\ UNCHANGED <<label, grant, opened>>

\* readLabeledGroundTruth: the grant, then the row, then the label.
StartRead(c, u, t, e) ==
  /\ RequestAt(c, "idle") /\ t \in grant[u]
  /\ request' = [request EXCEPT ![c] =
       [NoRequest EXCEPT !.pc = "row", !.tenant = t, !.entity = e, !.user = u]]
  /\ UNCHANGED <<label, grant, record, opened>>

ReadRecord(c) ==
  LET q == request[c] IN
  /\ RequestAt(c, "row")
  /\ \/ record[q.entity].tenant # q.tenant /\ Replies(c)
     \/ /\ record[q.entity].tenant = q.tenant
        /\ request' = [request EXCEPT ![c].pc = "open", ![c].cipher = record[q.entity].cipher]
  /\ UNCHANGED <<label, grant, record, opened>>

\* A superuser's read takes the label first and the row second.
StartSuperuserRead(c, t, e) ==
  /\ RequestAt(c, "idle") /\ label[t] # "none"
  /\ request' = [request EXCEPT ![c] =
       [NoRequest EXCEPT !.pc = "super", !.tenant = t, !.entity = e,
                         !.user = Superuser, !.label = label[t]]]
  /\ UNCHANGED <<label, grant, record, opened>>

\* decryptLabeledContent: the text, or an error when the key is another.
Opens(c, state, cipher) ==
  /\ opened' = IF state = "keyed" /\ cipher.key = KeyOf(request[c].tenant)
               THEN <<request[c].tenant, cipher.of>> ELSE opened
  /\ Replies(c)

DecryptForReader(c) ==
  /\ RequestAt(c, "open")
  /\ Opens(c, label[request[c].tenant], request[c].cipher)
  /\ UNCHANGED <<label, grant, record>>

DecryptForSuperuser(c) ==
  LET row == record[request[c].entity] IN
  /\ RequestAt(c, "super")
  /\ IF row.tenant = request[c].tenant THEN Opens(c, request[c].label, row.cipher)
                                       ELSE Replies(c) /\ UNCHANGED opened
  /\ UNCHANGED <<label, grant, record>>

LabelNext ==
  \/ \E t \in LabelTenants : CreateAccessLabel(t)
  \/ \E u \in Readers, t \in LabelTenants : GrantUserLabel(u, t) \/ RevokeUserLabel(u, t)
  \/ \E c \in LabelCalls, t \in LabelTenants, e \in Entities :
       StartWrite(c, t, e) \/ StartSuperuserRead(c, t, e) \/ \E u \in Readers : StartRead(c, u, t, e)
  \/ \E c \in LabelCalls, t \in LabelTenants : StartContentKey(c, t)
  \/ \E c \in LabelCalls :
       \/ CreateLabelContentKey(c) \/ WriteRecord(c) \/ ReadRecord(c)
       \/ DecryptForReader(c) \/ DecryptForSuperuser(c)

LabelSpec == LabelInit /\ [][LabelNext]_labelVars

-----------------------------------------------------------------------------
LabelTypeOK ==
  /\ label \in [LabelTenants -> {"none", "keyless", "keyed"}]
  /\ grant \in [Readers -> SUBSET LabelTenants]
  /\ \A e \in Entities : record[e].tenant \in LabelTenants \cup {NoLabel}
  /\ \A c \in LabelCalls : request[c].pc \in {"idle", "key", "write", "row", "open", "super"}

\* A text reaches only readers of the tenant it was written for: the row of an
\* entity is shared by the tenants that use the label's name and keeps the tenant
\* of its first writer, so a later writer of another tenant puts its text under the
\* first one's name, and nothing but the content key keeps the two apart.
TenantSealed == opened # <<>> => opened[1] = opened[2]
=============================================================================
