------------------------------ MODULE MCAccess ------------------------------
(***************************************************************************)
(* Instances for TLC of the components that let people and workers in,     *)
(* keep fields sealed, and put the system into operation. The components   *)
(* share no state here: `part' says which of them moves in a behaviour, so *)
(* that one run explores each of them and not their product.               *)
(***************************************************************************)
EXTENDS Passkey, LabelClearance, FieldEncryption, Tokens, Provision,
        Release, DemoLauncher, TLC

CONSTANTS c1, c2,            \* ceremonies; requests; servers; launchers
          k1, k2,            \* authenticators; encrypted fields; names of clusters
          s1, s2,            \* server processes
          u1, e1, su,        \* a reader, an entity and a superuser
          i1, i2, i3         \* images

MCWorkerTypes == <<"w1">>

VARIABLE part  \* the component that moves in this behaviour

accessVars == <<part,
    pkVars, labelVars, fieldVars, tokenVars, provisionVars, releaseVars,
    demoVars>>

AccessInit ==
  /\ part \in {"passkeys", "labels", "fields", "tokens", "provision",
            "release", "demo"}
  /\ PasskeyInit
  /\ LabelInit
  /\ FieldInit
  /\ part = "fields" \/ (rows = {} /\ \A i \in Ids, f \in Fields : layers[i][f] = 0)
  /\ TokensInit
  /\ ProvisionInit
  /\ ReleaseInit
  /\ DemoInit

AccessNext ==
  \/ /\ part = "passkeys" /\ PasskeyNext
     /\ UNCHANGED <<part, labelVars, fieldVars, tokenVars, provisionVars, releaseVars,
                    demoVars>>
  \/ /\ part = "labels" /\ LabelNext
     /\ UNCHANGED <<part, pkVars, fieldVars, tokenVars, provisionVars, releaseVars, demoVars>>
  \/ /\ part = "fields" /\ FieldNext
     /\ UNCHANGED <<part, pkVars, labelVars, tokenVars, provisionVars, releaseVars, demoVars>>
  \/ /\ part = "tokens" /\ TokensNext
     /\ UNCHANGED <<part, pkVars, labelVars, fieldVars, provisionVars, releaseVars, demoVars>>
  \/ /\ part = "provision" /\ ProvisionNext
     /\ UNCHANGED <<part, pkVars, labelVars, fieldVars, tokenVars, releaseVars, demoVars>>
  \/ /\ part = "release" /\ ReleaseNext
     /\ UNCHANGED <<part, pkVars, labelVars, fieldVars, tokenVars, provisionVars, demoVars>>
  \/ /\ part = "demo" /\ DemoNext
     /\ UNCHANGED <<part, pkVars, labelVars, fieldVars, tokenVars, provisionVars,
                    releaseVars>>

AccessSpec == AccessInit /\ [][AccessNext]_accessVars

\* Interchangeable model values; no property of the runs is a liveness property.
Symmetry ==
  Permutations({c1, c2}) \cup Permutations({s1, s2}) \cup Permutations({i2, i3})

\* Every variable of the seven keeps to its type.
AccessTypeOK ==
  /\ PasskeyTypeOK /\ LabelTypeOK /\ FieldTypeOK /\ TokensTypeOK
  /\ ProvisionTypeOK /\ ReleaseTypeOK /\ DemoTypeOK

\* Who gets in: an account that failed too often is locked, unless what could let go of the
\* lock happened, and a worker's token is spent once.
CredentialsSound == LockoutAccounted /\ SpentOnce

\* What is sealed stays so: a text reaches only its tenant's readers, and the
\* backfill of a roll-out leaves no field in the clear.
SealedSound == TenantSealed /\ BackfillCovers

\* What is put into operation: no server serves before its migrations and no worker
\* before the server, and a demo is reported as it ended.
OperationSound == GatedOrder /\ DemoSound
=============================================================================
