---------------------------- MODULE AccessProofs -----------------------------
(***************************************************************************)
(* Who gets in, what is sealed and what is put into operation, for any     *)
(* accounts, keys, tokens, tenants, rows, fields, resources, images,       *)
(* servers and launchers and any values of the numeric constants: the      *)
(* inductive invariant of each component, what it implies, and that it     *)
(* holds of the component wherever the others run.                         *)
(***************************************************************************)
EXTENDS MCAccess, FiniteSetTheorems, SequenceTheorems, WellFoundedInduction, TLAPS

-----------------------------------------------------------------------------
(* Passkeys, lockout and recovery.                                         *)

Places == {"idle", "registration", "authentication", "recovery", "credential", "begin", "register", "insert",
           "lockout", "fail", "spend registration", "spend authentication", "spend recovery", "attest", "assert",
           "counter", "insert key", "revoke", "reset", "block"}

CeremonyRecord == [kind : Kinds \cup {"none"}, pc : Places, key : Keys \cup {NoKey}, new : Keys \cup {NoKey},
                   mine : Nat, mineReg : Nat, row : Nat, seen : Nat, count : Nat]

LockoutRow == [there : BOOLEAN, count : Nat, delay : BOOLEAN, locked : BOOLEAN]

PasskeyTypes ==
  /\ enrolled \subseteq Keys
  /\ counter \in [Keys -> Nat] /\ signs \in [Keys -> Nat]
  /\ challenge \subseteq [n : Nat, type : Types]
  /\ lockout \in LockoutRow
  /\ phrases \in Nat
  /\ ceremony \in [Ceremonies -> CeremonyRecord]
  /\ used \in [challenges : Nat, recoveries : Nat, removed : Nat, setups : Nat]
  /\ lapse \in {"none", "waited", "cut", "overtaken"}

\* A ceremony is where its kind leads it, and holds the keys of its kind.
Coherent(m) ==
  /\ m.pc \in {"registration", "spend registration", "attest", "insert key"} => m.kind \in {"register", "recover"}
  /\ m.pc \in {"credential", "recovery", "authentication", "spend recovery", "spend authentication", "assert"} =>
       m.kind \in {"login", "recover"}
  /\ m.kind \in {"register", "recover"} => m.new \in Keys
  /\ m.kind \in {"login", "recover"} => m.key \in Keys

\* A lockout that is due is in force or about to be, or one of the lapses let go of it.
LockoutKept ==
  lockout.count >= Threshold /\ lapse = "none" => lockout.locked \/ Locking # {}

PasskeyInv ==
  /\ PasskeyTypes
  /\ \A c \in Ceremonies : Coherent(ceremony[c])
  /\ LockoutKept

-----------------------------------------------------------------------------
\* What a ceremony may become.
Becoming(c) == \E m \in CeremonyRecord : Coherent(m) /\ ceremony' = [ceremony EXCEPT ![c] = m]

\* A step of a ceremony that leaves the lockout alone.
LEMMA CeremonySteps ==
  ASSUME PasskeyInv, NEW c \in Ceremonies, Becoming(c), UNCHANGED <<lockout, lapse>>, c \notin Locking,
         enrolled' \subseteq Keys, counter' \in [Keys -> Nat], signs' \in [Keys -> Nat],
         challenge' \subseteq [n : Nat, type : Types], phrases' \in Nat,
         used' \in [challenges : Nat, recoveries : Nat, removed : Nat, setups : Nat]
  PROVE  PasskeyInv'
<1>1. PICK m \in CeremonyRecord : Coherent(m) /\ ceremony' = [ceremony EXCEPT ![c] = m]
  BY DEF Becoming
<1>2. /\ ceremony' \in [Ceremonies -> CeremonyRecord] /\ ceremony'[c] = m
      /\ \A d \in Ceremonies \ {c} : ceremony'[d] = ceremony[d]
  BY <1>1 DEF PasskeyInv, PasskeyTypes
<1>3. PasskeyTypes'
  BY <1>2 DEF PasskeyInv, PasskeyTypes
<1>4. \A d \in Ceremonies : Coherent(ceremony[d])'
  <2>1. \A d \in Ceremonies : Coherent(ceremony'[d])
    BY <1>1, <1>2 DEF PasskeyInv
  <2> QED BY <2>1 DEF Coherent
<1>5. LockoutKept'
  <2>1. Locking \subseteq Locking'
    BY <1>2 DEF Locking, At
  <2> QED BY <2>1 DEF PasskeyInv, LockoutKept
<1> QED BY <1>3, <1>4, <1>5 DEF PasskeyInv

\* No ceremony.
LEMMA NoCeremonyRecord ==
  /\ NoCeremony \in CeremonyRecord /\ Coherent(NoCeremony)
  /\ \A c \in Ceremonies : Ends(c) => Becoming(c)
<1>1. NoCeremony \in CeremonyRecord /\ Coherent(NoCeremony)
  BY DEF NoCeremony, CeremonyRecord, Coherent, Places
<1> QED BY <1>1 DEF Ends, Becoming

\* A ceremony that goes on, with all that it holds.
LEMMA StepBecomes ==
  ASSUME PasskeyInv, NEW c \in Ceremonies, NEW pc \in Places, Step(c, pc),
         pc \in {"registration", "spend registration", "attest", "insert key"} =>
           ceremony[c].kind \in {"register", "recover"},
         pc \in {"credential", "recovery", "authentication", "spend recovery", "spend authentication", "assert"} =>
           ceremony[c].kind \in {"login", "recover"}
  PROVE  Becoming(c)
<1>1. ceremony[c] \in CeremonyRecord /\ Coherent(ceremony[c])
  BY DEF PasskeyInv, PasskeyTypes
<1>2. PICK m \in CeremonyRecord : m = [ceremony[c] EXCEPT !.pc = pc]
  BY <1>1 DEF CeremonyRecord
<1>3. /\ m.pc = pc /\ m.kind = ceremony[c].kind /\ m.new = ceremony[c].new /\ m.key = ceremony[c].key
  BY <1>1, <1>2 DEF CeremonyRecord
<1>4. Coherent(m)
  BY <1>1, <1>3 DEF Coherent
<1>5. ceremony' = [ceremony EXCEPT ![c] = m]
  BY <1>2 DEF Step
<1> QED BY <1>4, <1>5 DEF Becoming

\* Challenges are handed out one by one.
LEMMA Issues ==
  ASSUME PasskeyTypes, NEW type \in Types, Issue(type), used' = [used EXCEPT !.challenges = @ + 1]
  PROVE  /\ challenge' \subseteq [n : Nat, type : Types]
         /\ used' \in [challenges : Nat, recoveries : Nat, removed : Nat, setups : Nat]
         /\ used.challenges + 1 \in Nat
BY DEF PasskeyTypes, Issue

\* Signatures are counted one by one.
LEMMA Signs ==
  ASSUME PasskeyTypes, NEW k \in Keys, Sign(k)
  PROVE  signs' \in [Keys -> Nat] /\ signs'[k] \in Nat
BY DEF PasskeyTypes, Sign

\* The begin requests.
LEMMA BeginsKeep ==
  ASSUME PasskeyInv, NEW c \in Ceremonies,
         \/ \E k \in Keys : RegisterBegin(c, k) \/ LoginBegin(c, k)
         \/ \E k, new \in Keys : StartRecovery(c, k, new)
         \/ RecoveryBegin(c) \/ RecoveryRegister(c) \/ StartSetup(c) \/ InsertPhrase(c)
  PROVE  PasskeyInv'
<1>0. /\ PasskeyTypes /\ ceremony[c] \in CeremonyRecord /\ Coherent(ceremony[c])
      /\ used \in [challenges : Nat, recoveries : Nat, removed : Nat, setups : Nat]
      /\ enrolled \subseteq Keys /\ counter \in [Keys -> Nat] /\ signs \in [Keys -> Nat] /\ phrases \in Nat
      /\ challenge \subseteq [n : Nat, type : Types]
  BY DEF PasskeyInv, PasskeyTypes
<1>b. c \notin Locking
  BY DEF Locking, At, RegisterBegin, LoginBegin, StartRecovery, RecoveryBegin, RecoveryRegister, StartSetup, InsertPhrase
<1> USE DEF UnchangedKeys, UnchangedLockout
<1>1. ASSUME NEW k \in Keys, RegisterBegin(c, k) PROVE PasskeyInv'
  <2>1. Issue("registration") /\ used' = [used EXCEPT !.challenges = @ + 1]
    BY <1>1 DEF RegisterBegin
  <2>2. /\ challenge' \subseteq [n : Nat, type : Types] /\ used.challenges + 1 \in Nat
        /\ used' \in [challenges : Nat, recoveries : Nat, removed : Nat, setups : Nat]
    BY <1>0, <2>1, Issues DEF Types
  <2>3. PICK m \in CeremonyRecord :
          m = [NoCeremony EXCEPT !.kind = "register", !.pc = "registration", !.new = k, !.mineReg = used.challenges + 1]
    BY <2>2 DEF NoCeremony, CeremonyRecord, Kinds, Places
  <2>4. Coherent(m)
    BY <2>3 DEF Coherent, NoCeremony
  <2>5. Becoming(c)
    BY <1>1, <2>3, <2>4 DEF RegisterBegin, Becoming
  <2> QED BY <1>0, <1>b, <1>1, <2>2, <2>5, CeremonySteps DEF RegisterBegin
<1>2. ASSUME NEW k \in Keys, LoginBegin(c, k) PROVE PasskeyInv'
  <2>1. Issue("authentication") /\ used' = [used EXCEPT !.challenges = @ + 1] /\ Sign(k)
    BY <1>2 DEF LoginBegin
  <2>2. /\ challenge' \subseteq [n : Nat, type : Types] /\ used.challenges + 1 \in Nat
        /\ used' \in [challenges : Nat, recoveries : Nat, removed : Nat, setups : Nat]
        /\ signs' \in [Keys -> Nat] /\ signs'[k] \in Nat
    BY <1>0, <2>1, Issues, Signs DEF Types
  <2>3. PICK m \in CeremonyRecord :
          m = [NoCeremony EXCEPT !.kind = "login", !.pc = "credential", !.key = k,
                                 !.mine = used.challenges + 1, !.count = signs'[k]]
    BY <2>2 DEF NoCeremony, CeremonyRecord, Kinds, Places
  <2>4. Coherent(m)
    BY <2>3 DEF Coherent, NoCeremony
  <2>5. Becoming(c)
    BY <1>2, <2>3, <2>4 DEF LoginBegin, Becoming
  <2> QED BY <1>0, <1>b, <1>2, <2>2, <2>5, CeremonySteps DEF LoginBegin
<1>3. ASSUME NEW k \in Keys, NEW new \in Keys, StartRecovery(c, k, new) PROVE PasskeyInv'
  <2>1. PICK m \in CeremonyRecord : m = [NoCeremony EXCEPT !.kind = "recover", !.pc = "begin", !.key = k, !.new = new]
    BY DEF NoCeremony, CeremonyRecord, Kinds, Places
  <2>2. Coherent(m)
    BY <2>1 DEF Coherent, NoCeremony
  <2>3. Becoming(c)
    BY <1>3, <2>1, <2>2 DEF StartRecovery, Becoming
  <2>4. used' \in [challenges : Nat, recoveries : Nat, removed : Nat, setups : Nat]
    <3>1. used' = [used EXCEPT !.recoveries = used.recoveries + 1]
      BY <1>3 DEF StartRecovery
    <3> QED BY <1>0, <3>1
  <2> QED BY <1>0, <1>b, <1>3, <2>3, <2>4, CeremonySteps DEF StartRecovery
<1>4. CASE RecoveryBegin(c)
  <2>1. /\ Issue("recovery") /\ used' = [used EXCEPT !.challenges = @ + 1] /\ Sign(ceremony[c].key)
        /\ ceremony[c].key \in Keys /\ ceremony[c].new \in Keys /\ ceremony[c].kind = "recover"
    BY <1>0, <1>4 DEF RecoveryBegin, At, Coherent
  <2>2. /\ challenge' \subseteq [n : Nat, type : Types] /\ used.challenges + 1 \in Nat
        /\ used' \in [challenges : Nat, recoveries : Nat, removed : Nat, setups : Nat]
        /\ signs' \in [Keys -> Nat] /\ signs'[ceremony[c].key] \in Nat
    BY <1>0, <2>1, Issues, Signs DEF Types
  <2>3. PICK m \in CeremonyRecord :
          m = [ceremony[c] EXCEPT !.pc = "register", !.mine = used.challenges + 1, !.count = signs'[ceremony[c].key]]
    BY <1>0, <2>2 DEF CeremonyRecord, Places
  <2>4. m.pc = "register" /\ m.kind = "recover" /\ m.new = ceremony[c].new /\ m.key = ceremony[c].key
    BY <1>0, <2>1, <2>3 DEF CeremonyRecord
  <2>5. Coherent(m)
    BY <2>1, <2>4 DEF Coherent
  <2>6. ceremony' = [ceremony EXCEPT ![c] = m]
    BY <1>4, <2>3 DEF RecoveryBegin
  <2>7. Becoming(c)
    BY <2>5, <2>6 DEF Becoming
  <2> QED BY <1>0, <1>b, <1>4, <2>2, <2>7, CeremonySteps DEF RecoveryBegin
<1>5. CASE RecoveryRegister(c)
  <2>1. /\ Issue("registration") /\ used' = [used EXCEPT !.challenges = @ + 1]
        /\ ceremony[c].key \in Keys /\ ceremony[c].new \in Keys /\ ceremony[c].kind = "recover"
    BY <1>0, <1>5 DEF RecoveryRegister, At, Coherent
  <2>2. /\ challenge' \subseteq [n : Nat, type : Types] /\ used.challenges + 1 \in Nat
        /\ used' \in [challenges : Nat, recoveries : Nat, removed : Nat, setups : Nat]
    BY <1>0, <2>1, Issues DEF Types
  <2>3. PICK m \in CeremonyRecord : m = [ceremony[c] EXCEPT !.pc = "credential", !.mineReg = used.challenges + 1]
    BY <1>0, <2>2 DEF CeremonyRecord, Places
  <2>4. m.pc = "credential" /\ m.kind = "recover" /\ m.new = ceremony[c].new /\ m.key = ceremony[c].key
    BY <1>0, <2>1, <2>3 DEF CeremonyRecord
  <2>5. Coherent(m)
    BY <2>1, <2>4 DEF Coherent
  <2>6. ceremony' = [ceremony EXCEPT ![c] = m]
    BY <1>5, <2>3 DEF RecoveryRegister
  <2>7. Becoming(c)
    BY <2>5, <2>6 DEF Becoming
  <2> QED BY <1>0, <1>b, <1>5, <2>2, <2>7, CeremonySteps DEF RecoveryRegister
<1>6. CASE StartSetup(c)
  <2>1. PICK m \in CeremonyRecord : m = [NoCeremony EXCEPT !.kind = "setup", !.pc = "insert"]
    BY DEF NoCeremony, CeremonyRecord, Kinds, Places
  <2>2. Coherent(m)
    BY <2>1 DEF Coherent, NoCeremony
  <2>3. Becoming(c)
    BY <1>6, <2>1, <2>2 DEF StartSetup, Becoming
  <2>4. used' \in [challenges : Nat, recoveries : Nat, removed : Nat, setups : Nat] /\ phrases' \in Nat
    BY <1>0, <1>6 DEF StartSetup
  <2> QED BY <1>0, <1>b, <1>6, <2>3, <2>4, CeremonySteps DEF StartSetup
<1>7. CASE InsertPhrase(c)
  <2>1. Becoming(c) /\ phrases' \in Nat
    BY <1>0, <1>7, NoCeremonyRecord DEF InsertPhrase
  <2> QED BY <1>0, <1>b, <1>7, <2>1, CeremonySteps DEF InsertPhrase
<1> QED BY <1>1, <1>2, <1>3, <1>4, <1>5, <1>6, <1>7

\* The complete requests, up to the lockout.
LEMMA CompletesKeep ==
  ASSUME PasskeyInv, NEW c \in Ceremonies,
         \/ ReadCredential(c) \/ CheckLockout(c) \/ ReadChallenge(c) \/ SpendChallenge(c)
         \/ VerifyAssertion(c) \/ VerifyAttestation(c) \/ InsertKey(c) \/ RevokeOldPasskeys(c)
         \/ UpdateCounter(c)
  PROVE  PasskeyInv'
<1>0. /\ PasskeyTypes /\ ceremony[c] \in CeremonyRecord /\ Coherent(ceremony[c])
      /\ used \in [challenges : Nat, recoveries : Nat, removed : Nat, setups : Nat]
      /\ enrolled \subseteq Keys /\ counter \in [Keys -> Nat] /\ signs \in [Keys -> Nat] /\ phrases \in Nat
      /\ challenge \subseteq [n : Nat, type : Types]
  BY DEF PasskeyInv, PasskeyTypes
<1>b. c \notin Locking
  BY DEF Locking, At, ReadCredential, CheckLockout, ReadChallenge, SpendChallenge, VerifyAssertion, VerifyAttestation, InsertKey,
     RevokeOldPasskeys, UpdateCounter, Types
<1> USE DEF UnchangedKeys, UnchangedLockout
<1>1. CASE ReadCredential(c)
  <2>1. CASE Ends(c)
    BY <1>0, <1>b, <1>1, <2>1, NoCeremonyRecord, CeremonySteps DEF ReadCredential
  <2>2. CASE ~Ends(c)
    <3>1. ceremony[c].key \in Keys /\ ceremony[c].kind \in {"login", "recover"}
      BY <1>0, <1>1, <2>2 DEF ReadCredential, Coherent
    <3>2. counter[ceremony[c].key] \in Nat
      BY <1>0, <3>1
    <3>3. PICK m \in CeremonyRecord :
            m = [ceremony[c] EXCEPT !.seen = counter[ceremony[c].key],
                                    !.pc = IF ceremony[c].kind = "login" THEN "lockout" ELSE "recovery"]
      BY ZenonT(40), <1>0, <3>2 DEF CeremonyRecord, Places
    <3>4. /\ m.pc \in {"lockout", "recovery"} /\ m.kind = ceremony[c].kind
          /\ m.new = ceremony[c].new /\ m.key = ceremony[c].key
      BY <1>0, <3>3 DEF CeremonyRecord
    <3>5. Coherent(m)
      BY <1>0, <3>1, <3>4 DEF Coherent
    <3>6. ceremony' = [ceremony EXCEPT ![c] = m]
      BY <1>1, <2>2, <3>3 DEF ReadCredential
    <3>7. Becoming(c)
      BY <3>5, <3>6 DEF Becoming
    <3> QED BY <1>0, <1>b, <1>1, <3>7, CeremonySteps DEF ReadCredential
  <2> QED BY <2>1, <2>2
<1>2. CASE CheckLockout(c)
  <2>1. Becoming(c)
    BY <1>0, <1>2, NoCeremonyRecord, StepBecomes DEF CheckLockout, At, Places
  <2> QED BY <1>0, <1>b, <1>2, <2>1, CeremonySteps DEF CheckLockout
<1>3. CASE ReadChallenge(c)
  <2>1. CASE Ends(c) \/ (Step(c, "fail") /\ ceremony[c].kind = "login")
    <3>1. Becoming(c)
      BY <2>1, NoCeremonyRecord, StepBecomes DEF Places
    <3> QED BY <1>0, <1>b, <1>3, <3>1, CeremonySteps DEF ReadChallenge
  <2>2. CASE Newest(ceremony[c].pc) # {}
    <3>1. PICK n \in Newest(ceremony[c].pc) :
            ceremony' = [ceremony EXCEPT ![c].row = n,
              ![c].pc = CASE ceremony[c].pc = "registration"   -> "spend registration"
                          [] ceremony[c].pc = "authentication" -> "spend authentication"
                          [] ceremony[c].pc = "recovery"       -> "spend recovery"]
      BY <1>3, <2>2 DEF ReadChallenge
    <3>2. n \in Nat
      BY <1>0 DEF Newest
    <3>3. PICK pc \in {"spend registration", "spend authentication", "spend recovery"} :
            /\ pc = CASE ceremony[c].pc = "registration"   -> "spend registration"
                      [] ceremony[c].pc = "authentication" -> "spend authentication"
                      [] ceremony[c].pc = "recovery"       -> "spend recovery"
            /\ pc = "spend registration" => ceremony[c].pc = "registration"
            /\ pc # "spend registration" => ceremony[c].pc \in {"authentication", "recovery"}
      BY <1>3 DEF ReadChallenge, Types
    <3>4. PICK m \in CeremonyRecord : m = [ceremony[c] EXCEPT !.row = n, !.pc = pc]
      BY <1>0, <3>2, <3>3 DEF CeremonyRecord, Places
    <3>5. /\ m.pc = pc /\ m.kind = ceremony[c].kind /\ m.new = ceremony[c].new /\ m.key = ceremony[c].key
      BY <1>0, <3>4 DEF CeremonyRecord
    <3>6. Coherent(m)
      BY <1>0, <3>3, <3>5 DEF Coherent
    <3>7. ceremony' = [ceremony EXCEPT ![c] = m]
      BY <3>1, <3>3, <3>4
    <3>8. Becoming(c)
      BY <3>6, <3>7 DEF Becoming
    <3> QED BY <1>0, <1>b, <1>3, <3>8, CeremonySteps DEF ReadChallenge
  <2> QED BY <1>3, <2>1, <2>2 DEF ReadChallenge
<1>4. CASE SpendChallenge(c)
  <2>1. PICK pc \in {"attest", "assert"} :
          /\ Step(c, pc)
          /\ pc = "attest" => ceremony[c].pc = "spend registration"
          /\ pc = "assert" => ceremony[c].pc \in {"spend authentication", "spend recovery"}
    BY <1>4 DEF SpendChallenge
  <2>2. Becoming(c)
    BY <1>0, <2>1, StepBecomes DEF Coherent, Places
  <2>3. challenge' \subseteq [n : Nat, type : Types]
    BY <1>0, <1>4 DEF SpendChallenge
  <2> QED BY <1>0, <1>b, <1>4, <2>2, <2>3, CeremonySteps DEF SpendChallenge
<1>5. CASE VerifyAssertion(c)
  <2>1. ceremony[c].pc = "assert" /\ ceremony[c].kind \in {"login", "recover"}
    BY <1>0, <1>5 DEF VerifyAssertion, Coherent
  <2>2. \/ Ends(c)
        \/ ceremony[c].kind = "login" /\ (Step(c, "fail") \/ Step(c, "counter"))
        \/ ceremony[c].kind = "recover" /\ Step(c, "registration")
    BY <1>5, <2>1 DEF VerifyAssertion
  <2>3. Becoming(c)
    BY <2>2, NoCeremonyRecord, StepBecomes DEF Places
  <2> QED BY <1>0, <1>b, <1>5, <2>3, CeremonySteps DEF VerifyAssertion
<1>6. CASE VerifyAttestation(c)
  <2>1. Becoming(c)
    BY <1>0, <1>6, NoCeremonyRecord, StepBecomes DEF VerifyAttestation, Coherent, Places
  <2> QED BY <1>0, <1>b, <1>6, <2>1, CeremonySteps DEF VerifyAttestation
<1>7. CASE InsertKey(c)
  <2>1. Becoming(c)
    BY <1>0, <1>7, NoCeremonyRecord, StepBecomes DEF InsertKey, Coherent, Places
  <2>2. enrolled' \subseteq Keys
    BY <1>0, <1>7 DEF InsertKey, Coherent
  <2> QED BY <1>0, <1>b, <1>7, <2>1, <2>2, CeremonySteps DEF InsertKey
<1>8. CASE RevokeOldPasskeys(c)
  <2>1. Becoming(c)
    BY <1>0, <1>8, StepBecomes DEF RevokeOldPasskeys, Places
  <2>2. enrolled' \subseteq Keys
    BY <1>0, <1>8 DEF RevokeOldPasskeys
  <2> QED BY <1>0, <1>b, <1>8, <2>1, <2>2, CeremonySteps DEF RevokeOldPasskeys
<1>9. CASE UpdateCounter(c)
  <2>1. Becoming(c)
    BY <1>0, <1>9, StepBecomes DEF UpdateCounter, Places
  <2>2. counter' \in [Keys -> Nat]
    <3>1. ceremony[c].count \in Nat
      BY <1>0 DEF CeremonyRecord
    <3> QED BY <1>0, <1>9, <3>1 DEF UpdateCounter
  <2> QED BY <1>0, <1>b, <1>9, <2>1, <2>2, CeremonySteps DEF UpdateCounter
<1> QED BY <1>1, <1>2, <1>3, <1>4, <1>5, <1>6, <1>7, <1>8, <1>9

\* A step of a ceremony that concerns the lockout.
LEMMA LockoutSteps ==
  ASSUME PasskeyInv, NEW c \in Ceremonies, NEW m \in CeremonyRecord, Coherent(m),
         ceremony' = [ceremony EXCEPT ![c] = m], UNCHANGED <<enrolled, counter, signs, challenge, phrases, used>>,
         lockout' \in LockoutRow, lapse' \in {"none", "waited", "cut", "overtaken"}, LockoutKept'
  PROVE  PasskeyInv'
<1>1. /\ ceremony' \in [Ceremonies -> CeremonyRecord] /\ ceremony'[c] = m
      /\ \A d \in Ceremonies \ {c} : ceremony'[d] = ceremony[d]
  BY DEF PasskeyInv, PasskeyTypes
<1>2. PasskeyTypes'
  BY <1>1 DEF PasskeyInv, PasskeyTypes
<1>3. \A d \in Ceremonies : Coherent(ceremony[d])'
  <2>1. \A d \in Ceremonies : Coherent(ceremony'[d])
    BY <1>1 DEF PasskeyInv
  <2> QED BY <2>1 DEF Coherent
<1> QED BY <1>2, <1>3 DEF PasskeyInv

\* Another ceremony that is about to lock the account still is.
LEMMA OthersLock ==
  ASSUME PasskeyTypes, NEW c \in Ceremonies, NEW m, ceremony' = [ceremony EXCEPT ![c] = m]
  PROVE  Locking \ {c} \subseteq Locking'
BY DEF PasskeyTypes, Locking, At

\* resetLockout: nothing is due any more.
LEMMA ResetKeeps ==
  ASSUME PasskeyInv, NEW c \in Ceremonies, ResetLockout(c)
  PROVE  PasskeyInv'
<1>1. PICK l \in LockoutRow : l = [there |-> TRUE, count |-> 0, delay |-> FALSE, locked |-> FALSE]
  BY DEF LockoutRow
<1>2. l.count = 0
  BY <1>1
<1>3. /\ lockout' = l /\ lapse' = "none" /\ ceremony' = [ceremony EXCEPT ![c] = NoCeremony]
      /\ UNCHANGED <<enrolled, counter, signs, challenge, phrases, used>>
  BY <1>1 DEF ResetLockout, Ends, UnchangedKeys
<1>4. LockoutKept'
  BY <1>2, <1>3, PasskeyAssumption DEF LockoutKept
<1> QED BY <1>3, <1>4, NoCeremonyRecord, LockoutSteps

\* The failure that reaches the threshold is about to lock the account.
LEMMA CountKeeps ==
  ASSUME PasskeyInv, NEW c \in Ceremonies, CountFailure(c)
  PROVE  PasskeyInv'
<1>0. /\ PasskeyTypes /\ LockoutKept /\ ceremony[c] \in CeremonyRecord /\ Coherent(ceremony[c])
      /\ lockout \in LockoutRow /\ Threshold \in Nat \ {0} /\ At(c, "login", "fail")
      /\ lapse \in {"none", "waited", "cut", "overtaken"}
  BY PasskeyAssumption DEF PasskeyInv, PasskeyTypes, CountFailure
<1>1. PICK n \in Nat : n = IF lockout.there THEN lockout.count + 1 ELSE 1
  BY <1>0 DEF LockoutRow
<1>2. PICK l \in LockoutRow : l = IF lockout.there THEN [lockout EXCEPT !.count = n]
                                 ELSE [there |-> TRUE, count |-> n, delay |-> TRUE, locked |-> FALSE]
  BY <1>0 DEF LockoutRow
<1>3. l.count = n
  BY <1>0, <1>2 DEF LockoutRow
<1>4. lockout' = l
  <2>1. CASE lockout.there
    BY <1>0, <1>1, <1>2, <2>1 DEF CountFailure
  <2>2. CASE ~lockout.there
    BY <1>0, <1>1, <1>2, <2>2 DEF CountFailure
  <2> QED BY <2>1, <2>2
<1>5. PICK m \in CeremonyRecord : m = [ceremony[c] EXCEPT !.pc = "block", !.seen = n]
  BY <1>0 DEF CeremonyRecord, Places
<1>6. /\ m.pc = "block" /\ m.seen = n /\ m.kind = ceremony[c].kind
      /\ m.new = ceremony[c].new /\ m.key = ceremony[c].key
  BY <1>0, <1>5 DEF CeremonyRecord
<1>7. /\ ceremony' = [ceremony EXCEPT ![c] = m] /\ lapse' = lapse
      /\ UNCHANGED <<enrolled, counter, signs, challenge, phrases, used>>
  BY <1>3, <1>4, <1>5 DEF CountFailure, UnchangedKeys
<1>8. Coherent(m)
  BY <1>0, <1>6 DEF Coherent, At
<1>9. LockoutKept'
  <2> SUFFICES ASSUME n >= Threshold PROVE Locking' # {}
    BY <1>3, <1>4 DEF LockoutKept
  <2>1. ceremony'[c] = m
    BY <1>0, <1>7 DEF PasskeyTypes
  <2>2. c \in Locking'
    BY <1>0, <1>6, <2>1 DEF Locking, At
  <2> QED BY <2>2
<1> QED BY <1>0, <1>4, <1>7, <1>8, <1>9, LockoutSteps

\* The update of a failure locks the account, or, being slower and of fewer, may unlock it.
LEMMA BlockKeeps ==
  ASSUME PasskeyInv, NEW c \in Ceremonies, BlockFailure(c)
  PROVE  PasskeyInv'
<1>0. /\ PasskeyTypes /\ LockoutKept /\ lockout \in LockoutRow /\ Threshold \in Nat
      /\ ceremony[c].seen \in Nat /\ At(c, "login", "block")
      /\ lapse \in {"none", "waited", "cut", "overtaken"}
  BY PasskeyAssumption DEF PasskeyInv, PasskeyTypes, BlockFailure, CeremonyRecord
<1>1. PICK l \in LockoutRow :
        l = [lockout EXCEPT !.delay = ceremony[c].seen < Threshold, !.locked = ceremony[c].seen >= Threshold]
  <2>1. (ceremony[c].seen < Threshold) \in BOOLEAN /\ (ceremony[c].seen >= Threshold) \in BOOLEAN
    OBVIOUS
  <2> QED BY <1>0, <2>1, Zenon DEF LockoutRow
<1>2. l.count = lockout.count /\ l.locked = (ceremony[c].seen >= Threshold)
  BY <1>0, <1>1 DEF LockoutRow
<1>3. /\ lockout' = l /\ ceremony' = [ceremony EXCEPT ![c] = NoCeremony]
      /\ UNCHANGED <<enrolled, counter, signs, challenge, phrases, used>>
      /\ lapse' = IF c \in Locking THEN "none"
                  ELSE IF lockout.locked /\ lockout.count >= Threshold THEN "overtaken" ELSE lapse
  BY <1>1 DEF BlockFailure, Ends, UnchangedKeys
<1>4. LockoutKept'
  <2>1. CASE ceremony[c].seen >= Threshold
    BY <1>2, <1>3, <2>1 DEF LockoutKept
  <2>2. CASE ~(ceremony[c].seen >= Threshold)
    <3>1. c \notin Locking
      BY <2>2 DEF Locking
    <3>2. Locking \subseteq Locking'
      BY <1>0, <1>3, <3>1, OthersLock
    <3> QED BY <1>0, <1>2, <1>3, <3>1, <3>2 DEF LockoutKept
  <2> QED BY <2>1, <2>2
<1>5. lapse' \in {"none", "waited", "cut", "overtaken"}
  BY <1>0, <1>3
<1> QED BY <1>3, <1>4, <1>5, NoCeremonyRecord, LockoutSteps

\* A ceremony that is lost with its server.
LEMMA LossKeeps ==
  ASSUME PasskeyInv, NEW c \in Ceremonies, LoseCeremony(c)
  PROVE  PasskeyInv'
<1>0. /\ PasskeyTypes /\ LockoutKept /\ lockout \in LockoutRow
      /\ lapse \in {"none", "waited", "cut", "overtaken"}
  BY DEF PasskeyInv, PasskeyTypes
<1>1. /\ lockout' = lockout /\ ceremony' = [ceremony EXCEPT ![c] = NoCeremony]
      /\ UNCHANGED <<enrolled, counter, signs, challenge, phrases, used>>
      /\ lapse' = IF c \in Locking /\ ~lockout.locked THEN "cut" ELSE lapse
  BY DEF LoseCeremony, Ends, UnchangedKeys
<1>2. Locking \ {c} \subseteq Locking'
  BY <1>0, <1>1, OthersLock
<1>3. LockoutKept'
  BY <1>0, <1>1, <1>2 DEF LockoutKept
<1>4. lapse' \in {"none", "waited", "cut", "overtaken"}
  BY <1>0, <1>1
<1> QED BY <1>0, <1>1, <1>3, <1>4, NoCeremonyRecord, LockoutSteps

\* The user, the clock and the limiter.
LEMMA UserKeeps ==
  ASSUME PasskeyInv, (\E k \in Keys : RemoveKey(k)) \/ WaitEnds \/ \E x \in challenge : Expire(x)
  PROVE  PasskeyInv'
<1>0. /\ PasskeyTypes /\ (\A c \in Ceremonies : Coherent(ceremony[c])) /\ LockoutKept
      /\ used \in [challenges : Nat, recoveries : Nat, removed : Nat, setups : Nat]
      /\ lockout \in LockoutRow
  BY DEF PasskeyInv, PasskeyTypes
<1>1. ceremony' = ceremony /\ Locking' = Locking
  BY DEF RemoveKey, WaitEnds, Expire, Locking, At
<1>2. \A c \in Ceremonies : Coherent(ceremony[c])'
  BY <1>0, <1>1 DEF Coherent
<1>3. CASE \E k \in Keys : RemoveKey(k)
  <2>1. used' = [used EXCEPT !.removed = used.removed + 1] /\ UNCHANGED <<lockout, lapse, counter, signs, challenge, phrases>>
        /\ enrolled' \subseteq enrolled
    BY <1>3 DEF RemoveKey, UnchangedLockout
  <2>2. used' \in [challenges : Nat, recoveries : Nat, removed : Nat, setups : Nat]
    BY <1>0, <2>1
  <2> QED BY <1>0, <1>1, <1>2, <2>1, <2>2 DEF PasskeyInv, PasskeyTypes, LockoutKept
<1>4. CASE WaitEnds
  <2>1. lockout' = [lockout EXCEPT !.delay = FALSE, !.locked = FALSE] /\ lapse' = "waited"
        /\ UNCHANGED <<enrolled, counter, signs, challenge, phrases, used>>
    BY <1>4 DEF WaitEnds, UnchangedKeys
  <2>2. lockout' \in LockoutRow
    BY <1>0, <2>1 DEF LockoutRow
  <2> QED BY <1>0, <1>1, <1>2, <2>1, <2>2 DEF PasskeyInv, PasskeyTypes, LockoutKept
<1>5. CASE \E x \in challenge : Expire(x)
  <2>1. challenge' \subseteq challenge /\ UNCHANGED <<enrolled, counter, signs, phrases, used, lockout, lapse>>
    BY <1>5 DEF Expire, UnchangedKeys, UnchangedLockout
  <2> QED BY <1>0, <1>1, <1>2, <2>1 DEF PasskeyInv, PasskeyTypes, LockoutKept
<1> QED BY <1>3, <1>4, <1>5

-----------------------------------------------------------------------------
\* The inductive invariant: the types, what a ceremony holds at each place, and that a lockout
\* that is due is in force, or about to be, or let go of by a lapse.
THEOREM PasskeyInductive == PasskeySpec => []PasskeyInv
<1>1. PasskeyInit => PasskeyInv
  <2> SUFFICES ASSUME PasskeyInit PROVE PasskeyInv
    OBVIOUS
  <2>1. PasskeyTypes
    BY NoCeremonyRecord, PasskeyAssumption DEF PasskeyInit, PasskeyTypes, LockoutRow
  <2>2. \A c \in Ceremonies : Coherent(ceremony[c])
    BY NoCeremonyRecord DEF PasskeyInit
  <2>3. LockoutKept
    BY PasskeyAssumption DEF PasskeyInit, LockoutKept
  <2> QED BY <2>1, <2>2, <2>3 DEF PasskeyInv
<1>2. PasskeyInv /\ [PasskeyNext]_pkVars => PasskeyInv'
  <2> SUFFICES ASSUME PasskeyInv, [PasskeyNext]_pkVars PROVE PasskeyInv'
    OBVIOUS
  <2>1. CASE UNCHANGED pkVars
    BY <2>1 DEF pkVars, PasskeyInv, PasskeyTypes, Coherent, LockoutKept, Locking, At
  <2>2. ASSUME NEW c \in Ceremonies,
               \/ \E k \in Keys : RegisterBegin(c, k) \/ LoginBegin(c, k)
               \/ \E k, new \in Keys : StartRecovery(c, k, new)
               \/ RecoveryBegin(c) \/ RecoveryRegister(c) \/ StartSetup(c) \/ InsertPhrase(c)
        PROVE  PasskeyInv'
    BY <2>2, BeginsKeep
  <2>3. ASSUME NEW c \in Ceremonies,
               \/ ReadCredential(c) \/ CheckLockout(c) \/ ReadChallenge(c) \/ SpendChallenge(c)
               \/ VerifyAssertion(c) \/ VerifyAttestation(c) \/ InsertKey(c) \/ RevokeOldPasskeys(c)
               \/ UpdateCounter(c)
        PROVE  PasskeyInv'
    BY <2>3, CompletesKeep
  <2>4. ASSUME NEW c \in Ceremonies, ResetLockout(c) \/ CountFailure(c) \/ BlockFailure(c) \/ LoseCeremony(c)
        PROVE  PasskeyInv'
    BY <2>4, ResetKeeps, CountKeeps, BlockKeeps, LossKeeps
  <2>5. CASE (\E k \in Keys : RemoveKey(k)) \/ WaitEnds \/ \E x \in challenge : Expire(x)
    BY <2>5, UserKeeps
  <2> QED BY <2>1, <2>2, <2>3, <2>4, <2>5 DEF PasskeyNext
<1> QED BY <1>1, <1>2, PTL DEF PasskeySpec

\* LockoutAccounted: an account whose failures have reached the threshold is locked once their
\* updates have run, unless a wait has run out, a failure was cut in half or a slower one came last.
THEOREM PasskeyCorrect == PasskeySpec => [](PasskeyTypeOK /\ LockoutAccounted)
<1>1. PasskeyInv => PasskeyTypeOK /\ LockoutAccounted
  <2>1. PasskeyTypes => PasskeyTypeOK
    BY DEF PasskeyTypes, PasskeyTypeOK, CeremonyRecord, LockoutRow
  <2>2. LockoutKept => LockoutAccounted
    BY DEF LockoutKept, LockoutAccounted, LockoutDue
  <2> QED BY <2>1, <2>2 DEF PasskeyInv
<1> QED BY <1>1, PasskeyInductive, PTL

-----------------------------------------------------------------------------
(* Label clearance.                                                        *)

AnyTenant == LabelTenants \cup {NoLabel}

\* A ciphertext is made with the key of the tenant it is written for.
OwnCiphers == {x \in [key : AnyTenant, of : AnyTenant] : x.key = x.of}

\* A request that is at a row knows which.
LabelRequests ==
  {q \in [pc : {"idle", "key", "write", "row", "open", "super"}, tenant : AnyTenant,
          entity : Entities \cup {NoLabel}, user : Readers \cup {Superuser, NoLabel},
          label : {"none", "keyless", "keyed"}, cipher : OwnCiphers] :
     q.pc \in {"write", "row", "super"} => q.entity \in Entities}

LabelRecords == [tenant : AnyTenant, cipher : OwnCiphers]

LabelInv ==
  /\ label \in [LabelTenants -> {"none", "keyless", "keyed"}]
  /\ grant \in [Readers -> SUBSET LabelTenants]
  /\ record \in [Entities -> LabelRecords]
  /\ request \in [LabelCalls -> LabelRequests]
  /\ TenantSealed

\* A request at rest and a row that is not there.
LEMMA NothingYet == NoRequest \in LabelRequests /\ NoRecord \in LabelRecords
<1>1. PICK x : x = [key |-> NoLabel, of |-> NoLabel]
  OBVIOUS
<1>2. x \in OwnCiphers
  BY <1>1 DEF OwnCiphers, AnyTenant
<1> QED BY <1>1, <1>2 DEF NoRequest, NoRecord, LabelRequests, LabelRecords, AnyTenant

\* A request that is answered.
LEMMA RepliesKeep ==
  ASSUME LabelInv, NEW c \in LabelCalls, Replies(c)
  PROVE  request' \in [LabelCalls -> LabelRequests]
BY NothingYet DEF LabelInv, Replies

\* The statements of the administration.
LEMMA LabelsMove ==
  ASSUME LabelInv,
         \/ \E t \in LabelTenants : CreateAccessLabel(t)
         \/ \E u \in Readers, t \in LabelTenants : GrantUserLabel(u, t) \/ RevokeUserLabel(u, t)
  PROVE  LabelInv'
<1>1. UNCHANGED <<record, request, opened>>
  BY DEF CreateAccessLabel, GrantUserLabel, RevokeUserLabel
<1>2. label' \in [LabelTenants -> {"none", "keyless", "keyed"}]
  BY DEF LabelInv, CreateAccessLabel, GrantUserLabel, RevokeUserLabel
<1>3. grant' \in [Readers -> SUBSET LabelTenants]
  BY DEF LabelInv, CreateAccessLabel, GrantUserLabel, RevokeUserLabel
<1> QED BY <1>1, <1>2, <1>3 DEF LabelInv, TenantSealed

\* A request starts: what it writes is made with its own tenant's key.
LEMMA LabelStarts ==
  ASSUME LabelInv, NEW c \in LabelCalls, NEW t \in LabelTenants,
         \/ StartContentKey(c, t)
         \/ \E e \in Entities : StartWrite(c, t, e) \/ StartSuperuserRead(c, t, e)
                                \/ \E u \in Readers : StartRead(c, u, t, e)
  PROVE  LabelInv'
<1>1. UNCHANGED <<label, grant, record, opened>>
  BY DEF StartContentKey, StartWrite, StartSuperuserRead, StartRead
<1>2. ASSUME NEW m \in LabelRequests, request' = [request EXCEPT ![c] = m] PROVE LabelInv'
  <2>1. request' \in [LabelCalls -> LabelRequests]
    BY <1>2 DEF LabelInv
  <2> QED BY <1>1, <2>1 DEF LabelInv, TenantSealed
<1>3. t \in AnyTenant /\ label[t] \in {"none", "keyless", "keyed"}
  BY DEF AnyTenant, LabelInv
<1>4. CASE StartContentKey(c, t)
  <2>1. PICK m \in LabelRequests : m = [NoRequest EXCEPT !.pc = "key", !.tenant = t]
    BY <1>3, NothingYet DEF LabelRequests, NoRequest
  <2> QED BY <1>2, <1>4, <2>1 DEF StartContentKey
<1>5. ASSUME NEW e \in Entities, StartWrite(c, t, e) PROVE LabelInv'
  <2>1. PICK x : x = [key |-> KeyOf(t), of |-> t]
    OBVIOUS
  <2>2. x \in OwnCiphers
    BY <1>3, <2>1 DEF OwnCiphers, KeyOf
  <2>3. PICK m \in LabelRequests : m = [NoRequest EXCEPT !.pc = "write", !.tenant = t, !.entity = e, !.cipher = x]
    BY <1>3, <2>2, NothingYet DEF LabelRequests, NoRequest
  <2> QED BY <1>2, <1>5, <2>1, <2>3 DEF StartWrite
<1>6. ASSUME NEW e \in Entities, StartSuperuserRead(c, t, e) PROVE LabelInv'
  <2>1. PICK m \in LabelRequests : m = [NoRequest EXCEPT !.pc = "super", !.tenant = t, !.entity = e,
                                                         !.user = Superuser, !.label = label[t]]
    BY <1>3, NothingYet DEF LabelRequests, NoRequest
  <2> QED BY <1>2, <1>6, <2>1 DEF StartSuperuserRead
<1>7. ASSUME NEW e \in Entities, NEW u \in Readers, StartRead(c, u, t, e) PROVE LabelInv'
  <2>1. PICK m \in LabelRequests : m = [NoRequest EXCEPT !.pc = "row", !.tenant = t, !.entity = e, !.user = u]
    BY <1>3, NothingYet DEF LabelRequests, NoRequest
  <2> QED BY <1>2, <1>7, <2>1 DEF StartRead
<1> QED BY <1>4, <1>5, <1>6, <1>7

\* The row keeps its first tenant, and takes the ciphertext of the last writer whole.
LEMMA WriteKeeps ==
  ASSUME LabelInv, NEW c \in LabelCalls, WriteRecord(c)
  PROVE  LabelInv'
<1>1. /\ UNCHANGED <<label, grant, opened>> /\ request[c] \in LabelRequests
      /\ record \in [Entities -> LabelRecords]
  BY DEF LabelInv, WriteRecord
<1>2. record' \in [Entities -> LabelRecords]
  <2>1. request[c].entity \in Entities
    BY <1>1 DEF LabelRequests, WriteRecord, RequestAt
  <2>2. PICK t : t = IF record[request[c].entity] = NoRecord THEN request[c].tenant
                                                             ELSE record[request[c].entity].tenant
    OBVIOUS
  <2>3. t \in AnyTenant
    BY <1>1, <2>1, <2>2 DEF LabelRequests, LabelRecords
  <2>4. PICK m \in LabelRecords : m = [tenant |-> t, cipher |-> request[c].cipher]
    BY <1>1, <2>3 DEF LabelRequests, LabelRecords
  <2>5. record' = [record EXCEPT ![request[c].entity] = m]
    BY <1>1, <2>1, <2>2, <2>4 DEF WriteRecord
  <2> QED BY <1>1, <2>1, <2>5
<1>3. request' \in [LabelCalls -> LabelRequests]
  BY RepliesKeep DEF WriteRecord
<1> QED BY <1>1, <1>2, <1>3 DEF LabelInv, TenantSealed

\* A reader's request takes the row's ciphertext with it.
LEMMA ReadKeeps ==
  ASSUME LabelInv, NEW c \in LabelCalls, ReadRecord(c)
  PROVE  LabelInv'
<1>1. /\ UNCHANGED <<label, grant, record, opened>> /\ request[c] \in LabelRequests
      /\ record \in [Entities -> LabelRecords] /\ request \in [LabelCalls -> LabelRequests]
  BY DEF LabelInv, ReadRecord
<1>2. request' \in [LabelCalls -> LabelRequests]
  <2>1. CASE Replies(c)
    BY <2>1, RepliesKeep
  <2>2. CASE /\ record[request[c].entity].tenant = request[c].tenant
             /\ request' = [request EXCEPT ![c].pc = "open", ![c].cipher = record[request[c].entity].cipher]
    <3>1. request[c].entity \in Entities
      BY <1>1 DEF LabelRequests, ReadRecord, RequestAt
    <3>2. PICK m \in LabelRequests : m = [request[c] EXCEPT !.pc = "open", !.cipher = record[request[c].entity].cipher]
      BY <1>1, <3>1 DEF LabelRequests, LabelRecords
    <3>3. request' = [request EXCEPT ![c] = m]
      BY <1>1, <2>2, <3>2
    <3> QED BY <1>1, <3>3
  <2> QED BY <2>1, <2>2 DEF ReadRecord
<1> QED BY <1>1, <1>2 DEF LabelInv, TenantSealed

\* A text is opened by a key that is its tenant's: both are the tenant that asked.
LEMMA OpensKeeps ==
  ASSUME LabelInv, NEW c \in LabelCalls, DecryptForReader(c) \/ DecryptForSuperuser(c)
  PROVE  LabelInv'
<1>1. /\ UNCHANGED <<label, grant, record>> /\ request[c] \in LabelRequests
      /\ record \in [Entities -> LabelRecords] /\ TenantSealed
  BY DEF LabelInv, DecryptForReader, DecryptForSuperuser
<1>2. request' \in [LabelCalls -> LabelRequests]
  BY RepliesKeep DEF DecryptForReader, DecryptForSuperuser, Opens
<1>3. ASSUME NEW state, NEW x \in OwnCiphers, Opens(c, state, x) PROVE TenantSealed'
  BY <1>1, <1>3 DEF Opens, KeyOf, OwnCiphers, TenantSealed
<1>4. TenantSealed'
  <2>1. CASE DecryptForReader(c)
    <3>1. request[c].cipher \in OwnCiphers
      BY <1>1 DEF LabelRequests
    <3> QED BY <1>3, <2>1, <3>1 DEF DecryptForReader
  <2>2. CASE DecryptForSuperuser(c)
    <3>1. request[c].entity \in Entities
      BY <1>1, <2>2 DEF LabelRequests, DecryptForSuperuser, RequestAt
    <3>2. record[request[c].entity].cipher \in OwnCiphers
      BY <1>1, <3>1 DEF LabelRecords
    <3>3. CASE Opens(c, request[c].label, record[request[c].entity].cipher)
      BY <1>3, <3>2, <3>3
    <3>4. CASE UNCHANGED opened
      BY <1>1, <3>4 DEF TenantSealed
    <3> QED BY <2>2, <3>3, <3>4 DEF DecryptForSuperuser
  <2> QED BY <2>1, <2>2
<1> QED BY <1>1, <1>2, <1>4 DEF LabelInv

\* A content key is wrapped for the label.
LEMMA KeyKeeps ==
  ASSUME LabelInv, NEW c \in LabelCalls, CreateLabelContentKey(c)
  PROVE  LabelInv'
<1>1. request' \in [LabelCalls -> LabelRequests]
  BY RepliesKeep DEF CreateLabelContentKey
<1>2. label' \in [LabelTenants -> {"none", "keyless", "keyed"}] /\ UNCHANGED <<grant, record, opened>>
  BY DEF LabelInv, CreateLabelContentKey
<1> QED BY <1>1, <1>2 DEF LabelInv, TenantSealed

-----------------------------------------------------------------------------
\* The invariant holds at the start and in every step.
THEOREM LabelInductive ==
  /\ LabelInit => LabelInv
  /\ LabelInv /\ [LabelNext]_labelVars => LabelInv'
<1>1. LabelInit => LabelInv
  BY NothingYet DEF LabelInit, LabelInv, TenantSealed
<1>2. ASSUME LabelInv, LabelNext PROVE LabelInv'
  <2>1. CASE \/ \E t \in LabelTenants : CreateAccessLabel(t)
             \/ \E u \in Readers, t \in LabelTenants : GrantUserLabel(u, t) \/ RevokeUserLabel(u, t)
    BY <1>2, <2>1, LabelsMove
  <2>2. CASE \/ \E c \in LabelCalls, t \in LabelTenants, e \in Entities :
                  StartWrite(c, t, e) \/ StartSuperuserRead(c, t, e) \/ \E u \in Readers : StartRead(c, u, t, e)
             \/ \E c \in LabelCalls, t \in LabelTenants : StartContentKey(c, t)
    BY <1>2, <2>2, LabelStarts
  <2>3. CASE \E c \in LabelCalls :
               \/ CreateLabelContentKey(c) \/ WriteRecord(c) \/ ReadRecord(c)
               \/ DecryptForReader(c) \/ DecryptForSuperuser(c)
    BY <1>2, <2>3, KeyKeeps, WriteKeeps, ReadKeeps, OpensKeeps
  <2> QED BY <1>2, <2>1, <2>2, <2>3 DEF LabelNext
<1>3. ASSUME LabelInv, UNCHANGED labelVars PROVE LabelInv'
  BY <1>3 DEF LabelInv, labelVars, TenantSealed
<1> QED BY <1>1, <1>2, <1>3

\* A text is opened for the tenant it was written for (TenantSealed), and labels,
\* grants, rows and requests are well formed (LabelTypeOK).
THEOREM LabelCorrect == LabelSpec => [](LabelTypeOK /\ TenantSealed)
<1>1. LabelInv => LabelTypeOK /\ TenantSealed
  BY DEF LabelInv, LabelTypeOK, LabelRecords, LabelRequests, AnyTenant
<1> QED BY <1>1, LabelInductive, PTL DEF LabelSpec

-----------------------------------------------------------------------------
(* Field encryption and its backfill.                                      *)

\* The fields of a row: each in plaintext or encrypted once.
Layers == [Fields -> {0, 1}]

BatchRow == [id : Ids, properties : Layers]

BackfillRecord == [pc : {"idle", "select", "rows", "done"}, cursor : Ids \cup {0}, batch : Seq(BatchRow),
                   errors : 0..MaxFailed]

FieldTypes ==
  /\ rows \subseteq Ids /\ layers \in [Ids -> Layers] /\ oldOnes \in BOOLEAN /\ stained \in BOOLEAN
  /\ writes \in Nat /\ backfill \in BackfillRecord
  /\ backfill.pc = "rows" <=> backfill.batch # <<>>

InBatch(r) == \E i \in DOMAIN backfill.batch : backfill.batch[i].id = r

\* While nothing went wrong, a row in plaintext is ahead of the cursor or in the batch.
Covered ==
  ~stained /\ backfill.errors = 0 /\ backfill.pc # "idle" =>
    \A r \in rows : NeedsBackfill(layers[r]) => backfill.pc # "done" /\ (r > backfill.cursor \/ InBatch(r))

\* A row of the batch that is in plaintext by now was when it was read.
Fresh ==
  ~stained => \A i \in DOMAIN backfill.batch :
    NeedsBackfill(layers[backfill.batch[i].id]) => NeedsBackfill(backfill.batch[i].properties)

FieldInv == FieldTypes /\ Covered /\ Fresh

-----------------------------------------------------------------------------
\* A set of numbers has a least one.
LEMMA LeastIs ==
  ASSUME NEW I \in SUBSET Nat, I # {}
  PROVE  \E x \in I : \A y \in I : x <= y
<1>1. PICK R : R = OpToRel(<, Nat)
  OBVIOUS
<1>2. IsWellFoundedOn(R, Nat)
  BY <1>1, NatLessThanWellFounded
<1>3. PICK x \in I : \A y \in I : <<y, x>> \notin R
  BY <1>2, WFMin
<1>4. \A y \in Nat, z \in Nat : y < z => <<y, z>> \in R
  BY <1>1 DEF OpToRel
<1>5. \A y \in I : ~(y < x)
  BY <1>3, <1>4
<1>6. \A y \in I : x <= y
  BY <1>5
<1> QED BY <1>6

\* A finite set of numbers has a greatest one: were there sets without, the smallest of
\* them would leave a smaller one when an element is taken out.
LEMMA GreatestIs ==
  ASSUME NEW S \in SUBSET Nat, IsFiniteSet(S), S # {}
  PROVE  \E x \in S : \A y \in S : x >= y
<1>1. PICK I : I = {n \in Nat : \E T \in SUBSET Nat :
                      IsFiniteSet(T) /\ T # {} /\ Cardinality(T) = n /\ ~ \E x \in T : \A y \in T : x >= y}
  OBVIOUS
<1>2. I = {}
  <2> SUFFICES ASSUME I # {} PROVE FALSE
    OBVIOUS
  <2>1. PICK n \in I : \A m \in I : n <= m
    <3>1. I \in SUBSET Nat
      BY <1>1
    <3> QED BY <3>1, LeastIs
  <2>2. PICK T \in SUBSET Nat : IsFiniteSet(T) /\ T # {} /\ Cardinality(T) = n /\ ~ \E x \in T : \A y \in T : x >= y
    BY <1>1
  <2>3. PICK x \in T : TRUE
    BY <2>2
  <2>4. IsFiniteSet(T \ {x}) /\ Cardinality(T \ {x}) = n - 1 /\ n - 1 \in Nat /\ n \in Nat
    <3>1. IsFiniteSet(T \ {x}) /\ Cardinality(T \ {x}) = n - 1
      BY <2>2, FS_RemoveElement
    <3>2. n \in Nat /\ Cardinality(T \ {x}) \in Nat
      BY <2>2, <3>1, FS_CardinalityType
    <3> QED BY <3>1, <3>2
  <2>5. CASE T \ {x} = {}
    <3>1. \A y \in T : x >= y
      BY <2>5
    <3> QED BY <2>2, <3>1
  <2>6. CASE T \ {x} # {}
    <3>1. n - 1 \notin I
      BY <2>1, <2>4
    <3>2. PICK z \in T \ {x} : \A y \in T \ {x} : z >= y
      BY <1>1, <2>4, <2>6, <3>1
    <3>3. CASE z >= x
      <4>1. \A y \in T : z >= y
        BY <3>2, <3>3
      <4> QED BY <2>2, <4>1
    <3>4. CASE ~(z >= x)
      <4>1. \A y \in T : x >= y
        <5>1. x \in Nat /\ z \in Nat /\ T \subseteq Nat
          BY <2>3
        <5> QED BY <3>2, <3>4, <5>1
      <4> QED BY <2>2, <4>1
    <3> QED BY <3>3, <3>4
  <2> QED BY <2>5, <2>6
<1>3. Cardinality(S) \in Nat
  BY FS_CardinalityType
<1> QED BY <1>1, <1>2, <1>3

\* The sequence of a finite set has all its elements and no other.
LEMMA SetToSeqIs ==
  ASSUME NEW S, IsFiniteSet(S)
  PROVE  /\ SetToSeq(S) \in Seq(S) /\ (S # {} => SetToSeq(S) # <<>>)
         /\ \A x \in S : \E i \in DOMAIN SetToSeq(S) : SetToSeq(S)[i] = x
<1>1. PICK n \in Nat : n = Cardinality(S) /\ ExistsBijection(1..n, S)
  BY FS_CardinalityType
<1>2. \E f \in [1..n -> S] : IsInjective(f)
  BY <1>1 DEF ExistsBijection, Bijection, Injection
<1>3. PICK f : f = SetToSeq(S)
  OBVIOUS
<1>4. f \in [1..n -> S] /\ IsInjective(f)
  BY <1>1, <1>2, <1>3 DEF SetToSeq
<1>5. f \in Injection(1..n, S)
  BY <1>4 DEF Injection
<1>6. Cardinality(1..n) = n
  <2>1. 1 \in Int /\ n \in Int
    OBVIOUS
  <2>2. Cardinality(1..n) = IF 1 > n THEN 0 ELSE n - 1 + 1
    BY <2>1, FS_Interval
  <2> QED BY <2>2
<1>7. f \in Surjection(1..n, S)
  BY <1>1, <1>5, <1>6, FS_Injection
<1>8. \A x \in S : \E i \in 1..n : f[i] = x
  BY <1>7 DEF Surjection
<1>9. f \in Seq(S) /\ DOMAIN f = 1..n
  BY <1>4
<1> QED BY <1>3, <1>8, <1>9

-----------------------------------------------------------------------------
\* The facts about the backfill that its steps rely on.
LEMMA FieldFacts ==
  ASSUME FieldTypes
  PROVE  /\ backfill \in BackfillRecord /\ backfill.cursor \in Nat /\ backfill.batch \in Seq(BatchRow)
         /\ backfill.errors \in 0..MaxFailed /\ layers \in [Ids -> Layers] /\ rows \subseteq Ids /\ Ids \subseteq Nat
         /\ MaxFailed \in Nat
<1>1. Ids \subseteq Nat /\ MaxFailed \in Nat /\ 0 \in Nat
  BY FieldAssumption
<1>2. backfill \in BackfillRecord /\ layers \in [Ids -> Layers] /\ rows \subseteq Ids
  BY DEF FieldTypes
<1>3. backfill.cursor \in Ids \cup {0} /\ backfill.batch \in Seq(BatchRow) /\ backfill.errors \in 0..MaxFailed
  BY <1>2 DEF BackfillRecord
<1> QED BY <1>1, <1>2, <1>3

\* What is behind the cursor, and the next batch of it.
LEMMA NextIdsAre ==
  ASSUME FieldTypes
  PROVE  /\ NextIds \subseteq Behind /\ Behind \subseteq rows /\ IsFiniteSet(Behind) /\ IsFiniteSet(NextIds)
         /\ NextIds = {} => Behind = {}
         /\ \A r \in Behind, m \in NextIds : r <= m => r \in NextIds
<1>1. Behind \subseteq rows /\ NextIds \subseteq Behind /\ rows \subseteq Ids /\ Behind \in SUBSET Nat
  BY FieldFacts DEF Behind, NextIds
<1>2. IsFiniteSet(Behind) /\ IsFiniteSet(NextIds)
  <2>1. IsFiniteSet(Ids) /\ Behind \in SUBSET Ids /\ NextIds \in SUBSET Ids
    BY <1>1, FieldAssumption
  <2> QED BY <2>1, FS_Subset
<1>3. ASSUME Behind # {} PROVE NextIds # {}
  <2>1. PICK x \in Behind : \A y \in Behind : x <= y
    BY <1>1, <1>3, LeastIs
  <2>2. {q \in Behind : q <= x} = {x}
    <3>1. \A q \in Behind : q <= x => q = x
      BY <1>1, <2>1
    <3>2. x <= x
      BY <1>1
    <3> QED BY <3>1, <3>2
  <2>3. Cardinality({q \in Behind : q <= x}) <= BatchSize
    <3>1. Cardinality({x}) = 1
      BY FS_Singleton
    <3>2. 1 <= BatchSize
      BY FieldAssumption
    <3> QED BY <2>2, <3>1, <3>2
  <2> QED BY <2>3 DEF NextIds
<1>4. ASSUME NEW r \in Behind, NEW m \in NextIds, r <= m PROVE r \in NextIds
  <2>1. PICK A : A = {q \in Behind : q <= r}
    OBVIOUS
  <2>2. PICK B : B = {q \in Behind : q <= m}
    OBVIOUS
  <2>3. A \subseteq B
    <3>1. \A q \in Behind : q <= r => q <= m
      BY <1>1, <1>4
    <3> QED BY <2>1, <2>2, <3>1
  <2>4. IsFiniteSet(A) /\ IsFiniteSet(B)
    <3>1. A \in SUBSET Behind /\ B \in SUBSET Behind
      BY <2>1, <2>2
    <3> QED BY <1>2, <3>1, FS_Subset
  <2>5. Cardinality(A) <= Cardinality(B) /\ Cardinality(A) \in Nat /\ Cardinality(B) \in Nat
    BY <2>3, <2>4, FS_Subset, FS_CardinalityType
  <2>6. Cardinality(B) <= BatchSize
    BY <2>2 DEF NextIds
  <2>7. Cardinality(A) <= BatchSize
    BY <2>5, <2>6, FieldAssumption
  <2> QED BY <2>1, <2>7 DEF NextIds
<1> QED BY <1>1, <1>2, <1>3, <1>4

\* A batch: its cursor is its greatest id, and every row up to it is in it as it is.
LEMMA BatchIs ==
  ASSUME FieldTypes, NextIds # {}
  PROVE  LET m == Max(NextIds)
             b == SetToSeq({[id |-> r, properties |-> layers[r]] : r \in NextIds})
         IN  /\ m \in Ids /\ b \in Seq(BatchRow) /\ b # <<>>
             /\ \A i \in DOMAIN b : b[i].id \in Ids /\ b[i].properties = layers[b[i].id]
             /\ \A r \in rows : r > backfill.cursor => r > m \/ \E i \in DOMAIN b : b[i].id = r
<1>1. /\ NextIds \subseteq Behind /\ Behind \subseteq rows /\ IsFiniteSet(NextIds) /\ rows \subseteq Ids /\ Ids \subseteq Nat
      /\ layers \in [Ids -> Layers] /\ backfill.cursor \in Nat
  BY NextIdsAre, FieldFacts
<1>2. PICK m : m = Max(NextIds)
  OBVIOUS
<1>3. m \in NextIds /\ \A r \in NextIds : m >= r
  <2>1. NextIds \in SUBSET Nat
    BY <1>1
  <2> QED BY <1>1, <1>2, <2>1, GreatestIs DEF Max
<1>4. PICK f : f = [r \in NextIds |-> [id |-> r, properties |-> layers[r]]]
  OBVIOUS
<1>5. PICK S : S = {[id |-> r, properties |-> layers[r]] : r \in NextIds}
  OBVIOUS
<1>6. f \in [NextIds -> S] /\ \A t \in S : \E r \in NextIds : f[r] = t
  BY <1>4, <1>5
<1>7. IsFiniteSet(S)
  <2>1. f \in Surjection(NextIds, S)
    BY <1>6 DEF Surjection
  <2> QED BY <1>1, <2>1, FS_Surjection
<1>8. S \subseteq BatchRow /\ S # {}
  <2>1. \A r \in NextIds : r \in Ids /\ layers[r] \in Layers
    BY <1>1
  <2>2. \A r \in NextIds : [id |-> r, properties |-> layers[r]] \in BatchRow
    BY <2>1 DEF BatchRow
  <2>3. S # {}
    BY <1>5
  <2> QED BY <1>5, <2>2, <2>3
<1>9. PICK b : b = SetToSeq(S)
  OBVIOUS
<1>10. /\ b \in Seq(S) /\ b # <<>> /\ \A x \in S : \E i \in DOMAIN b : b[i] = x
  BY <1>7, <1>8, <1>9, SetToSeqIs
<1>11. b \in Seq(BatchRow) /\ \A i \in DOMAIN b : b[i] \in S
  BY <1>8, <1>10
<1>12. \A i \in DOMAIN b : b[i].id \in Ids /\ b[i].properties = layers[b[i].id]
  <2>0. NextIds \subseteq Ids
    BY <1>1
  <2>1. ASSUME NEW x \in S PROVE x.id \in Ids /\ x.properties = layers[x.id]
    <3>1. PICK r \in NextIds : x = [id |-> r, properties |-> layers[r]]
      BY <1>5
    <3>2. x.id = r /\ x.properties = layers[r]
      BY <3>1
    <3> QED BY <2>0, <3>2
  <2> QED BY <1>11, <2>1
<1>13. ASSUME NEW r \in rows, r > backfill.cursor, ~(r > m) PROVE \E i \in DOMAIN b : b[i].id = r
  <2>1. r \in Behind /\ r <= m
    BY <1>1, <1>3, <1>13 DEF Behind
  <2>2. r \in NextIds
    BY <1>3, <2>1, NextIdsAre
  <2>3. [id |-> r, properties |-> layers[r]] \in S
    BY <1>5, <2>2
  <2>4. PICK i \in DOMAIN b : b[i] = [id |-> r, properties |-> layers[r]]
    BY <1>10, <2>3
  <2> QED BY <2>4
<1> QED BY <1>1, <1>2, <1>3, <1>5, <1>9, <1>10, <1>11, <1>12, <1>13

-----------------------------------------------------------------------------
\* What is written is in plaintext or encrypted once, and with the key it is encrypted.
LEMMA LayersAre ==
  /\ Plain \in Layers /\ Sealed \in Layers /\ ~NeedsBackfill(Sealed)
  /\ \A p \in Layers : EncryptPlaintextFields(p) \in Layers /\ ~NeedsBackfill(EncryptPlaintextFields(p))
BY DEF Plain, Sealed, Layers, NeedsBackfill, EncryptPlaintextFields

\* The application writes a row.
LEMMA WriteRowKeeps ==
  ASSUME FieldInv, NEW r \in Ids, NEW withKey \in BOOLEAN, Write(r, withKey)
  PROVE  FieldInv'
<1>1. PICK p \in Layers : p = EncryptProperties(withKey) /\ (withKey => ~NeedsBackfill(p))
  BY LayersAre DEF EncryptProperties
<1>2. /\ rows' = rows \cup {r} /\ layers' = [layers EXCEPT ![r] = p] /\ UNCHANGED <<oldOnes, backfill>>
      /\ writes' = writes + 1
  BY <1>1 DEF Write
<1>3. stained' = (stained \/ ~withKey)
  BY DEF Write
<1>4. FieldTypes /\ layers \in [Ids -> Layers]
  BY DEF FieldInv, FieldTypes
<1>5. stained' \in BOOLEAN /\ (~stained' => ~stained /\ withKey)
  <2>1. (stained \/ ~withKey) \in BOOLEAN
    OBVIOUS
  <2> QED BY <1>3, <2>1, Zenon
<1>6. /\ layers' \in [Ids -> Layers] /\ layers'[r] = p
      /\ \A q \in Ids \ {r} : layers'[q] = layers[q]
  BY <1>2, <1>4
<1>7. FieldTypes'
  <2>1. writes' \in Nat
    BY <1>2, <1>4 DEF FieldTypes
  <2>2. rows' \subseteq Ids
    BY <1>2, <1>4 DEF FieldTypes
  <2>3. oldOnes' \in BOOLEAN /\ backfill' \in BackfillRecord /\ (backfill'.pc = "rows" <=> backfill'.batch # <<>>)
    BY <1>2, <1>4 DEF FieldTypes
  <2> QED BY <1>5, <1>6, <2>1, <2>2, <2>3 DEF FieldTypes
<1>8. Covered'
  <2> SUFFICES ASSUME ~stained', backfill'.errors = 0, backfill'.pc # "idle", NEW q \in rows', NeedsBackfill(layers'[q])
               PROVE  backfill'.pc # "done" /\ (q > backfill'.cursor \/ InBatch(q)')
    BY DEF Covered
  <2>1. q # r
    BY <1>1, <1>5, <1>6
  <2>2. q \in rows /\ NeedsBackfill(layers[q])
    BY <1>2, <1>4, <1>6, <2>1 DEF FieldTypes
  <2>3. backfill.pc # "done" /\ (q > backfill.cursor \/ InBatch(q))
    BY <1>2, <1>5, <2>2 DEF FieldInv, Covered
  <2> QED BY <1>2, <2>3 DEF InBatch
<1>9. Fresh'
  <2> SUFFICES ASSUME ~stained', NEW i \in DOMAIN backfill.batch, NeedsBackfill(layers'[backfill.batch[i].id])
               PROVE  NeedsBackfill(backfill.batch[i].properties)
    BY <1>2 DEF Fresh
  <2>1. backfill.batch[i].id \in Ids
    <3>1. backfill.batch \in Seq(BatchRow)
      BY <1>4, FieldFacts
    <3>2. backfill.batch[i] \in BatchRow
      BY <3>1
    <3> QED BY <3>2 DEF BatchRow
  <2>2. backfill.batch[i].id # r
    BY <1>1, <1>5, <1>6
  <2> QED BY <1>5, <1>6, <2>1, <2>2 DEF FieldInv, Fresh
<1> QED BY <1>7, <1>8, <1>9 DEF FieldInv

\* The roll-out ends, and the backfill begins, is stopped or takes a batch.
LEMMA BackfillMoves ==
  ASSUME FieldInv, RollOutEnds \/ StartBackfill \/ StopBackfill \/ SelectBatch
  PROVE  FieldInv'
<1>0. /\ FieldTypes /\ UNCHANGED <<rows, layers, writes>> /\ 0 \in 0..MaxFailed /\ backfill \in BackfillRecord
      /\ Ids \subseteq Nat \ {0}
  BY FieldAssumption DEF FieldInv, FieldTypes, RollOutEnds, StartBackfill, StopBackfill, SelectBatch
<1>1. CASE RollOutEnds
  <2>1. oldOnes' = FALSE /\ UNCHANGED <<backfill, stained>>
    BY <1>1 DEF RollOutEnds
  <2> QED BY <1>0, <2>1 DEF FieldInv, FieldTypes, Covered, Fresh, InBatch
<1>2. ASSUME NEW pc \in {"idle", "select"}, backfill' = [Idle EXCEPT !.pc = pc]
      PROVE  /\ backfill' \in BackfillRecord /\ backfill'.pc = pc /\ backfill'.cursor = 0 /\ backfill'.batch = <<>>
  <2>1. backfill' = [pc |-> pc, cursor |-> 0, batch |-> <<>>, errors |-> 0]
    BY <1>2 DEF Idle
  <2> QED BY <1>0, <2>1 DEF BackfillRecord
<1>3. CASE StartBackfill
  <2>1. /\ backfill' \in BackfillRecord /\ backfill'.pc = "select" /\ backfill'.cursor = 0 /\ backfill'.batch = <<>>
        /\ stained' = FALSE /\ UNCHANGED oldOnes
    BY <1>2, <1>3 DEF StartBackfill
  <2>2. FieldTypes'
    BY <1>0, <2>1 DEF FieldTypes
  <2>3. \A r \in rows : r > 0
    BY <1>0 DEF FieldTypes
  <2>4. Covered' /\ Fresh'
    BY <1>0, <2>1, <2>3 DEF Covered, Fresh
  <2> QED BY <2>2, <2>4 DEF FieldInv
<1>4. CASE StopBackfill
  <2>1. backfill' = [Idle EXCEPT !.pc = "idle"] /\ UNCHANGED <<oldOnes, stained>>
    BY <1>4 DEF StopBackfill, Idle
  <2>2. backfill' \in BackfillRecord /\ backfill'.pc = "idle" /\ backfill'.batch = <<>>
    BY <1>2, <2>1
  <2> QED BY <1>0, <2>1, <2>2 DEF FieldInv, FieldTypes, Covered, Fresh
<1>5. CASE SelectBatch
  <2>0. /\ backfill.pc = "select" /\ backfill.batch = <<>> /\ backfill.cursor \in Nat /\ UNCHANGED <<oldOnes, stained>>
    BY <1>0, <1>5, FieldFacts DEF SelectBatch, FieldTypes
  <2>1. CASE NextIds = {}
    <3>1. PICK b \in BackfillRecord : b = [backfill EXCEPT !.pc = "done"]
      BY <1>0 DEF BackfillRecord
    <3>2. backfill' = b /\ b.pc = "done" /\ b.batch = <<>> /\ b.errors = backfill.errors
      BY <1>0, <1>5, <2>0, <2>1, <3>1 DEF SelectBatch, BackfillRecord
    <3>3. FieldTypes'
      BY <1>0, <2>0, <3>2 DEF FieldTypes
    <3>4. Behind = {}
      BY <1>0, <2>1, NextIdsAre
    <3>5. Covered'
      BY <1>0, <2>0, <3>2, <3>4 DEF FieldInv, Covered, InBatch, Behind
    <3>6. Fresh'
      BY <3>2 DEF Fresh
    <3> QED BY <3>3, <3>5, <3>6 DEF FieldInv
  <2>2. CASE NextIds # {}
    <3>1. PICK m, s : /\ m = Max(NextIds)
                      /\ s = SetToSeq({[id |-> r, properties |-> layers[r]] : r \in NextIds})
      OBVIOUS
    <3>2. /\ m \in Ids /\ s \in Seq(BatchRow) /\ s # <<>>
          /\ \A i \in DOMAIN s : s[i].id \in Ids /\ s[i].properties = layers[s[i].id]
          /\ \A r \in rows : r > backfill.cursor => r > m \/ \E i \in DOMAIN s : s[i].id = r
      BY <1>0, <2>2, <3>1, BatchIs
    <3>3. PICK b \in BackfillRecord : b = [backfill EXCEPT !.pc = "rows", !.cursor = m, !.batch = s]
      BY <1>0, <3>2 DEF BackfillRecord
    <3>4. backfill' = b /\ b.pc = "rows" /\ b.batch = s /\ b.errors = backfill.errors /\ b.cursor = m
      BY <1>0, <1>5, <2>2, <3>1, <3>3 DEF SelectBatch, BackfillRecord
    <3>5. FieldTypes'
      BY <1>0, <2>0, <3>2, <3>4 DEF FieldTypes
    <3>6. Covered'
      BY <1>0, <2>0, <3>2, <3>4 DEF FieldInv, Covered, InBatch
    <3>7. Fresh'
      BY <1>0, <3>2, <3>4 DEF Fresh
    <3> QED BY <3>5, <3>6, <3>7 DEF FieldInv
  <2> QED BY <2>1, <2>2
<1> QED BY <1>1, <1>3, <1>4, <1>5

\* A row of the batch is done with: skipped, written back or given up.
LEMMA RowsKeep ==
  ASSUME FieldInv, SkipRow \/ UpdateRow \/ FailRow
  PROVE  FieldInv'
<1>0. /\ FieldTypes /\ UNCHANGED <<rows, writes, oldOnes, stained>> /\ backfill \in BackfillRecord /\ backfill.pc = "rows"
      /\ backfill.batch \in Seq(BatchRow) /\ backfill.batch # <<>> /\ layers \in [Ids -> Layers] /\ rows \subseteq Ids
      /\ MaxFailed \in Nat /\ backfill.errors \in 0..MaxFailed
  BY FieldFacts DEF FieldInv, FieldTypes, SkipRow, UpdateRow, FailRow
<1>1. PICK s \in Seq(BatchRow) : s = backfill.batch
  BY <1>0
<1>14. s # <<>> /\ Len(s) \in Nat /\ Len(s) # 0 /\ DOMAIN s = 1..Len(s)
  <2>1. s # <<>>
    BY <1>0, <1>1
  <2> QED BY <2>1
<1>2. PICK t \in Seq(BatchRow) : t = Tail(s)
  <2>1. s # <<>>
    BY <1>14
  <2>2. Tail(s) \in Seq(BatchRow)
    BY <2>1, HeadTailProperties
  <2> QED BY <2>2
<1>3. /\ s[1] = Head(s) /\ s[1] \in BatchRow /\ s[1].id \in Ids /\ s[1].properties \in Layers
  <2>1. s[1] = Head(s) /\ s[1] \in BatchRow
    BY <1>14
  <2> QED BY <2>1 DEF BatchRow
<1>4. /\ \A i \in DOMAIN s : i = 1 \/ \E j \in DOMAIN t : t[j] = s[i]
      /\ \A j \in DOMAIN t : \E i \in DOMAIN s : t[j] = s[i]
      /\ t = <<>> <=> Len(s) = 1
  <2>1. Len(s) \in Nat /\ Len(s) # 0 /\ DOMAIN s = 1..Len(s)
    BY <1>14
  <2>2. Len(t) = Len(s) - 1 /\ DOMAIN t = 1..(Len(s) - 1) /\ \A j \in 1..(Len(s) - 1) : t[j] = s[j + 1]
    BY <1>14, <1>2
  <2>3. ASSUME NEW i \in 1..Len(s), i # 1 PROVE \E j \in 1..(Len(s) - 1) : t[j] = s[i]
    <3>1. i - 1 \in 1..(Len(s) - 1) /\ (i - 1) + 1 = i
      BY <2>1, <2>3
    <3> QED BY <2>2, <3>1
  <2>4. \A j \in 1..(Len(s) - 1) : j + 1 \in 1..Len(s)
    BY <2>1
  <2>5. t = <<>> <=> Len(s) = 1
    <3>1. t = <<>> <=> Len(t) = 0
      OBVIOUS
    <3> QED BY <2>1, <2>2, <3>1
  <2> QED BY <2>1, <2>2, <2>3, <2>4, <2>5
<1>5. PICK e \in 0..MaxFailed :
        /\ backfill' = [Rest EXCEPT !.errors = e]
        /\ e = 0 => backfill.errors = 0 /\ ~FailRow
  <2>1. Rest = [Rest EXCEPT !.errors = backfill.errors]
    BY <1>0 DEF Rest, BackfillRecord
  <2>2. CASE FailRow
    <3>1. backfill' = [Rest EXCEPT !.errors = backfill.errors + 1] /\ backfill.errors < MaxFailed
      BY <1>0, <2>2 DEF FailRow, Rest, BackfillRecord
    <3>2. backfill.errors + 1 \in 0..MaxFailed /\ backfill.errors + 1 # 0
      BY <1>0, <3>1
    <3> QED BY <3>1, <3>2
  <2>3. CASE ~FailRow
    BY <1>0, <2>1, <2>3 DEF SkipRow, UpdateRow
  <2> QED BY <2>2, <2>3
<1>6. PICK pc \in {"select", "rows"} : pc = IF Len(s) = 1 THEN "select" ELSE "rows"
  OBVIOUS
<1>7. PICK b \in BackfillRecord : b = [backfill EXCEPT !.batch = t, !.pc = pc, !.errors = e]
  BY <1>0 DEF BackfillRecord
<1>8. backfill' = b
  BY <1>0, <1>1, <1>2, <1>5, <1>6, <1>7 DEF Rest
<1>9. b.batch = t /\ b.pc = pc /\ b.errors = e /\ b.cursor = backfill.cursor
  BY <1>0, <1>7 DEF BackfillRecord
<1>10. /\ layers' \in [Ids -> Layers]
       /\ \A r \in Ids : NeedsBackfill(layers'[r]) => NeedsBackfill(layers[r])
       /\ ~stained /\ ~FailRow => ~NeedsBackfill(layers'[s[1].id])
  <2>1. CASE SkipRow
    <3>1. ~NeedsBackfill(s[1].properties) /\ UNCHANGED layers
      BY <1>1, <1>3, <2>1 DEF SkipRow
    <3>2. 1 \in DOMAIN s
      BY <1>0, <1>1
    <3> QED BY <1>0, <1>1, <3>1, <3>2 DEF FieldInv, Fresh
  <2>2. CASE UpdateRow
    <3>1. PICK p \in Layers : p = EncryptPlaintextFields(s[1].properties) /\ ~NeedsBackfill(p)
      BY <1>3, LayersAre
    <3>2. layers' = [layers EXCEPT ![s[1].id] = p]
      BY <1>1, <1>3, <2>2, <3>1 DEF UpdateRow
    <3> QED BY <1>0, <1>3, <3>1, <3>2
  <2>3. CASE FailRow
    BY <1>0, <2>3 DEF FailRow
  <2> QED BY <2>1, <2>2, <2>3
<1>11. FieldTypes'
  BY <1>0, <1>4, <1>6, <1>8, <1>9, <1>10 DEF FieldTypes
<1>12. Covered'
  <2> SUFFICES ASSUME ~stained, e = 0, NEW r \in rows, NeedsBackfill(layers'[r])
               PROVE  r > backfill.cursor \/ \E j \in DOMAIN t : t[j].id = r
    BY <1>0, <1>6, <1>8, <1>9 DEF Covered, InBatch
  <2>1. NeedsBackfill(layers[r]) /\ r # s[1].id
    BY <1>0, <1>5, <1>10
  <2>2. r > backfill.cursor \/ InBatch(r)
    BY <1>0, <1>5, <2>1 DEF FieldInv, Covered
  <2> QED BY <1>1, <1>4, <2>1, <2>2 DEF InBatch
<1>13. Fresh'
  <2> SUFFICES ASSUME ~stained, NEW j \in DOMAIN t, NeedsBackfill(layers'[t[j].id]) PROVE NeedsBackfill(t[j].properties)
    BY <1>0, <1>8, <1>9 DEF Fresh
  <2>1. PICK i \in DOMAIN s : t[j] = s[i]
    BY <1>4
  <2>2. s[i].id \in Ids
    <3>1. s[i] \in BatchRow
      OBVIOUS
    <3> QED BY <3>1 DEF BatchRow
  <2> QED BY <1>1, <1>10, <2>1, <2>2 DEF FieldInv, Fresh
<1> QED BY <1>11, <1>12, <1>13 DEF FieldInv

-----------------------------------------------------------------------------
\* The invariant holds at the start and in every step.
THEOREM FieldInductive ==
  /\ FieldInit => FieldInv
  /\ FieldInv /\ [FieldNext]_fieldVars => FieldInv'
<1>1. ASSUME FieldInit PROVE FieldInv
  <2>1. /\ rows \subseteq Ids /\ layers \in [Ids -> Layers] /\ oldOnes = TRUE /\ writes = 0 /\ stained = FALSE
        /\ backfill = [pc |-> "idle", cursor |-> 0, batch |-> <<>>, errors |-> 0]
    BY <1>1 DEF FieldInit, Layers, Idle
  <2>2. 0 \in 0..MaxFailed
    BY FieldAssumption
  <2>3. backfill \in BackfillRecord /\ backfill.pc = "idle" /\ backfill.batch = <<>>
    BY <2>1, <2>2 DEF BackfillRecord
  <2>4. FieldTypes
    BY <2>1, <2>3 DEF FieldTypes
  <2>5. Fresh
    BY <2>3 DEF Fresh
  <2>6. Covered
    BY <2>3 DEF Covered
  <2> QED BY <2>4, <2>5, <2>6 DEF FieldInv
<1>2. ASSUME FieldInv, FieldNext PROVE FieldInv'
  BY <1>2, WriteRowKeeps, BackfillMoves, RowsKeep DEF FieldNext
<1>3. ASSUME FieldInv, UNCHANGED fieldVars PROVE FieldInv'
  BY <1>3 DEF fieldVars, FieldInv, FieldTypes, Covered, Fresh, InBatch
<1> QED BY <1>1, <1>2, <1>3

\* A backfill that ends without an error leaves no row in plaintext, and nothing is
\* ever encrypted twice (BackfillCovers); its variables are well formed (FieldTypeOK).
THEOREM FieldCorrect == FieldSpec => [](FieldTypeOK /\ BackfillCovers)
<1>1. ASSUME FieldInv PROVE FieldTypeOK
  <2>1. FieldTypes /\ backfill \in BackfillRecord
    BY <1>1 DEF FieldInv, FieldTypes
  <2>2. layers \in [Ids -> [Fields -> Nat]]
    BY <2>1 DEF FieldTypes, Layers
  <2>3. oldOnes \in BOOLEAN /\ stained \in BOOLEAN /\ rows \subseteq Ids
    BY <2>1 DEF FieldTypes
  <2>4. /\ backfill.pc \in {"idle", "select", "rows", "done"}
        /\ backfill.cursor \in Ids \cup {0} /\ backfill.errors \in 0..MaxFailed
    BY <2>1 DEF BackfillRecord
  <2>5. {oldOnes, stained} \subseteq BOOLEAN
    BY <2>3, Zenon
  <2> QED BY <2>2, <2>3, <2>4, <2>5 DEF FieldTypeOK
<1>2. ASSUME FieldInv PROVE BackfillCovers
  <2>1. FieldTypes /\ layers \in [Ids -> Layers] /\ rows \subseteq Ids
    BY <1>2 DEF FieldInv, FieldTypes
  <2>2. \A r \in rows, f \in Fields : layers[r][f] < 2
    <3>1. \A r \in rows, f \in Fields : layers[r][f] \in {0, 1}
      BY <2>1 DEF Layers
    <3> QED BY <3>1
  <2>3. backfill.pc = "done" /\ backfill.errors = 0 /\ ~stained => \A r \in rows : ~NeedsBackfill(layers[r])
    BY <1>2 DEF FieldInv, Covered
  <2> QED BY <2>2, <2>3 DEF BackfillCovers
<1> QED BY <1>1, <1>2, FieldInductive, PTL DEF FieldSpec

-----------------------------------------------------------------------------
(* Worker tokens.                                                          *)

TokenRecord == [kind : {"session", "worker"}, key : Nat, pod : Pods \cup {NoToken}, exp : Nat]

TokenCallRecord == [pc : {"idle", "refresh", "revoke", "persist", "verify", "consume", "record", "invalidate"},
                    jti : Nat \cup {NoToken}, new : Nat \cup {NoToken}, pod : Pods \cup {NoToken},
                    todo : SUBSET Nat]

TokenTypes ==
  /\ token \in Seq(TokenRecord) /\ (\A j \in Jtis : token[j].key \in 1..epoch)
  /\ clock \in Nat /\ epoch \in Nat \ {0} /\ serverKey \in [Servers -> 1..epoch]
  /\ revoked \subseteq Jtis /\ closed \subseteq Jtis /\ cookie \in Jtis \cup {NoToken}
  /\ DOMAIN row \subseteq Jtis
  /\ row \in [DOMAIN row -> {"open", "consumed", "invalidated"}]
  /\ accepted \in [Jtis -> {0, 1}] /\ accepted \in Seq({0, 1})
  /\ tokenCall \in [TokenCalls -> TokenCallRecord]

\* What a request holds; one that is to record a token has consumed its row.
Holds(c) ==
  /\ tokenCall[c].pc \in {"refresh", "revoke", "persist"} => tokenCall[c].jti \in Jtis
  /\ tokenCall[c].pc = "revoke" => tokenCall[c].new \in Jtis
  /\ tokenCall[c].pc \in {"verify", "consume", "record"} => tokenCall[c].jti \in DOMAIN row
  /\ tokenCall[c].pc = "record" => row[tokenCall[c].jti] = "consumed" /\ accepted[tokenCall[c].jti] = 0
  /\ tokenCall[c].pc = "invalidate" => tokenCall[c].todo \subseteq Jtis

\* Of each row one request at most records the token.
OneRecorder == \A c, d \in TokenCalls :
  c # d /\ tokenCall[c].pc = "record" /\ tokenCall[d].pc = "record" => tokenCall[c].jti # tokenCall[d].jti

\* The row decides: one of a token that was accepted is consumed, and one of a closed token not.
RowDecides == \A j \in Jtis :
  /\ accepted[j] = 1 => j \in DOMAIN row /\ row[j] = "consumed"
  /\ j \in closed => j \in DOMAIN row /\ row[j] = "invalidated"

TokensInv ==
  /\ TokenTypes
  /\ \A c \in TokenCalls : Holds(c)
  /\ OneRecorder /\ RowDecides

-----------------------------------------------------------------------------
\* A step of one request changes that request alone.
LEMMA CallStep ==
  ASSUME TokenTypes, NEW c \in TokenCalls, NEW m \in TokenCallRecord, tokenCall' = [tokenCall EXCEPT ![c] = m]
  PROVE  /\ tokenCall' \in [TokenCalls -> TokenCallRecord] /\ tokenCall'[c] = m
         /\ \A d \in TokenCalls \ {c} : tokenCall'[d] = tokenCall[d]
BY DEF TokenTypes

\* A request at rest.
LEMMA AtRest == IdleCall \in TokenCallRecord /\ IdleCall.pc = "idle"
BY DEF IdleCall, TokenCallRecord

\* A request that is answered, or lost.
LEMMA AnswerStep ==
  ASSUME TokenTypes, NEW c \in TokenCalls, Answer(c)
  PROVE  /\ tokenCall' \in [TokenCalls -> TokenCallRecord] /\ tokenCall'[c].pc = "idle"
         /\ \A d \in TokenCalls \ {c} : tokenCall'[d] = tokenCall[d]
BY CallStep, AtRest DEF Answer

\* A request that goes on.
LEMMA GoesStep ==
  ASSUME TokenTypes, NEW c \in TokenCalls, NEW pc \in {"consume", "record"}, Goes(c, pc)
  PROVE  /\ tokenCall' \in [TokenCalls -> TokenCallRecord] /\ tokenCall'[c].pc = pc
         /\ tokenCall'[c].jti = tokenCall[c].jti
         /\ \A d \in TokenCalls \ {c} : tokenCall'[d] = tokenCall[d]
<1>1. tokenCall[c] \in TokenCallRecord
  BY DEF TokenTypes
<1>2. PICK m \in TokenCallRecord : m = [tokenCall[c] EXCEPT !.pc = pc]
  BY <1>1 DEF TokenCallRecord
<1>3. m.pc = pc /\ m.jti = tokenCall[c].jti
  BY <1>1, <1>2 DEF TokenCallRecord
<1>4. tokenCall' = [tokenCall EXCEPT ![c] = m]
  BY <1>2 DEF Goes
<1> QED BY <1>3, <1>4, CallStep

\* The tokens that are there.
LEMMA JtisAre ==
  ASSUME TokenTypes
  PROVE  Jtis = 1..Len(token) /\ Len(token) \in Nat /\ Jtis \subseteq Nat /\ NoToken \notin Jtis
<1>1. Jtis = 1..Len(token) /\ Len(token) \in Nat
  BY DEF TokenTypes, Jtis
<1>2. NoToken \notin Nat
  BY TokensAssumption
<1> QED BY <1>1, <1>2

\* Another request holds what it held.
LEMMA StillHolds ==
  ASSUME NEW c \in TokenCalls, Holds(c), tokenCall'[c] = tokenCall[c], Jtis \subseteq Jtis',
         DOMAIN row \subseteq DOMAIN row',
         tokenCall[c].pc = "record" => /\ row'[tokenCall[c].jti] = row[tokenCall[c].jti]
                                       /\ accepted'[tokenCall[c].jti] = accepted[tokenCall[c].jti]
  PROVE  Holds(c)'
BY DEF Holds

\* signJwt: a token more, by a key there is, and accepted by nobody yet.
LEMMA SignEffect ==
  ASSUME TokenTypes, NEW s \in Servers, NEW kind \in {"session", "worker"}, NEW life \in Nat,
         NEW holder \in Pods \cup {NoToken}, SignJwt(s, kind, life, holder)
  PROVE  /\ token' \in Seq(TokenRecord) /\ accepted' \in Seq({0, 1})
         /\ Jtis' = Jtis \cup {Len(token')} /\ Len(token') \in Nat /\ Len(token') \notin Jtis
         /\ (\A j \in Jtis : token'[j] = token[j] /\ accepted'[j] = accepted[j])
         /\ token'[Len(token')].key = serverKey[s] /\ accepted'[Len(token')] = 0
         /\ accepted' \in [Jtis' -> {0, 1}] /\ Len(token') \in Jtis' /\ Jtis \subseteq Jtis'
<1>1. token \in Seq(TokenRecord) /\ accepted \in Seq({0, 1}) /\ accepted \in [Jtis -> {0, 1}] /\ clock \in Nat
      /\ serverKey[s] \in Nat
  BY DEF TokenTypes
<1>2. Len(accepted) = Len(token)
  BY <1>1, JtisAre
<1>3. PICK t \in TokenRecord : t = [kind |-> kind, key |-> serverKey[s], pod |-> holder, exp |-> (clock \div 2) + life]
  <2>1. (clock \div 2) + life \in Nat
    BY <1>1
  <2> QED BY <1>1, <2>1 DEF TokenRecord
<1>4. token' = Append(token, t) /\ accepted' = Append(accepted, 0) /\ t.key = serverKey[s]
  BY <1>3 DEF SignJwt
<1>5. /\ token' \in Seq(TokenRecord) /\ Len(token') = Len(token) + 1 /\ token'[Len(token) + 1] = t
      /\ \A j \in 1..Len(token) : token'[j] = token[j]
  BY <1>1, <1>4
<1>6. /\ accepted' \in Seq({0, 1}) /\ Len(accepted') = Len(token) + 1 /\ accepted'[Len(token) + 1] = 0
      /\ \A j \in 1..Len(token) : accepted'[j] = accepted[j]
  BY <1>1, <1>2, <1>4
<1>7. Jtis = 1..Len(token) /\ Len(token) \in Nat /\ Jtis' = 1..Len(token')
  BY <1>5, JtisAre DEF Jtis
<1>8. accepted' \in [1..Len(token') -> {0, 1}]
  BY <1>5, <1>6
<1> QED BY <1>4, <1>5, <1>6, <1>7, <1>8

-----------------------------------------------------------------------------
\* A step that signs nothing and leaves rows, tokens and what was accepted.
LEMMA RowsStay ==
  ASSUME TokensInv, UNCHANGED <<token, row, accepted, closed>>,
         clock' \in Nat, epoch' \in Nat \ {0}, epoch <= epoch', serverKey' \in [Servers -> 1..epoch'],
         revoked' \subseteq Jtis, cookie' \in Jtis \cup {NoToken},
         tokenCall' \in [TokenCalls -> TokenCallRecord],
         \A c \in TokenCalls : tokenCall'[c] = tokenCall[c] \/ (tokenCall'[c].pc # "record" /\ Holds(c)')
  PROVE  TokensInv'
<1>1. Jtis' = Jtis /\ TokenTypes
  BY DEF Jtis, TokensInv
<1>2. TokenTypes'
  <2>1. \A j \in Jtis : token[j].key \in 1..epoch'
    <3>1. epoch \in Nat
      BY <1>1 DEF TokenTypes
    <3> QED BY <1>1, <3>1 DEF TokenTypes
  <2> QED BY <1>1, <2>1 DEF TokenTypes
<1>3. \A c \in TokenCalls : Holds(c)'
  BY <1>1, StillHolds DEF TokensInv
<1>4. OneRecorder'
  BY DEF TokensInv, OneRecorder
<1>5. RowDecides'
  BY <1>1 DEF TokensInv, RowDecides
<1> QED BY <1>2, <1>3, <1>4, <1>5 DEF TokensInv

\* Requests that read, revoke or are given up.
LEMMA CallsKeep ==
  ASSUME TokensInv, NEW c \in TokenCalls,
         \/ \E s \in Servers : StartRefresh(c, s)
         \/ RefreshRevokes(c) \/ CheckRevoked(c) \/ LoseCall(c)
         \/ \E s \in Servers, j \in Jtis : StartConsume(c, s, j)
  PROVE  TokensInv'
<1>0. /\ TokenTypes /\ Holds(c) /\ tokenCall[c] \in TokenCallRecord /\ epoch \in Nat
      /\ clock \in Nat /\ epoch \in Nat \ {0} /\ serverKey \in [Servers -> 1..epoch]
      /\ revoked \subseteq Jtis /\ cookie \in Jtis \cup {NoToken} /\ Jtis \subseteq Nat /\ Jtis' = Jtis
  <2>1. token' = token
    BY DEF StartRefresh, RefreshRevokes, CheckRevoked, LoseCall, StartConsume
  <2> QED BY <2>1, JtisAre DEF TokensInv, TokenTypes, Jtis
<1>1. UNCHANGED <<token, row, accepted, closed, clock, epoch, serverKey>>
  BY DEF StartRefresh, RefreshRevokes, CheckRevoked, LoseCall, StartConsume, UnchangedTime
<1>2. CASE \E s \in Servers : StartRefresh(c, s)
  <2>1. cookie \in Jtis /\ UNCHANGED <<revoked, cookie>>
    BY <1>0, <1>2 DEF StartRefresh
  <2>2. PICK m \in TokenCallRecord : m = [IdleCall EXCEPT !.pc = "refresh", !.jti = cookie]
    BY <1>0, <2>1 DEF IdleCall, TokenCallRecord
  <2>3. tokenCall' = [tokenCall EXCEPT ![c] = m] /\ m.pc = "refresh" /\ m.jti = cookie
    BY <1>2, <2>2 DEF StartRefresh, IdleCall
  <2>4. /\ tokenCall' \in [TokenCalls -> TokenCallRecord] /\ tokenCall'[c] = m
        /\ \A d \in TokenCalls \ {c} : tokenCall'[d] = tokenCall[d]
    BY <1>0, <2>3, CallStep
  <2>5. Holds(c)'
    BY <1>0, <2>1, <2>3, <2>4 DEF Holds
  <2> QED BY <1>0, <1>1, <2>1, <2>3, <2>4, <2>5, RowsStay
<1>3. CASE RefreshRevokes(c)
  <2>1. tokenCall[c].jti \in Jtis /\ tokenCall[c].new \in Jtis
    BY <1>0, <1>3 DEF RefreshRevokes, Waiting, Holds
  <2>2. /\ tokenCall' \in [TokenCalls -> TokenCallRecord] /\ tokenCall'[c].pc = "idle"
        /\ \A d \in TokenCalls \ {c} : tokenCall'[d] = tokenCall[d]
    BY <1>0, <1>3, AnswerStep DEF RefreshRevokes
  <2>3. Holds(c)'
    BY <2>2 DEF Holds
  <2>4. revoked' \subseteq Jtis /\ cookie' \in Jtis \cup {NoToken}
    BY <1>0, <1>3, <2>1 DEF RefreshRevokes
  <2> QED BY <1>0, <1>1, <2>2, <2>3, <2>4, RowsStay
<1>4. ASSUME Answer(c), UNCHANGED <<revoked, cookie>> PROVE TokensInv'
  <2>1. /\ tokenCall' \in [TokenCalls -> TokenCallRecord] /\ tokenCall'[c].pc = "idle"
        /\ \A d \in TokenCalls \ {c} : tokenCall'[d] = tokenCall[d]
    BY <1>0, <1>4, AnswerStep
  <2>2. Holds(c)'
    BY <2>1 DEF Holds
  <2> QED BY <1>0, <1>1, <1>4, <2>1, <2>2, RowsStay
<1>5. CASE CheckRevoked(c)
  <2>1. CASE Answer(c)
    BY <1>4, <1>5, <2>1 DEF CheckRevoked
  <2>2. CASE Goes(c, "consume")
    <3>1. /\ tokenCall' \in [TokenCalls -> TokenCallRecord] /\ tokenCall'[c].pc = "consume"
          /\ tokenCall'[c].jti = tokenCall[c].jti
          /\ \A d \in TokenCalls \ {c} : tokenCall'[d] = tokenCall[d]
      BY <1>0, <2>2, GoesStep
    <3>2. Holds(c)'
      BY <1>0, <1>1, <1>5, <3>1 DEF Holds, CheckRevoked, Waiting
    <3>3. UNCHANGED <<revoked, cookie>>
      BY <1>5 DEF CheckRevoked
    <3> QED BY <1>0, <1>1, <3>1, <3>2, <3>3, RowsStay
  <2> QED BY <1>5, <2>1, <2>2 DEF CheckRevoked
<1>6. CASE LoseCall(c)
  BY <1>4, <1>6 DEF LoseCall
<1>7. CASE \E s \in Servers, j \in Jtis : StartConsume(c, s, j)
  <2>1. PICK s \in Servers, j \in Jtis : StartConsume(c, s, j)
    BY <1>7
  <2>2. PICK m \in TokenCallRecord : m = [IdleCall EXCEPT !.pc = "verify", !.jti = j]
    BY <1>0 DEF IdleCall, TokenCallRecord
  <2>3. tokenCall' = [tokenCall EXCEPT ![c] = m] /\ m.pc = "verify" /\ m.jti = j /\ j \in DOMAIN row
        /\ UNCHANGED <<revoked, cookie>>
    BY <2>1, <2>2 DEF StartConsume, IdleCall
  <2>4. /\ tokenCall' \in [TokenCalls -> TokenCallRecord] /\ tokenCall'[c] = m
        /\ \A d \in TokenCalls \ {c} : tokenCall'[d] = tokenCall[d]
    BY <1>0, <2>3, CallStep
  <2>5. Holds(c)'
    BY <1>1, <2>3, <2>4 DEF Holds
  <2> QED BY <1>0, <1>1, <2>3, <2>4, <2>5, RowsStay
<1> QED BY <1>2, <1>3, <1>5, <1>6, <1>7

\* Time, the keys and the browser.
LEMMA WorldKeepsTokens ==
  ASSUME TokensInv, Logout \/ Tick \/ CleanupExpiredRevocations \/ RotateKey \/ \E s \in Servers : Restart(s)
  PROVE  TokensInv'
<1>0. /\ TokenTypes /\ clock \in Nat /\ epoch \in Nat \ {0} /\ serverKey \in [Servers -> 1..epoch]
      /\ revoked \subseteq Jtis /\ cookie \in Jtis \cup {NoToken} /\ epoch <= epoch
  BY DEF TokensInv, TokenTypes
<1>1. UNCHANGED <<token, row, accepted, closed, tokenCall>>
  BY DEF Logout, Tick, CleanupExpiredRevocations, RotateKey, Restart
<1>2. revoked' \subseteq Jtis /\ cookie' \in Jtis \cup {NoToken} /\ clock' \in Nat
  BY <1>0 DEF Logout, Tick, CleanupExpiredRevocations, RotateKey, Restart, UnchangedTime
<1>3. epoch' \in Nat \ {0} /\ epoch <= epoch' /\ serverKey' \in [Servers -> 1..epoch']
  <2>1. CASE RotateKey
    <3>1. epoch' = epoch + 1 /\ serverKey' = serverKey
      BY <2>1 DEF RotateKey
    <3>2. 1..epoch \subseteq 1..epoch'
      BY <1>0, <3>1
    <3> QED BY <1>0, <3>1, <3>2
  <2>2. CASE \E s \in Servers : Restart(s)
    <3>1. epoch \in 1..epoch
      BY <1>0
    <3> QED BY <1>0, <2>2, <3>1 DEF Restart
  <2>3. CASE Logout \/ Tick \/ CleanupExpiredRevocations
    BY <1>0, <2>3 DEF Logout, Tick, CleanupExpiredRevocations, UnchangedTime
  <2> QED BY <2>1, <2>2, <2>3
<1>4. tokenCall' \in [TokenCalls -> TokenCallRecord]
  BY <1>0, <1>1 DEF TokenTypes
<1> QED BY <1>1, <1>2, <1>3, <1>4, RowsStay

\* What a new token leaves of the rest.
LEMMA SignedKeeps ==
  ASSUME TokensInv, NEW s \in Servers, NEW kind \in {"session", "worker"}, NEW life \in Nat,
         NEW holder \in Pods \cup {NoToken}, SignJwt(s, kind, life, holder),
         UNCHANGED <<revoked, row, clock, epoch, serverKey, closed>>,
         cookie' \in Jtis' \cup {NoToken}, tokenCall' \in [TokenCalls -> TokenCallRecord],
         \A c \in TokenCalls : tokenCall'[c] = tokenCall[c] \/ (tokenCall'[c].pc # "record" /\ Holds(c)')
  PROVE  TokensInv'
<1>0. /\ token' \in Seq(TokenRecord) /\ accepted' \in Seq({0, 1})
      /\ Jtis' = Jtis \cup {Len(token')} /\ Len(token') \in Nat /\ Len(token') \notin Jtis
      /\ (\A j \in Jtis : token'[j] = token[j] /\ accepted'[j] = accepted[j])
      /\ token'[Len(token')].key = serverKey[s] /\ accepted'[Len(token')] = 0
      /\ accepted' \in [Jtis' -> {0, 1}] /\ Jtis \subseteq Jtis' /\ TokenTypes
  BY SignEffect DEF TokensInv
<1>1. \A j \in Jtis' : token'[j].key \in 1..epoch
  <2>1. serverKey[s] \in 1..epoch
    BY <1>0 DEF TokenTypes
  <2> QED BY <1>0, <2>1 DEF TokenTypes
<1>2. TokenTypes'
  BY <1>0, <1>1 DEF TokenTypes
<1>3. \A c \in TokenCalls : Holds(c)'
  <2> SUFFICES ASSUME NEW c \in TokenCalls, tokenCall'[c] = tokenCall[c] PROVE Holds(c)'
    OBVIOUS
  <2>1. tokenCall[c].pc = "record" => tokenCall[c].jti \in Jtis
    BY <1>0 DEF TokensInv, Holds, TokenTypes
  <2>2. tokenCall[c].pc = "record" => accepted'[tokenCall[c].jti] = accepted[tokenCall[c].jti]
    BY <1>0, <2>1
  <2> QED BY <1>0, <2>2, StillHolds DEF TokensInv
<1>4. OneRecorder'
  BY DEF TokensInv, OneRecorder
<1>5. RowDecides'
  <2>1. RowDecides /\ closed \subseteq Jtis
    BY <1>0 DEF TokensInv, TokenTypes
  <2> QED BY <1>0, <2>1 DEF RowDecides
<1> QED BY <1>2, <1>3, <1>4, <1>5 DEF TokensInv

\* The requests that sign.
LEMMA SignersKeep ==
  ASSUME TokensInv, NEW s \in Servers,
         \/ IssueSession(s)
         \/ \E c \in TokenCalls : RefreshSigns(c, s) \/ \E p \in Pods : IssueWorkerToken(c, s, p)
  PROVE  TokensInv'
<1>0. TokenTypes /\ SessionLife \in Nat /\ WorkerLife \in Nat /\ cookie \in Jtis \cup {NoToken}
      /\ clock \in Nat /\ epoch \in Nat \ {0} /\ serverKey \in [Servers -> 1..epoch] /\ revoked \subseteq Jtis
      /\ tokenCall \in [TokenCalls -> TokenCallRecord] /\ epoch <= epoch
  BY TokensAssumption DEF TokensInv, TokenTypes
<1>1. CASE IssueSession(s)
  <2>1. /\ SignJwt(s, "session", SessionLife, NoToken) /\ cookie' = Len(token')
        /\ UNCHANGED <<revoked, row, tokenCall, clock, epoch, serverKey, closed>>
    BY <1>1 DEF IssueSession, UnchangedTime
  <2>2. Len(token') \in Jtis'
    BY <1>0, <2>1, SignEffect
  <2> QED BY <1>0, <2>1, <2>2, SignedKeeps
<1>2. ASSUME NEW c \in TokenCalls, RefreshSigns(c, s) PROVE TokensInv'
  <2>0. /\ UNCHANGED <<revoked, row, clock, epoch, serverKey, cookie, closed>> /\ tokenCall[c].pc = "refresh"
        /\ tokenCall[c].jti \in Jtis /\ tokenCall[c] \in TokenCallRecord
    BY <1>0, <1>2 DEF RefreshSigns, UnchangedTime, Waiting, TokensInv, Holds
  <2>1. CASE tokenCall[c].jti \in revoked
    <3>1. Answer(c) /\ UNCHANGED <<token, accepted>>
      BY <1>2, <2>1 DEF RefreshSigns
    <3>2. /\ tokenCall' \in [TokenCalls -> TokenCallRecord] /\ tokenCall'[c].pc = "idle"
          /\ \A d \in TokenCalls \ {c} : tokenCall'[d] = tokenCall[d]
      BY <1>0, <3>1, AnswerStep
    <3>3. Holds(c)'
      BY <3>2 DEF Holds
    <3> QED BY <1>0, <2>0, <3>1, <3>2, <3>3, RowsStay
  <2>2. CASE tokenCall[c].jti \notin revoked
    <3>1. SignJwt(s, "session", SessionLife, NoToken)
      BY <1>2, <2>2 DEF RefreshSigns
    <3>2. Len(token') \in Jtis' /\ Jtis \subseteq Jtis' /\ Len(token') \in Nat
      BY <1>0, <3>1, SignEffect
    <3>3. PICK m \in TokenCallRecord : m = [tokenCall[c] EXCEPT !.pc = "revoke", !.new = Len(token')]
      BY <2>0, <3>2 DEF TokenCallRecord
    <3>4. m.pc = "revoke" /\ m.jti = tokenCall[c].jti /\ m.new = Len(token')
      BY <2>0, <3>3 DEF TokenCallRecord
    <3>5. tokenCall' = [tokenCall EXCEPT ![c] = m]
      BY <1>2, <2>2, <3>3 DEF RefreshSigns
    <3>6. /\ tokenCall' \in [TokenCalls -> TokenCallRecord] /\ tokenCall'[c] = m
          /\ \A d \in TokenCalls \ {c} : tokenCall'[d] = tokenCall[d]
      BY <1>0, <3>5, CallStep
    <3>7. Holds(c)'
      BY <2>0, <3>2, <3>4, <3>6 DEF Holds
    <3>8. cookie' \in Jtis' \cup {NoToken}
      BY <1>0, <2>0, <3>2
    <3> QED BY <1>0, <2>0, <3>1, <3>4, <3>6, <3>7, <3>8, SignedKeeps
  <2> QED BY <2>1, <2>2
<1>3. ASSUME NEW c \in TokenCalls, NEW p \in Pods, IssueWorkerToken(c, s, p) PROVE TokensInv'
  <2>1. /\ SignJwt(s, "worker", WorkerLife, p)
        /\ UNCHANGED <<revoked, row, clock, epoch, serverKey, cookie, closed>>
    BY <1>3 DEF IssueWorkerToken, UnchangedTime
  <2>2. Len(token') \in Jtis' /\ Jtis \subseteq Jtis' /\ Len(token') \in Nat
    BY <1>0, <2>1, SignEffect
  <2>3. PICK m \in TokenCallRecord : m = [IdleCall EXCEPT !.pc = "persist", !.jti = Len(token')]
    BY <2>2 DEF TokenCallRecord, IdleCall
  <2>4. m.pc = "persist" /\ m.jti = Len(token')
    BY <2>3 DEF IdleCall
  <2>5. tokenCall' = [tokenCall EXCEPT ![c] = m]
    BY <1>3, <2>3 DEF IssueWorkerToken
  <2>6. /\ tokenCall' \in [TokenCalls -> TokenCallRecord] /\ tokenCall'[c] = m
        /\ \A d \in TokenCalls \ {c} : tokenCall'[d] = tokenCall[d]
    BY <1>0, <2>5, CallStep
  <2>7. Holds(c)'
    BY <2>2, <2>4, <2>6 DEF Holds
  <2>8. cookie' \in Jtis' \cup {NoToken}
    BY <1>0, <2>1, <2>2
  <2> QED BY <1>0, <2>1, <2>4, <2>6, <2>7, <2>8, SignedKeeps
<1> QED BY <1>1, <1>2, <1>3

\* The steps that change a row, and leave the tokens.
LEMMA RowMoves ==
  ASSUME TokensInv, NEW c \in TokenCalls,
         UNCHANGED <<token, clock, epoch, serverKey, cookie>>,
         revoked' \subseteq Jtis, closed' \subseteq Jtis, DOMAIN row \subseteq DOMAIN row', DOMAIN row' \subseteq Jtis,
         row' \in [DOMAIN row' -> {"open", "consumed", "invalidated"}],
         accepted' \in [Jtis -> {0, 1}], accepted' \in Seq({0, 1}),
         tokenCall' \in [TokenCalls -> TokenCallRecord],
         \A d \in TokenCalls \ {c} : tokenCall'[d] = tokenCall[d],
         \A d \in TokenCalls \ {c} : tokenCall[d].pc = "record" =>
           /\ row'[tokenCall[d].jti] = row[tokenCall[d].jti]
           /\ accepted'[tokenCall[d].jti] = accepted[tokenCall[d].jti]
           /\ tokenCall'[c].pc = "record" => tokenCall'[c].jti # tokenCall[d].jti,
         Holds(c)', RowDecides'
  PROVE  TokensInv'
<1>1. Jtis' = Jtis /\ TokenTypes
  BY DEF Jtis, TokensInv
<1>2. TokenTypes'
  BY <1>1 DEF TokenTypes
<1>3. \A d \in TokenCalls : Holds(d)'
  BY <1>1, StillHolds DEF TokensInv
<1>4. OneRecorder'
  BY DEF TokensInv, OneRecorder
<1> QED BY <1>2, <1>3, <1>4 DEF TokensInv

\* A worker token's row is written.
LEMMA PersistKeeps ==
  ASSUME TokensInv, NEW c \in TokenCalls, PersistWorkerToken(c)
  PROVE  TokensInv'
<1>1. /\ TokenTypes /\ Holds(c) /\ tokenCall[c].jti \in Jtis
      /\ UNCHANGED <<token, clock, epoch, serverKey, cookie, revoked, accepted, closed>>
  BY DEF TokensInv, PersistWorkerToken, Waiting, Holds, UnchangedTime
<1>2. /\ DOMAIN row' = DOMAIN row \cup {tokenCall[c].jti}
      /\ \A j \in DOMAIN row' : row'[j] = IF j \in DOMAIN row THEN row[j] ELSE "open"
      /\ row' \in [DOMAIN row' -> {"open", "consumed", "invalidated"}]
  BY <1>1 DEF PersistWorkerToken, TokenTypes
<1>3. /\ tokenCall' \in [TokenCalls -> TokenCallRecord] /\ tokenCall'[c].pc = "idle"
      /\ \A d \in TokenCalls \ {c} : tokenCall'[d] = tokenCall[d]
  BY <1>1, AnswerStep DEF PersistWorkerToken
<1>4. Holds(c)'
  BY <1>3 DEF Holds
<1>5. RowDecides'
  <2>1. Jtis' = Jtis
    BY <1>1 DEF Jtis
  <2> QED BY <1>1, <1>2, <2>1 DEF TokensInv, RowDecides
<1>6. \A d \in TokenCalls \ {c} : tokenCall[d].pc = "record" => row'[tokenCall[d].jti] = row[tokenCall[d].jti]
  BY <1>2 DEF TokensInv, Holds
<1>7. revoked' \subseteq Jtis /\ closed' \subseteq Jtis /\ DOMAIN row' \subseteq Jtis
      /\ accepted' \in [Jtis -> {0, 1}] /\ accepted' \in Seq({0, 1})
  BY <1>1, <1>2 DEF TokenTypes
<1> QED BY <1>1, <1>2, <1>3, <1>4, <1>5, <1>6, <1>7, RowMoves

\* A row is consumed once: by the call that finds it open.
LEMMA ConsumeKeeps ==
  ASSUME TokensInv, NEW c \in TokenCalls, ConsumeRow(c)
  PROVE  TokensInv'
<1>1. /\ TokenTypes /\ Holds(c) /\ tokenCall[c].pc = "consume" /\ tokenCall[c].jti \in DOMAIN row
      /\ UNCHANGED <<token, clock, epoch, serverKey, cookie, revoked, accepted, closed>>
      /\ clock \in Nat /\ epoch \in Nat \ {0} /\ epoch <= epoch /\ serverKey \in [Servers -> 1..epoch]
      /\ revoked \subseteq Jtis /\ cookie \in Jtis \cup {NoToken} /\ Jtis' = Jtis
  BY DEF TokensInv, ConsumeRow, Waiting, Holds, UnchangedTime, TokenTypes, Jtis
<1>2. CASE Answer(c) /\ UNCHANGED row
  <2>1. /\ tokenCall' \in [TokenCalls -> TokenCallRecord] /\ tokenCall'[c].pc = "idle"
        /\ \A d \in TokenCalls \ {c} : tokenCall'[d] = tokenCall[d]
    BY <1>1, <1>2, AnswerStep
  <2>2. Holds(c)'
    BY <2>1 DEF Holds
  <2> QED BY <1>1, <1>2, <2>1, <2>2, RowsStay
<1>3. CASE /\ row[tokenCall[c].jti] = "open" /\ Goes(c, "record")
           /\ row' = [row EXCEPT ![tokenCall[c].jti] = "consumed"]
  <2>1. PICK j \in DOMAIN row : j = tokenCall[c].jti
    BY <1>1
  <2>2. row[j] = "open" /\ row' = [row EXCEPT ![j] = "consumed"]
    BY <1>3, <2>1
  <2>3. /\ DOMAIN row' = DOMAIN row /\ row'[j] = "consumed"
        /\ \A i \in DOMAIN row \ {j} : row'[i] = row[i]
        /\ row' \in [DOMAIN row' -> {"open", "consumed", "invalidated"}]
    BY <1>1, <2>2 DEF TokenTypes
  <2>4. /\ tokenCall' \in [TokenCalls -> TokenCallRecord] /\ tokenCall'[c].pc = "record"
        /\ tokenCall'[c].jti = j
        /\ \A d \in TokenCalls \ {c} : tokenCall'[d] = tokenCall[d]
    BY <1>1, <1>3, <2>1, GoesStep
  <2>5. j \in Jtis /\ accepted[j] = 0 /\ j \notin closed
    BY <1>1, <2>2 DEF TokenTypes, TokensInv, RowDecides
  <2>6. Holds(c)'
    BY <1>1, <2>3, <2>4, <2>5 DEF Holds
  <2>7. RowDecides'
    BY <1>1, <2>3, <2>5 DEF TokensInv, RowDecides
  <2>8. \A d \in TokenCalls \ {c} : tokenCall[d].pc = "record" =>
          tokenCall[d].jti # j /\ row'[tokenCall[d].jti] = row[tokenCall[d].jti]
    BY <2>2, <2>3 DEF TokensInv, Holds
  <2>9. DOMAIN row' \subseteq Jtis /\ closed' \subseteq Jtis /\ accepted' \in [Jtis -> {0, 1}] /\ accepted' \in Seq({0, 1})
    BY <1>1, <2>3 DEF TokenTypes
  <2> QED BY <1>1, <2>3, <2>4, <2>6, <2>7, <2>8, <2>9, RowMoves
<1> QED BY <1>2, <1>3 DEF ConsumeRow

\* A consumed token authorises its call.
LEMMA RecordKeeps ==
  ASSUME TokensInv, NEW c \in TokenCalls, RecordConsumed(c)
  PROVE  TokensInv'
<1>1. /\ TokenTypes /\ Holds(c) /\ tokenCall[c].pc = "record" /\ tokenCall[c].jti \in DOMAIN row
      /\ row[tokenCall[c].jti] = "consumed" /\ accepted[tokenCall[c].jti] = 0
      /\ UNCHANGED <<token, row, clock, epoch, serverKey, cookie, closed>> /\ Jtis' = Jtis
      /\ DOMAIN row \subseteq Jtis /\ accepted \in [Jtis -> {0, 1}] /\ accepted \in Seq({0, 1})
  BY DEF TokensInv, RecordConsumed, Waiting, Holds, UnchangedTime, TokenTypes, Jtis
<1>2. PICK j \in DOMAIN row : j = tokenCall[c].jti
  BY <1>1
<1>3. PICK n \in {0, 1} : accepted' = [accepted EXCEPT ![j] = n]
  <2>1. PICK fits \in BOOLEAN : accepted' = IF fits THEN [accepted EXCEPT ![j] = @ + 1] ELSE accepted
    BY <1>2 DEF RecordConsumed
  <2>2. accepted[j] = 0 /\ j \in Jtis
    BY <1>1, <1>2
  <2>3. CASE fits
    BY <2>1, <2>2, <2>3
  <2>4. CASE ~fits
    <3>1. accepted = [accepted EXCEPT ![j] = 0]
      BY <1>1, <2>2
    <3> QED BY <2>1, <2>4, <3>1
  <2> QED BY <2>3, <2>4
<1>4. /\ accepted' \in [Jtis -> {0, 1}] /\ accepted' \in Seq({0, 1})
      /\ \A i \in Jtis \ {j} : accepted'[i] = accepted[i]
  <2>1. j \in DOMAIN accepted /\ DOMAIN accepted = 1..Len(accepted)
    BY <1>1, <1>2
  <2> QED BY <1>1, <1>3, <2>1
<1>5. /\ tokenCall' \in [TokenCalls -> TokenCallRecord] /\ tokenCall'[c].pc = "idle"
      /\ \A d \in TokenCalls \ {c} : tokenCall'[d] = tokenCall[d]
  BY <1>1, AnswerStep DEF RecordConsumed
<1>6. Holds(c)'
  BY <1>5 DEF Holds
<1>7. RowDecides'
  BY <1>1, <1>2, <1>4 DEF TokensInv, RowDecides
<1>8. \A d \in TokenCalls \ {c} : tokenCall[d].pc = "record" => tokenCall[d].jti \in Jtis /\ tokenCall[d].jti # j
  BY <1>1, <1>2 DEF TokensInv, OneRecorder, Holds
<1>9. revoked' \subseteq Jtis /\ closed' \subseteq Jtis /\ row' \in [DOMAIN row' -> {"open", "consumed", "invalidated"}]
  BY <1>1, <1>2 DEF TokenTypes, RecordConsumed
<1> QED BY <1>1, <1>4, <1>5, <1>6, <1>7, <1>8, <1>9, RowMoves

\* A pod is cut off: its open rows are invalidated in one update.
LEMMA InvalidateKeeps ==
  ASSUME TokensInv, NEW c \in TokenCalls, NEW p \in Pods, InvalidatePod(c, p)
  PROVE  TokensInv'
<1>1. /\ TokenTypes /\ tokenCall[c].pc = "idle" /\ Jtis' = Jtis /\ Jtis \subseteq Nat
      /\ UNCHANGED <<token, clock, epoch, serverKey, cookie, revoked, accepted, closed>>
  BY JtisAre DEF TokensInv, InvalidatePod, Waiting, UnchangedTime, Jtis
<1>2. PICK gone : gone = {j \in DOMAIN row : token[j].pod = p /\ row[j] = "open"}
  OBVIOUS
<1>3. /\ row' = [j \in DOMAIN row |-> IF j \in gone THEN "invalidated" ELSE row[j]]
      /\ tokenCall' = [tokenCall EXCEPT ![c] = [IdleCall EXCEPT !.pc = "invalidate", !.pod = p, !.todo = gone]]
  BY <1>2 DEF InvalidatePod
<1>4. gone \subseteq DOMAIN row /\ (\A j \in gone : row[j] = "open") /\ gone \subseteq Jtis
  BY <1>1, <1>2 DEF TokenTypes
<1>5. /\ DOMAIN row' = DOMAIN row /\ (\A j \in gone : row'[j] = "invalidated")
      /\ \A i \in DOMAIN row \ gone : row'[i] = row[i]
      /\ row' \in [DOMAIN row' -> {"open", "consumed", "invalidated"}]
  BY <1>1, <1>3, <1>4 DEF TokenTypes
<1>6. PICK m \in TokenCallRecord : m = [IdleCall EXCEPT !.pc = "invalidate", !.pod = p, !.todo = gone]
  BY <1>1, <1>4 DEF TokenCallRecord, IdleCall
<1>7. m.pc = "invalidate" /\ m.todo = gone
  BY <1>6 DEF IdleCall
<1>8. /\ tokenCall' \in [TokenCalls -> TokenCallRecord] /\ tokenCall'[c] = m
      /\ \A d \in TokenCalls \ {c} : tokenCall'[d] = tokenCall[d]
  BY <1>1, <1>3, <1>6, CallStep
<1>9. Holds(c)'
  BY <1>1, <1>4, <1>7, <1>8 DEF Holds
<1>10. RowDecides'
  BY <1>1, <1>4, <1>5 DEF TokensInv, RowDecides
<1>11. \A d \in TokenCalls \ {c} : tokenCall[d].pc = "record" => row'[tokenCall[d].jti] = row[tokenCall[d].jti]
  BY <1>4, <1>5 DEF TokensInv, Holds
<1>12. /\ revoked' \subseteq Jtis /\ closed' \subseteq Jtis /\ DOMAIN row' \subseteq Jtis
       /\ accepted' \in [Jtis -> {0, 1}] /\ accepted' \in Seq({0, 1})
  BY <1>1, <1>5 DEF TokenTypes
<1> QED BY <1>1, <1>5, <1>7, <1>8, <1>9, <1>10, <1>11, <1>12, RowMoves

\* The tokens of the pod are revoked one by one, and then the pod is closed.
LEMMA CloseKeeps ==
  ASSUME TokensInv, NEW c \in TokenCalls, RevokeInvalidated(c)
  PROVE  TokensInv'
<1>1. /\ TokenTypes /\ Holds(c) /\ tokenCall[c].pc = "invalidate" /\ Jtis' = Jtis /\ tokenCall[c].todo \subseteq Jtis
      /\ UNCHANGED <<token, row, clock, epoch, serverKey, cookie, accepted>>
      /\ clock \in Nat /\ epoch \in Nat \ {0} /\ epoch <= epoch /\ serverKey \in [Servers -> 1..epoch]
      /\ revoked \subseteq Jtis /\ closed \subseteq Jtis /\ DOMAIN row \subseteq Jtis
      /\ cookie \in Jtis \cup {NoToken} /\ tokenCall[c] \in TokenCallRecord
  BY DEF TokensInv, RevokeInvalidated, Waiting, UnchangedTime, Jtis, TokenTypes, Holds
<1>2. CASE /\ Answer(c) /\ UNCHANGED revoked
           /\ closed' = closed \cup {j \in DOMAIN row : row[j] = "invalidated" /\ token[j].pod = tokenCall[c].pod}
  <2>1. /\ tokenCall' \in [TokenCalls -> TokenCallRecord] /\ tokenCall'[c].pc = "idle"
        /\ \A d \in TokenCalls \ {c} : tokenCall'[d] = tokenCall[d]
    BY <1>1, <1>2, AnswerStep
  <2>2. Holds(c)'
    BY <2>1 DEF Holds
  <2>3. RowDecides'
    BY <1>1, <1>2 DEF TokensInv, RowDecides
  <2>4. /\ revoked' \subseteq Jtis /\ closed' \subseteq Jtis
        /\ row' \in [DOMAIN row' -> {"open", "consumed", "invalidated"}]
        /\ accepted' \in [Jtis -> {0, 1}] /\ accepted' \in Seq({0, 1})
    BY <1>1, <1>2 DEF TokenTypes
  <2> QED BY <1>1, <2>1, <2>2, <2>3, <2>4, RowMoves
<1>3. ASSUME NEW j \in tokenCall[c].todo, revoked' = revoked \cup {j}, UNCHANGED closed,
             tokenCall' = [tokenCall EXCEPT ![c].todo = tokenCall[c].todo \ {j}]
      PROVE  TokensInv'
  <2>1. PICK m \in TokenCallRecord : m = [tokenCall[c] EXCEPT !.todo = tokenCall[c].todo \ {j}]
    BY <1>1 DEF TokenCallRecord
  <2>2. m.pc = "invalidate" /\ m.todo \subseteq Jtis /\ tokenCall' = [tokenCall EXCEPT ![c] = m]
    BY <1>1, <1>3, <2>1 DEF TokenCallRecord
  <2>3. /\ tokenCall' \in [TokenCalls -> TokenCallRecord] /\ tokenCall'[c] = m
        /\ \A d \in TokenCalls \ {c} : tokenCall'[d] = tokenCall[d]
    BY <1>1, <2>2, CallStep
  <2>4. Holds(c)'
    BY <1>1, <2>2, <2>3 DEF Holds
  <2>5. revoked' \subseteq Jtis
    BY <1>1, <1>3
  <2> QED BY <1>1, <1>3, <2>2, <2>3, <2>4, <2>5, RowsStay
<1> QED BY <1>2, <1>3 DEF RevokeInvalidated

-----------------------------------------------------------------------------
\* The invariant holds at the start and in every step.
THEOREM TokensInductive ==
  /\ TokensInit => TokensInv
  /\ TokensInv /\ [TokensNext]_tokenVars => TokensInv'
<1>1. ASSUME TokensInit PROVE TokensInv
  <2>1. /\ token = <<>> /\ revoked = {} /\ row = <<>> /\ clock = 0 /\ epoch = 1 /\ accepted = <<>> /\ closed = {}
        /\ cookie = NoToken /\ serverKey = [s \in Servers |-> 1] /\ tokenCall = [c \in TokenCalls |-> IdleCall]
    BY <1>1 DEF TokensInit
  <2>2. Jtis = {}
    BY <2>1 DEF Jtis
  <2>3. \A c \in TokenCalls : tokenCall[c].pc = "idle"
    BY <2>1, AtRest
  <2>4. token \in Seq(TokenRecord) /\ accepted \in Seq({0, 1}) /\ DOMAIN row = {}
    BY <2>1
  <2>5. row \in [DOMAIN row -> {"open", "consumed", "invalidated"}] /\ accepted \in [Jtis -> {0, 1}]
    <3>1. \A f : f = <<>> => f = [x \in {} |-> f[x]]
      OBVIOUS
    <3> QED BY <2>1, <2>2, <2>4, <3>1
  <2>6. serverKey \in [Servers -> 1..epoch] /\ tokenCall \in [TokenCalls -> TokenCallRecord]
    BY <2>1, AtRest
  <2>7. TokenTypes
    BY <2>1, <2>2, <2>4, <2>5, <2>6 DEF TokenTypes
  <2> QED BY <2>2, <2>3, <2>7 DEF TokensInv, Holds, OneRecorder, RowDecides
<1>2. ASSUME TokensInv, TokensNext PROVE TokensInv'
  <2>1. CASE Logout \/ Tick \/ CleanupExpiredRevocations \/ RotateKey \/ \E s \in Servers : Restart(s)
    BY <1>2, <2>1, WorldKeepsTokens
  <2>2. CASE \E s \in Servers : IssueSession(s)
    BY <1>2, <2>2, SignersKeep
  <2>3. ASSUME NEW c \in TokenCalls,
               \/ RefreshRevokes(c) \/ PersistWorkerToken(c) \/ CheckRevoked(c) \/ ConsumeRow(c)
               \/ RecordConsumed(c) \/ RevokeInvalidated(c) \/ LoseCall(c)
               \/ \E s \in Servers : StartRefresh(c, s) \/ RefreshSigns(c, s)
               \/ \E s \in Servers, p \in Pods : IssueWorkerToken(c, s, p)
               \/ \E s \in Servers, j \in Jtis : StartConsume(c, s, j)
               \/ \E p \in Pods : InvalidatePod(c, p)
        PROVE  TokensInv'
    <3>1. CASE \/ \E s \in Servers : StartRefresh(c, s)
               \/ RefreshRevokes(c) \/ CheckRevoked(c) \/ LoseCall(c)
               \/ \E s \in Servers, j \in Jtis : StartConsume(c, s, j)
      BY <1>2, <3>1, CallsKeep
    <3>2. CASE \/ \E s \in Servers : RefreshSigns(c, s)
               \/ \E s \in Servers, p \in Pods : IssueWorkerToken(c, s, p)
      BY <1>2, <3>2, SignersKeep
    <3>3. CASE PersistWorkerToken(c) \/ ConsumeRow(c) \/ RecordConsumed(c) \/ RevokeInvalidated(c)
      BY <1>2, <3>3, PersistKeeps, ConsumeKeeps, RecordKeeps, CloseKeeps
    <3>4. CASE \E p \in Pods : InvalidatePod(c, p)
      BY <1>2, <3>4, InvalidateKeeps
    <3> QED BY <2>3, <3>1, <3>2, <3>3, <3>4
  <2> QED BY <1>2, <2>1, <2>2, <2>3 DEF TokensNext
<1>3. ASSUME TokensInv, UNCHANGED tokenVars PROVE TokensInv'
  <2>1. Jtis' = Jtis
    BY <1>3 DEF tokenVars, Jtis
  <2> QED BY <1>3, <2>1 DEF tokenVars, TokensInv, TokenTypes, Holds, OneRecorder, RowDecides
<1> QED BY <1>1, <1>2, <1>3

\* A worker token authorises one call at most, and none once its pod has been cut
\* off (SpentOnce), and every token, row and request is well formed (TokensTypeOK).
THEOREM TokensCorrect == TokensSpec => [](TokensTypeOK /\ SpentOnce)
<1>1. ASSUME TokensInv PROVE TokensTypeOK /\ SpentOnce
  <2>1. TokensTypeOK
    <3>1. TokenTypes /\ token \in Seq(TokenRecord) /\ Jtis = 1..Len(token)
      BY <1>1, JtisAre DEF TokensInv, TokenTypes
    <3>2. \A j \in 1..Len(token) : token[j] \in TokenRecord
      BY <3>1
    <3>3. \A j \in Jtis : token[j].kind \in {"session", "worker"} /\ token[j].key \in 1..epoch
      BY <3>1, <3>2 DEF TokenTypes, TokenRecord
    <3>4. \A j \in DOMAIN row : row[j] \in {"open", "consumed", "invalidated"}
      BY <3>1 DEF TokenTypes
    <3> QED BY <3>1, <3>3, <3>4 DEF TokensTypeOK, TokenTypes
  <2>2. SpentOnce
    <3>1. \A j \in Jtis : accepted[j] \in {0, 1}
      BY <1>1 DEF TokensInv, TokenTypes
    <3>2. \A j \in Jtis : accepted[j] <= 1
      BY <3>1
    <3>3. \A j \in Jtis : j \in closed => accepted[j] # 1
      BY <1>1 DEF TokensInv, RowDecides
    <3> QED BY <3>1, <3>2, <3>3 DEF SpentOnce
  <2> QED BY <2>1, <2>2
<1> QED BY <1>1, TokensInductive, PTL DEF TokensSpec

-----------------------------------------------------------------------------
(* Provisioning of the cloud.                                              *)

Doings == {"doctor", "look", "check", "ask", "operation", "operation ended", "starting",
           "start ended", "state", "failed", "complete"}

ScriptRecord == [at : 1..11, reruns : 0..MaxReruns, doing : Doings]

ProvisionTypes ==
  /\ cloud \in [Resources -> {"absent", "building", "ready", "failed", "stopped"}]
  /\ script \in [Operators -> ScriptRecord]

\* What is there stands on what it needs.
Rooted == \A r \in Resources : cloud[r] # "absent" => \A n \in Needs[r] : cloud[n] = "ready"

\* A run that is past the instance has seen it ready, and only the machine is started.
Placed(o) ==
  /\ script[o].at > 9 => cloud["instance"] = "ready"
  /\ script[o].doing \in {"starting", "start ended"} => script[o].at = 10
  /\ script[o].doing \notin {"doctor", "look", "failed", "complete"} => script[o].at <= 10

ProvisionInv == ProvisionTypes /\ Rooted /\ \A o \in Operators : Placed(o)

\* No resource but the machine is lost once it is ready.
ReadyStays == \A r \in Resources \ {"vm"} : cloud[r] = "ready" => cloud'[r] = "ready"

-----------------------------------------------------------------------------
\* The list and the place of each resource in it.
LEMMA TheOrder ==
  /\ Len(Order) = 11
  /\ Resources = {"services", "network", "subnet", "ssh rule", "app rule", "range",
                  "connection", "cluster", "instance", "vm"}
  /\ \A i \in 1..11 : /\ Order[i] = "instance" <=> i = 9
                      /\ Order[i] = "vm" <=> i = 10
                      /\ Order[i] = "port" <=> i = 11
                      /\ Order[i] # "port" => Order[i] \in Resources
<1>1. Len(Order) = 11
  BY DEF Order
<1>2. /\ Order[1] = "services" /\ Order[2] = "network" /\ Order[3] = "subnet" /\ Order[4] = "ssh rule"
      /\ Order[5] = "app rule" /\ Order[6] = "range" /\ Order[7] = "connection" /\ Order[8] = "cluster"
      /\ Order[9] = "instance" /\ Order[10] = "vm" /\ Order[11] = "port"
  BY DEF Order
<1>3. Resources = {Order[i] : i \in 1..10}
  BY <1>1 DEF Resources
<1>4. \A i \in 1..10 : i = 1 \/ i = 2 \/ i = 3 \/ i = 4 \/ i = 5 \/ i = 6 \/ i = 7 \/ i = 8 \/ i = 9 \/ i = 10
  OBVIOUS
<1>8. /\ 1 \in 1..10 /\ 2 \in 1..10 /\ 3 \in 1..10 /\ 4 \in 1..10 /\ 5 \in 1..10
      /\ 6 \in 1..10 /\ 7 \in 1..10 /\ 8 \in 1..10 /\ 9 \in 1..10 /\ 10 \in 1..10
  OBVIOUS
<1>9. /\ Order[1] \in Resources /\ Order[2] \in Resources /\ Order[3] \in Resources
      /\ Order[4] \in Resources /\ Order[5] \in Resources /\ Order[6] \in Resources
      /\ Order[7] \in Resources /\ Order[8] \in Resources /\ Order[9] \in Resources
      /\ Order[10] \in Resources
  BY <1>3, <1>8
<1>5. Resources = {"services", "network", "subnet", "ssh rule", "app rule", "range",
                   "connection", "cluster", "instance", "vm"}
  <2>1. ASSUME NEW x \in Resources
        PROVE  x \in {"services", "network", "subnet", "ssh rule", "app rule", "range",
                      "connection", "cluster", "instance", "vm"}
    <3>1. PICK i \in 1..10 : x = Order[i]
      BY <1>3
    <3>2. i = 1 \/ i = 2 \/ i = 3 \/ i = 4 \/ i = 5 \/ i = 6 \/ i = 7 \/ i = 8 \/ i = 9 \/ i = 10
      BY <1>4
    <3> QED BY <1>2, <3>1, <3>2
  <2>2. ASSUME NEW x \in {"services", "network", "subnet", "ssh rule", "app rule", "range",
                          "connection", "cluster", "instance", "vm"}
        PROVE  x \in Resources
    BY <1>2, <1>9
  <2> QED BY <2>1, <2>2
<1>6. \A i \in 1..11 : i \in 1..10 \/ i = 11
  OBVIOUS
<1>7. \A i \in 1..10 : Order[i] # "port" /\ (Order[i] = "instance" <=> i = 9) /\ (Order[i] = "vm" <=> i = 10)
  BY <1>2, <1>4
<1> QED BY <1>1, <1>2, <1>3, <1>5, <1>6, <1>7

\* What a resource needs is a resource too, and never the machine.
LEMMA NeedsAre ==
  /\ \A r \in Resources : Needs[r] \subseteq Resources \ {"vm"}
  /\ Needs["vm"] = {"subnet"} /\ Needs["subnet"] = {"network"} /\ Needs["network"] = {"services"}
  /\ Needs["instance"] = {"cluster"} /\ Needs["cluster"] = {"connection"} /\ Needs["connection"] = {"range"}
<1>1. \A r \in Resources : Needs[r] =
        CASE r = "services"   -> {}
          [] r = "network"    -> {"services"}
          [] r \in {"subnet", "ssh rule", "app rule", "range"} -> {"network"}
          [] r = "connection" -> {"range"}
          [] r = "cluster"    -> {"connection"}
          [] r = "instance"   -> {"cluster"}
          [] r = "vm"         -> {"subnet"}
  BY DEF Needs
<1>2. /\ Needs["services"] = {} /\ Needs["network"] = {"services"} /\ Needs["subnet"] = {"network"}
      /\ Needs["ssh rule"] = {"network"} /\ Needs["app rule"] = {"network"} /\ Needs["range"] = {"network"}
      /\ Needs["connection"] = {"range"} /\ Needs["cluster"] = {"connection"}
      /\ Needs["instance"] = {"cluster"} /\ Needs["vm"] = {"subnet"}
  BY <1>1, TheOrder
<1>3. \A r \in Resources :
        /\ Needs[r] = {} \/ Needs[r] = {"services"} \/ Needs[r] = {"network"} \/ Needs[r] = {"range"}
           \/ Needs[r] = {"connection"} \/ Needs[r] = {"cluster"} \/ Needs[r] = {"subnet"}
  BY <1>2, TheOrder
<1>4. /\ "services" \in Resources \ {"vm"} /\ "network" \in Resources \ {"vm"} /\ "range" \in Resources \ {"vm"}
      /\ "connection" \in Resources \ {"vm"} /\ "cluster" \in Resources \ {"vm"} /\ "subnet" \in Resources \ {"vm"}
  BY TheOrder
<1>5. \A r \in Resources : Needs[r] \subseteq Resources \ {"vm"}
  BY <1>3, <1>4
<1> QED BY <1>2, <1>5

\* The step of one run.
LEMMA ScriptStep ==
  ASSUME ProvisionInv, NEW o \in Operators, NEW m \in ScriptRecord, script' = [script EXCEPT ![o] = m],
         cloud' \in [Resources -> {"absent", "building", "ready", "failed", "stopped"}], Rooted', ReadyStays,
         m.at > 9 => cloud'["instance"] = "ready",
         m.doing \in {"starting", "start ended"} => m.at = 10,
         m.doing \notin {"doctor", "look", "failed", "complete"} => m.at <= 10
  PROVE  ProvisionInv'
<1>1. /\ script' \in [Operators -> ScriptRecord] /\ script'[o] = m
      /\ \A p \in Operators \ {o} : script'[p] = script[p]
  BY DEF ProvisionInv, ProvisionTypes
<1>2. cloud["instance"] = "ready" => cloud'["instance"] = "ready"
  BY TheOrder DEF ReadyStays
<1>3. \A p \in Operators : Placed(p)'
  BY <1>1, <1>2 DEF ProvisionInv, Placed
<1> QED BY <1>1, <1>3 DEF ProvisionInv, ProvisionTypes

\* A run stays where it is and does something else there.
LEMMA BecomesStep ==
  ASSUME ProvisionInv, NEW o \in Operators, NEW what \in Doings, Becomes(o, what),
         cloud' \in [Resources -> {"absent", "building", "ready", "failed", "stopped"}], Rooted', ReadyStays,
         what \in {"starting", "start ended"} => script[o].at = 10,
         what \notin {"doctor", "look", "failed", "complete"} => script[o].at <= 10
  PROVE  ProvisionInv'
<1>1. script[o] \in ScriptRecord /\ Placed(o) /\ "instance" \in Resources \ {"vm"}
  BY TheOrder DEF ProvisionInv, ProvisionTypes
<1>2. PICK m \in ScriptRecord : m = [script[o] EXCEPT !.doing = what]
  BY <1>1 DEF ScriptRecord
<1>3. m.doing = what /\ m.at = script[o].at
  BY <1>1, <1>2 DEF ScriptRecord
<1>4. script' = [script EXCEPT ![o] = m]
  BY <1>2 DEF Becomes
<1>5. m.at > 9 => cloud'["instance"] = "ready"
  BY <1>1, <1>3 DEF Placed, ReadyStays
<1> QED BY <1>3, <1>4, <1>5, ScriptStep

\* A run goes on to the next resource: past the instance only when it is ready.
LEMMA MoveOnStep ==
  ASSUME ProvisionInv, NEW o \in Operators, MoveOn(o), UNCHANGED cloud, script[o].at <= 10,
         script[o].at = 9 => cloud["instance"] = "ready"
  PROVE  ProvisionInv'
<1>1. script[o] \in ScriptRecord /\ Placed(o)
  BY DEF ProvisionInv, ProvisionTypes
<1>6. script[o].at \in 1..11
  BY <1>1 DEF ScriptRecord
<1>9. script[o].at + 1 \in 1..11
  BY <1>6
<1>2. script[o].at + 1 \in 1..11 /\ "look" \in Doings
  BY <1>9 DEF Doings
<1>3. PICK m \in ScriptRecord : m = [script[o] EXCEPT !.at = script[o].at + 1, !.doing = "look"]
  BY <1>1, <1>2 DEF ScriptRecord
<1>4. m.doing = "look" /\ m.at = script[o].at + 1
  BY <1>1, <1>3 DEF ScriptRecord
<1>5. script' = [script EXCEPT ![o] = m]
  BY <1>3 DEF MoveOn
<1>10. m.at > 9 => script[o].at = 9 \/ script[o].at > 9
  BY <1>4, <1>6
<1>7. m.at > 9 => cloud'["instance"] = "ready"
  BY <1>1, <1>10 DEF Placed
<1>8. cloud' \in [Resources -> {"absent", "building", "ready", "failed", "stopped"}] /\ Rooted' /\ ReadyStays
  BY DEF ProvisionInv, ProvisionTypes, Rooted, ReadyStays
<1> QED BY <1>4, <1>5, <1>7, <1>8, ScriptStep

\* The facts about a run that its steps rely on.
LEMMA RunFacts ==
  ASSUME ProvisionInv, NEW o \in Operators
  PROVE  /\ script[o] \in ScriptRecord /\ Placed(o) /\ script[o].at \in 1..11
         /\ ResourceAt(o) # "port" => ResourceAt(o) \in Resources
         /\ ResourceAt(o) = "instance" <=> script[o].at = 9
         /\ ResourceAt(o) = "vm" <=> script[o].at = 10
         /\ ResourceAt(o) = "port" <=> script[o].at = 11
         /\ {"instance", "vm"} \subseteq Resources
<1>1. script[o] \in ScriptRecord /\ Placed(o)
  BY DEF ProvisionInv, ProvisionTypes
<1>2. script[o].at \in 1..11
  BY <1>1 DEF ScriptRecord
<1> QED BY <1>1, <1>2, TheOrder DEF ResourceAt

\* The steps that leave the cloud as it is.
LEMMA CloudStays ==
  ASSUME ProvisionInv, UNCHANGED cloud
  PROVE  cloud' \in [Resources -> {"absent", "building", "ready", "failed", "stopped"}] /\ Rooted' /\ ReadyStays
BY DEF ProvisionInv, ProvisionTypes, Rooted, ReadyStays

\* A script that looks, checks, waits, gives up or is started again.
LEMMA LookersKeep ==
  ASSUME ProvisionInv, NEW o \in Operators, UNCHANGED cloud,
         \/ Doctor(o) \/ SkipDoctor(o) \/ Look(o) \/ LookAgain(o) \/ ConnectionRefused(o)
         \/ OperationEnds(o) \/ VmStarted(o) \/ WaitReady(o) \/ Port(o)
         \/ RequestFails(o) \/ TokenFails(o) \/ WaitsTooLong(o) \/ ServicesEnabled(o)
  PROVE  ProvisionInv'
<1>1. ASSUME Throw(o) PROVE ProvisionInv'
  BY <1>1, CloudStays, BecomesStep DEF Throw, Doings
<1>2. ASSUME NEW what \in {"look", "check", "ask", "operation ended", "state", "complete"}, Becomes(o, what),
             what \in {"look", "complete"} \/ script[o].at <= 10 PROVE ProvisionInv'
  BY <1>2, CloudStays, BecomesStep DEF Doings
<1>3. ASSUME MoveOn(o), script[o].at <= 10, script[o].at = 9 => cloud["instance"] = "ready" PROVE ProvisionInv'
  BY <1>3, MoveOnStep
<1>4. script[o].at # 11 => script[o].at <= 10
  BY RunFacts
<1>5. CASE Doctor(o) \/ SkipDoctor(o)
  BY <1>1, <1>2, <1>5 DEF Doctor, SkipDoctor
<1>6. CASE Look(o)
  <2>1. ResourceAt(o) # "port" /\ script[o].at <= 10
    BY <1>4, <1>6, RunFacts DEF Look
  <2>2. Becomes(o, "ask") \/ Becomes(o, "check") \/ (MoveOn(o) /\ ResourceAt(o) \notin ReadBack)
    BY <1>6 DEF Look, ReadBack
  <2>3. ResourceAt(o) \notin ReadBack => script[o].at # 9
    BY RunFacts DEF ReadBack
  <2> QED BY <1>2, <1>3, <2>1, <2>2, <2>3
<1>7. CASE LookAgain(o)
  <2>1. script[o].at <= 10
    BY <1>7, RunFacts DEF Placed, LookAgain, Doing
  <2>2. (MoveOn(o) /\ cloud[ResourceAt(o)] = "ready") \/ Becomes(o, "state")
    BY <1>7 DEF LookAgain
  <2> QED BY <1>2, <1>3, <2>1, <2>2, RunFacts
<1>8. CASE ConnectionRefused(o)
  <2>1. script[o].at <= 10 /\ script[o].at # 9
    BY <1>8, RunFacts DEF Placed, ConnectionRefused, Doing
  <2> QED BY <1>3, <1>8, <2>1 DEF ConnectionRefused
<1>9. CASE OperationEnds(o)
  <2>1. script[o].at <= 10
    BY <1>9, RunFacts DEF Placed, OperationEnds, Doing
  <2>2. Becomes(o, "check") \/ (MoveOn(o) /\ ResourceAt(o) \notin ReadBack)
    BY <1>9 DEF OperationEnds
  <2>3. ResourceAt(o) \notin ReadBack => script[o].at # 9
    BY RunFacts DEF ReadBack
  <2> QED BY <1>2, <1>3, <2>1, <2>2, <2>3
<1>10. CASE VmStarted(o)
  <2>1. script[o].at = 10
    BY <1>10, RunFacts DEF Placed, VmStarted, Doing
  <2>2. script[o].at <= 10 /\ script[o].at # 9
    BY <2>1
  <2> QED BY <1>3, <1>10, <2>2 DEF VmStarted
<1>11. CASE WaitReady(o)
  <2>1. script[o].at <= 10
    BY <1>11, RunFacts DEF Placed, WaitReady, Doing
  <2>2. (MoveOn(o) /\ cloud[ResourceAt(o)] = "ready") \/ Throw(o)
    BY <1>11 DEF WaitReady
  <2> QED BY <1>1, <1>3, <2>1, <2>2, RunFacts
<1>12. CASE Port(o)
  BY <1>2, <1>12 DEF Port
<1>13. CASE RequestFails(o) \/ TokenFails(o) \/ WaitsTooLong(o)
  BY <1>1, <1>13 DEF RequestFails, TokenFails, WaitsTooLong
<1>14. CASE ServicesEnabled(o)
  <2>1. script[o].at <= 10
    BY <1>14, RunFacts DEF Placed, ServicesEnabled, Doing
  <2> QED BY <1>2, <1>14, <2>1 DEF ServicesEnabled
<1> QED BY <1>5, <1>6, <1>7, <1>8, <1>9, <1>10, <1>11, <1>12, <1>13, <1>14

\* A failed run is started again from the first resource.
LEMMA RerunKeeps ==
  ASSUME ProvisionInv, NEW o \in Operators, Rerun(o)
  PROVE  ProvisionInv'
<1>1. script[o] \in ScriptRecord /\ UNCHANGED cloud /\ script[o].reruns < MaxReruns /\ MaxReruns \in Nat
  BY RunFacts, ProvisionAssumption DEF Rerun
<1>2. script[o].reruns + 1 \in 0..MaxReruns
  <2>1. script[o].reruns \in 0..MaxReruns
    BY <1>1 DEF ScriptRecord
  <2> QED BY <1>1, <2>1
<1>3. 1 \in 1..11 /\ "doctor" \in Doings
  BY DEF Doings
<1>4. PICK m \in ScriptRecord : m = [at |-> 1, doing |-> "doctor", reruns |-> script[o].reruns + 1]
  BY <1>2, <1>3 DEF ScriptRecord
<1>5. script' = [script EXCEPT ![o] = m] /\ m.at = 1 /\ m.doing = "doctor"
  BY <1>4 DEF Rerun
<1>6. ~(m.at > 9)
  BY <1>5
<1> QED BY <1>1, <1>5, <1>6, CloudStays, ScriptStep

\* A resource is asked for, or the machine is started.
LEMMA AskersKeep ==
  ASSUME ProvisionInv, NEW o \in Operators, Ask(o) \/ StartVm(o)
  PROVE  ProvisionInv'
<1>1. script[o].at <= 10 /\ Placed(o)
  BY RunFacts DEF Placed, Ask, StartVm, Doing
<1>2. cloud \in [Resources -> {"absent", "building", "ready", "failed", "stopped"}] /\ Rooted
  BY DEF ProvisionInv, ProvisionTypes
<1>3. ASSUME NEW r \in Resources, cloud' = [cloud EXCEPT ![r] = "building"],
             cloud[r] # "ready" \/ r = "vm", \A n \in Needs[r] : cloud[n] = "ready"
      PROVE  /\ cloud' \in [Resources -> {"absent", "building", "ready", "failed", "stopped"}]
             /\ Rooted' /\ ReadyStays
  <2>1. /\ cloud' \in [Resources -> {"absent", "building", "ready", "failed", "stopped"}]
        /\ \A q \in Resources \ {r} : cloud'[q] = cloud[q]
    BY <1>2, <1>3
  <2>2. ReadyStays
    BY <1>3, <2>1 DEF ReadyStays
  <2>3. ASSUME NEW q \in Resources, cloud'[q] # "absent", NEW n \in Needs[q] PROVE cloud'[n] = "ready"
    <3>1. cloud[n] = "ready"
      BY <1>2, <1>3, <2>1, <2>3 DEF Rooted
    <3>2. n \in Resources \ {"vm"}
      BY NeedsAre
    <3> QED BY <2>2, <3>1, <3>2 DEF ReadyStays
  <2> QED BY <2>1, <2>2, <2>3 DEF Rooted
<1>4. ASSUME UNCHANGED cloud, Throw(o) PROVE ProvisionInv'
  BY <1>4, CloudStays, BecomesStep DEF Throw, Doings
<1>5. CASE Ask(o)
  <2>1. ASSUME ResourceAt(o) \in Resources, cloud[ResourceAt(o)] = "absent",
               \A n \in Needs[ResourceAt(o)] : cloud[n] = "ready",
               cloud' = [cloud EXCEPT ![ResourceAt(o)] = "building"], Becomes(o, "operation")
        PROVE  ProvisionInv'
    BY <1>1, <1>3, <2>1, BecomesStep DEF Doings
  <2>2. ASSUME UNCHANGED cloud, Becomes(o, "operation") PROVE ProvisionInv'
    BY <1>1, <2>2, CloudStays, BecomesStep DEF Doings
  <2>3. ResourceAt(o) \in Resources
    BY <1>1, RunFacts
  <2> QED BY <1>4, <1>5, <2>1, <2>2, <2>3 DEF Ask
<1>6. CASE StartVm(o)
  <2>1. script[o].at = 10 /\ "vm" \in Resources
    BY <1>6, RunFacts DEF StartVm
  <2>2. CASE MoveOn(o) /\ UNCHANGED cloud
    BY <1>1, <2>1, <2>2, MoveOnStep
  <2>3. CASE Throw(o) /\ UNCHANGED cloud
    BY <1>4, <2>3
  <2>4. CASE cloud["vm"] # "absent" /\ cloud' = [cloud EXCEPT !["vm"] = "building"] /\ Becomes(o, "starting")
    <3>1. \A n \in Needs["vm"] : cloud[n] = "ready"
      BY <1>2, <2>1, <2>4 DEF Rooted
    <3> QED BY <1>1, <1>3, <2>1, <2>4, <3>1, BecomesStep DEF Doings
  <2> QED BY <1>6, <2>2, <2>3, <2>4 DEF StartVm
<1> QED BY <1>5, <1>6

\* The cloud ends what it builds: every run that polls the operation learns of it.
LEMMA SettleKeeps ==
  ASSUME ProvisionInv, NEW r \in Resources, CloudSettles(r)
  PROVE  ProvisionInv'
<1>1. PICK works \in BOOLEAN :
        /\ cloud' = [cloud EXCEPT ![r] =
             IF works THEN "ready" ELSE IF r \in {"cluster", "instance"} THEN "failed"
             ELSE IF r = "vm" THEN "stopped" ELSE "absent"]
        /\ script' = [o \in Operators |->
             IF ResourceAt(o) = r /\ script[o].doing \in {"operation", "starting"}
             THEN [script[o] EXCEPT !.doing =
                    IF ~works THEN "failed" ELSE IF @ = "operation" THEN "operation ended" ELSE "start ended"]
             ELSE script[o]]
  BY DEF CloudSettles
<1>2. /\ cloud \in [Resources -> {"absent", "building", "ready", "failed", "stopped"}] /\ Rooted /\ cloud[r] = "building"
      /\ script \in [Operators -> ScriptRecord]
  BY DEF ProvisionInv, ProvisionTypes, CloudSettles
<1>3. /\ cloud' \in [Resources -> {"absent", "building", "ready", "failed", "stopped"}]
      /\ \A q \in Resources \ {r} : cloud'[q] = cloud[q]
  <2>1. PICK now \in {"absent", "ready", "failed", "stopped"} : cloud' = [cloud EXCEPT ![r] = now]
    BY <1>1
  <2> QED BY <1>2, <2>1
<1>4. ReadyStays
  BY <1>2, <1>3 DEF ReadyStays
<1>5. Rooted'
  <2>1. ASSUME NEW q \in Resources, cloud'[q] # "absent", NEW n \in Needs[q] PROVE cloud'[n] = "ready"
    <3>1. cloud[q] # "absent"
      BY <1>2, <1>3, <2>1
    <3>2. n \in Resources \ {"vm"} /\ cloud[n] = "ready"
      BY <1>2, <2>1, <3>1, NeedsAre DEF Rooted
    <3> QED BY <1>4, <3>2 DEF ReadyStays
  <2> QED BY <2>1 DEF Rooted
<1>6. ASSUME NEW o \in Operators PROVE script'[o] \in ScriptRecord /\ Placed(o)'
  <2>1. script[o] \in ScriptRecord /\ Placed(o) /\ "instance" \in Resources \ {"vm"}
    BY RunFacts
  <2>2. cloud["instance"] = "ready" => cloud'["instance"] = "ready"
    BY <1>4, <2>1 DEF ReadyStays
  <2>3. CASE script'[o] = script[o]
    BY <2>1, <2>2, <2>3 DEF Placed
  <2>4. CASE script[o].doing \in {"operation", "starting"} /\ script'[o] # script[o]
    <3>1. PICK now \in {"failed", "operation ended", "start ended"} :
            /\ now = IF ~works THEN "failed" ELSE IF script[o].doing = "operation" THEN "operation ended" ELSE "start ended"
            /\ script'[o] = [script[o] EXCEPT !.doing = now]
      BY <1>1, <2>4
    <3>2. script'[o] \in ScriptRecord /\ script'[o].doing = now /\ script'[o].at = script[o].at
      BY <2>1, <3>1 DEF ScriptRecord, Doings
    <3>3. now = "start ended" => script[o].doing = "starting"
      BY <2>4, <3>1
    <3> QED BY <2>1, <2>2, <2>4, <3>2, <3>3 DEF Placed
  <2>5. script'[o] # script[o] => script[o].doing \in {"operation", "starting"}
    BY <1>1
  <2> QED BY <2>3, <2>4, <2>5
<1>7. script' \in [Operators -> ScriptRecord]
  <2>1. DOMAIN script' = Operators /\ script' = [o \in Operators |-> script'[o]]
    BY <1>1
  <2> QED BY <1>6, <2>1
<1> QED BY <1>3, <1>5, <1>6, <1>7 DEF ProvisionInv, ProvisionTypes

\* The machine stops.
LEMMA VmStopsKeeps ==
  ASSUME ProvisionInv, VmStops
  PROVE  ProvisionInv'
<1>1. "vm" \in Resources /\ "instance" \in Resources \ {"vm"}
  BY TheOrder
<1>2. /\ cloud \in [Resources -> {"absent", "building", "ready", "failed", "stopped"}] /\ Rooted
      /\ cloud["vm"] = "ready" /\ cloud' = [cloud EXCEPT !["vm"] = "stopped"] /\ UNCHANGED script
  BY DEF ProvisionInv, ProvisionTypes, VmStops
<1>3. /\ cloud' \in [Resources -> {"absent", "building", "ready", "failed", "stopped"}]
      /\ \A q \in Resources \ {"vm"} : cloud'[q] = cloud[q]
  BY <1>1, <1>2
<1>4. Rooted'
  <2>1. ASSUME NEW q \in Resources, cloud'[q] # "absent", NEW n \in Needs[q] PROVE cloud'[n] = "ready"
    <3>1. cloud[q] # "absent"
      BY <1>2, <1>3, <2>1
    <3>2. n \in Resources \ {"vm"} /\ cloud[n] = "ready"
      BY <1>2, <2>1, <3>1, NeedsAre DEF Rooted
    <3> QED BY <1>3, <3>2
  <2> QED BY <2>1 DEF Rooted
<1>5. \A o \in Operators : Placed(o)'
  BY <1>1, <1>2, <1>3 DEF ProvisionInv, Placed
<1> QED BY <1>2, <1>3, <1>4, <1>5 DEF ProvisionInv, ProvisionTypes

-----------------------------------------------------------------------------
\* The invariant holds at the start and in every step.
THEOREM ProvisionInductive ==
  /\ ProvisionInit => ProvisionInv
  /\ ProvisionInv /\ [ProvisionNext]_provisionVars => ProvisionInv'
<1>1. ASSUME ProvisionInit PROVE ProvisionInv
  <2>1. PICK m : m = [at |-> 1, doing |-> "doctor", reruns |-> 0]
    OBVIOUS
  <2>2. 1 \in 1..11 /\ 0 \in 0..MaxReruns
    BY ProvisionAssumption
  <2>3. m \in ScriptRecord /\ m.at = 1 /\ m.doing = "doctor"
    BY <2>1, <2>2 DEF ScriptRecord, Doings
  <2>4. script = [o \in Operators |-> m] /\ cloud = [r \in Resources |-> "absent"]
    BY <1>1, <2>1 DEF ProvisionInit
  <2>5. ~(1 > 9)
    OBVIOUS
  <2>6. \A o \in Operators : Placed(o)
    BY <2>3, <2>4, <2>5 DEF Placed
  <2> QED BY <2>3, <2>4, <2>6 DEF ProvisionInv, ProvisionTypes, Rooted
<1>2. ASSUME ProvisionInv, ProvisionNext PROVE ProvisionInv'
  <2>1. ASSUME NEW o \in Operators,
               \/ Doctor(o) \/ SkipDoctor(o) \/ Look(o) \/ LookAgain(o) \/ ConnectionRefused(o)
               \/ OperationEnds(o) \/ VmStarted(o) \/ WaitReady(o) \/ Port(o)
               \/ RequestFails(o) \/ TokenFails(o) \/ WaitsTooLong(o) \/ ServicesEnabled(o)
        PROVE  ProvisionInv'
    <3>1. UNCHANGED cloud
      BY <2>1 DEF Doctor, SkipDoctor, Look, LookAgain, ConnectionRefused, OperationEnds, VmStarted, WaitReady, Port,
                  RequestFails, TokenFails, WaitsTooLong, ServicesEnabled
    <3> QED BY <1>2, <2>1, <3>1, LookersKeep
  <2>2. ASSUME NEW o \in Operators, Ask(o) \/ StartVm(o) PROVE ProvisionInv'
    BY <1>2, <2>2, AskersKeep
  <2> QED BY <1>2, <2>1, <2>2, RerunKeeps, SettleKeeps, VmStopsKeeps DEF ProvisionNext
<1>3. ASSUME ProvisionInv, UNCHANGED provisionVars PROVE ProvisionInv'
  BY <1>3 DEF provisionVars, ProvisionInv, ProvisionTypes, Rooted, Placed
<1> QED BY <1>1, <1>2, <1>3

\* The only step that completes a run is the last one, and it finds the machine and its
\* rule ready; all the others but the application's rule follow from what they need.
LEMMA CompletesWhole ==
  ASSUME ProvisionInv, ProvisionNext, NEW o \in Operators, script'[o].doing = "complete", ~Doing(o, "complete")
  PROVE  \A r \in Resources \ {"app rule"} : cloud'[r] = "ready"
<1>1. script[o] \in ScriptRecord /\ script \in [Operators -> ScriptRecord]
  BY DEF ProvisionInv, ProvisionTypes
<1>2. PICK p \in Operators : Port(p)
  <2>1. ASSUME NEW p \in Operators, NEW what, what # "complete", Becomes(p, what) PROVE FALSE
    BY <1>1, <2>1 DEF Becomes, Doing, ScriptRecord
  <2>2. ASSUME NEW p \in Operators, MoveOn(p) PROVE FALSE
    <3>1. CASE p = o
      <4>1. script' = [script EXCEPT ![o] = [script[o] EXCEPT !.at = script[o].at + 1, !.doing = "look"]]
        BY <2>2, <3>1 DEF MoveOn
      <4>2. script'[o].doing = "look"
        BY <1>1, <4>1 DEF ScriptRecord
      <4> QED BY <4>2
    <3>2. CASE p # o
      <4>1. script'[o] = script[o]
        BY <1>1, <2>2, <3>2 DEF MoveOn
      <4> QED BY <4>1 DEF Doing
    <3> QED BY <3>1, <3>2
  <2>3. ASSUME NEW p \in Operators, Rerun(p) PROVE FALSE
    BY <1>1, <2>3 DEF Rerun, Doing
  <2>4. ASSUME NEW r \in Resources, CloudSettles(r) PROVE FALSE
    <3>1. script'[o] = script[o] \/ script'[o].doing \in {"failed", "operation ended", "start ended"}
      <4>1. PICK works \in BOOLEAN :
              script'[o] = IF ResourceAt(o) = r /\ script[o].doing \in {"operation", "starting"}
                           THEN [script[o] EXCEPT !.doing =
                                  IF ~works THEN "failed"
                                  ELSE IF @ = "operation" THEN "operation ended" ELSE "start ended"]
                           ELSE script[o]
        BY <2>4 DEF CloudSettles
      <4>2. PICK now \in {"failed", "operation ended", "start ended"} :
              script'[o] = script[o] \/ script'[o] = [script[o] EXCEPT !.doing = now]
        BY <4>1
      <4> QED BY <1>1, <4>2 DEF ScriptRecord
    <3> QED BY <3>1 DEF Doing
  <2>5. ASSUME VmStops PROVE FALSE
    BY <2>5 DEF VmStops, Doing
  <2>6. ASSUME NEW p \in Operators,
               \/ Doctor(p) \/ SkipDoctor(p) \/ Look(p) \/ LookAgain(p) \/ StartVm(p) \/ Ask(p) \/ ConnectionRefused(p)
               \/ OperationEnds(p) \/ VmStarted(p) \/ WaitReady(p)
               \/ RequestFails(p) \/ TokenFails(p) \/ WaitsTooLong(p) \/ ServicesEnabled(p)
        PROVE  FALSE
    <3>1. MoveOn(p) \/ \E what : what # "complete" /\ Becomes(p, what)
      BY <2>6, Zenon DEF Doctor, SkipDoctor, Look, LookAgain, StartVm, Ask, ConnectionRefused, OperationEnds, VmStarted,
                         WaitReady, RequestFails, TokenFails, WaitsTooLong, ServicesEnabled, Throw
    <3> QED BY <2>1, <2>2, <3>1
  <2> QED BY <2>3, <2>4, <2>5, <2>6 DEF ProvisionNext
<1>3. cloud["vm"] = "ready" /\ cloud["ssh rule"] = "ready" /\ UNCHANGED cloud /\ script[p].at = 11
  BY <1>2, RunFacts DEF Port
<1>4. cloud["instance"] = "ready"
  <2>1. Placed(p)
    BY RunFacts
  <2>2. script[p].at = 11
    BY <1>3
  <2>3. script[p].at > 9
    BY <2>2
  <2> QED BY <2>1, <2>3 DEF Placed
<1>5. cloud["subnet"] = "ready" /\ cloud["cluster"] = "ready"
  BY <1>3, <1>4, NeedsAre, TheOrder DEF ProvisionInv, Rooted
<1>6. cloud["network"] = "ready" /\ cloud["connection"] = "ready"
  BY <1>5, NeedsAre, TheOrder DEF ProvisionInv, Rooted
<1>7. cloud["services"] = "ready" /\ cloud["range"] = "ready"
  BY <1>6, NeedsAre, TheOrder DEF ProvisionInv, Rooted
<1> QED BY <1>3, <1>4, <1>5, <1>6, <1>7, TheOrder

\* "Provisioning complete." only over a whole environment (ProvisionWhole).
THEOREM ProvisionCorrect == ProvisionSpec => []ProvisionTypeOK /\ ProvisionWhole
<1>1. ProvisionInv => ProvisionTypeOK
  BY TheOrder DEF ProvisionInv, ProvisionTypes, ProvisionTypeOK, ScriptRecord, Doings
<1>2. ProvisionInv /\ [ProvisionNext]_provisionVars =>
        [\A o \in Operators :
           (script'[o].doing = "complete" /\ ~Doing(o, "complete"))
             => \A r \in Resources \ {"app rule"} : cloud'[r] = "ready"]_provisionVars
  BY CompletesWhole
<1> QED BY <1>1, <1>2, ProvisionInductive, PTL DEF ProvisionSpec, ProvisionWhole

-----------------------------------------------------------------------------
(* Rollouts of a release.                                                  *)

Lone(s) == \A i, j \in DOMAIN s : s[i] = s[j] => i = j

Outcomes == {"none", "done", "migration", "rollout", "gate of a healthy app", "gate", "sync", "interrupted"}

ReleaseRecord == [by : {"deploy.ts", "deploy.sh"}, image : Images, worker : 0..Len(WorkerTypes),
                  phase : {"migrate", "set", "status", "gate", "static", "over"}, outcome : Outcomes]

ReleaseTypes ==
  /\ images \in [Deployments -> Seq(Images)] /\ up \in [Deployments -> BOOLEAN]
  /\ migrated \subseteq Images /\ served \subseteq Images /\ assets \in Images \cup {"mixed"}
  /\ releases \in 0..MaxReleases /\ release \in ReleaseRecord

\* The rollout's image is migrated once its first deployment is set, and served once
\* the first worker's is.
Gated ==
  /\ release.phase = "migrate" => release.worker = 0
  /\ release.phase \in {"set", "status", "gate", "static"} => release.image \in migrated
  /\ release.phase \in {"set", "status", "gate"} /\ release.worker > 0 => release.image \in served
  /\ release.phase = "static" => release.image \in served

ReleaseInv ==
  /\ ReleaseTypes /\ Gated /\ GatedOrder
  /\ \A d \in Deployments : images[d] # <<>> /\ Lone(images[d])

-----------------------------------------------------------------------------
\* RemoveFirst takes out a place where the element is.
LEMMA FirstIs ==
  ASSUME NEW s, NEW e, Len(s) \in Nat, \E p \in 1..Len(s) : s[p] = e
  PROVE  \E p \in 1..Len(s) : s[p] = e /\ RemoveFirst(s, e) = RemoveAt(s, p)
<1>1. PICK I : I = {p \in 1..Len(s) : s[p] = e}
  OBVIOUS
<1>2. SelectInSeq(s, LAMBDA v : v = e) = Min(I)
  BY <1>1 DEF SelectInSeq
<1>3. I \in SUBSET Nat /\ I # {}
  BY <1>1
<1>4. Min(I) \in I
  BY <1>3, LeastIs DEF Min
<1> QED BY <1>1, <1>2, <1>4 DEF RemoveFirst

\* A sequence without one of its places.
LEMMA WithoutPlace ==
  ASSUME NEW S, NEW s \in Seq(S), Lone(s), NEW p \in 1..Len(s)
  PROVE  /\ RemoveAt(s, p) \in Seq(S) /\ Lone(RemoveAt(s, p))
         /\ \A i \in DOMAIN RemoveAt(s, p) : RemoveAt(s, p)[i] # s[p] /\ \E j \in DOMAIN s : RemoveAt(s, p)[i] = s[j]
<1>1. PICK a : a = SubSeq(s, 1, p - 1)
  OBVIOUS
<1>2. PICK b : b = SubSeq(s, p + 1, Len(s))
  OBVIOUS
<1>3. a \in Seq(S) /\ Len(a) = p - 1 /\ \A i \in 1..(p - 1) : a[i] = s[i]
  BY <1>1
<1>4. b \in Seq(S) /\ Len(b) = Len(s) - p /\ \A i \in 1..(Len(s) - p) : b[i] = s[p + i]
  BY <1>2
<1>5. RemoveAt(s, p) = a \o b
  BY <1>1, <1>2 DEF RemoveAt
<1>6. PICK r : r = a \o b
  OBVIOUS
<1>7. /\ r \in Seq(S) /\ Len(r) = Len(s) - 1 /\ DOMAIN r = 1..(Len(s) - 1)
      /\ \A i \in 1..(Len(s) - 1) : r[i] = IF i < p THEN s[i] ELSE s[i + 1]
  <2>1. r \in Seq(S) /\ Len(r) = Len(a) + Len(b)
    <3>1. a \in Seq(S) /\ b \in Seq(S)
      BY <1>3, <1>4
    <3> QED BY <1>6, <3>1
  <2>2. Len(s) \in Nat /\ p \in Nat /\ Len(r) = Len(s) - 1
    BY <1>3, <1>4, <2>1
  <2>3. \A i \in 1..Len(r) : r[i] = IF i <= Len(a) THEN a[i] ELSE b[i - Len(a)]
    <3>1. a \in Seq(S) /\ b \in Seq(S)
      BY <1>3, <1>4
    <3>2. \A i \in 1..(Len(a) + Len(b)) : (a \o b)[i] = IF i <= Len(a) THEN a[i] ELSE b[i - Len(a)]
      BY <3>1
    <3> QED BY <1>6, <2>1, <3>2
  <2>4. ASSUME NEW i \in 1..(Len(s) - 1) PROVE r[i] = IF i < p THEN s[i] ELSE s[i + 1]
    <3>1. CASE i < p
      <4>1. i \in 1..(p - 1) /\ i <= Len(a)
        BY <1>3, <2>2, <3>1
      <4> QED BY <1>3, <2>2, <2>3, <3>1, <4>1
    <3>2. CASE ~(i < p)
      <4>1. i - Len(a) \in 1..(Len(s) - p) /\ ~(i <= Len(a)) /\ p + (i - Len(a)) = i + 1
        BY <1>3, <2>2, <3>2
      <4> QED BY <1>4, <2>2, <2>3, <3>2, <4>1
    <3> QED BY <3>1, <3>2
  <2> QED BY <2>1, <2>2, <2>4
<1>10. PICK n \in Nat : n = Len(s) /\ DOMAIN s = 1..n
  OBVIOUS
<1>8. ASSUME NEW i \in 1..(Len(s) - 1) PROVE r[i] # s[p] /\ \E j \in DOMAIN s : r[i] = s[j]
  <2>1. PICK j \in 1..n : j = IF i < p THEN i ELSE i + 1
    BY <1>10
  <2>2. j # p /\ r[i] = s[j] /\ j \in DOMAIN s /\ p \in DOMAIN s
    BY <1>7, <1>10, <2>1
  <2> QED BY <2>2 DEF Lone
<1>9. Lone(r)
  <2>1. ASSUME NEW i \in 1..(n - 1), NEW k \in 1..(n - 1), r[i] = r[k] PROVE i = k
    <3>1. PICK j \in 1..n : j = IF i < p THEN i ELSE i + 1
      BY <1>10
    <3>2. PICK l \in 1..n : l = IF k < p THEN k ELSE k + 1
      BY <1>10
    <3>3. r[i] = s[j] /\ r[k] = s[l]
      BY <1>7, <1>10, <3>1, <3>2
    <3>4. j = l
      BY <1>10, <2>1, <3>3 DEF Lone
    <3> QED BY <3>1, <3>2, <3>4
  <2> QED BY <1>7, <1>10, <2>1 DEF Lone
<1> QED BY <1>5, <1>6, <1>7, <1>8, <1>9

\* An element becomes the newest: it is there once, and no other came with it.
LEMMA BecomesNewest ==
  ASSUME NEW S, NEW s \in Seq(S), Lone(s), NEW e \in S
  PROVE  LET r == Append(RemoveFirst(s, e), e)
         IN  /\ r \in Seq(S) /\ r # <<>> /\ Lone(r)
             /\ \A i \in DOMAIN r : r[i] = e \/ \E j \in DOMAIN s : r[i] = s[j]
<1>1. PICK q : q = RemoveFirst(s, e)
  OBVIOUS
<1>2. /\ q \in Seq(S) /\ Lone(q)
      /\ \A i \in DOMAIN q : q[i] # e /\ \E j \in DOMAIN s : q[i] = s[j]
  <2>1. CASE \E p \in 1..Len(s) : s[p] = e
    BY <1>1, <2>1, FirstIs, WithoutPlace
  <2>2. CASE ~ \E p \in 1..Len(s) : s[p] = e
    <3>1. q = s
      BY <1>1, <2>2 DEF RemoveFirst
    <3> QED BY <2>2, <3>1
  <2> QED BY <2>1, <2>2
<1>3. PICK r : r = Append(q, e)
  OBVIOUS
<1>4. /\ r \in Seq(S) /\ Len(r) = Len(q) + 1 /\ DOMAIN r = 1..(Len(q) + 1) /\ r[Len(q) + 1] = e
      /\ \A i \in 1..Len(q) : r[i] = q[i]
  BY <1>2, <1>3
<1>5. \A i \in 1..(Len(q) + 1) : i \in 1..Len(q) \/ i = Len(q) + 1
  BY <1>2
<1>6. Lone(r) /\ r # <<>>
  BY <1>2, <1>4, <1>5 DEF Lone
<1> QED BY <1>1, <1>2, <1>3, <1>4, <1>5, <1>6

-----------------------------------------------------------------------------
\* The deployment of the phase.
LEMMA CurrentIs ==
  ASSUME ReleaseTypes
  PROVE  /\ Current \in Deployments /\ "app" \in Deployments
         /\ Current # "app" => release.worker > 0
<1>1. release.worker \in 0..Len(WorkerTypes) /\ Len(WorkerTypes) \in Nat
  BY ReleaseAssumption DEF ReleaseTypes, ReleaseRecord
<1>2. release.worker = 0 \/ (release.worker > 0 /\ release.worker \in 1..Len(WorkerTypes))
  BY <1>1
<1>3. DOMAIN WorkerTypes = 1..Len(WorkerTypes)
  BY ReleaseAssumption
<1> QED BY <1>2, <1>3 DEF Current, Deployments

\* kubectl set image: the deployment has the image, and no other it had not.
LEMMA SetImageIs ==
  ASSUME ReleaseInv, NEW d \in Deployments, NEW i \in Images, images' = SetImage(d, i)
  PROVE  /\ images' \in [Deployments -> Seq(Images)]
         /\ \A k \in Deployments : images'[k] # <<>> /\ Lone(images'[k])
         /\ \A k \in Deployments \ {d} : images'[k] = images[k]
         /\ \A j \in DOMAIN images'[d] : images'[d][j] = i \/ \E h \in DOMAIN images[d] : images'[d][j] = images[d][h]
<1>1. images \in [Deployments -> Seq(Images)] /\ images[d] \in Seq(Images) /\ Lone(images[d]) /\ images[d] # <<>>
  BY DEF ReleaseInv, ReleaseTypes
<1>2. PICK r : r = Append(RemoveFirst(images[d], i), i)
  OBVIOUS
<1>3. /\ r \in Seq(Images) /\ r # <<>> /\ Lone(r)
      /\ \A j \in DOMAIN r : r[j] = i \/ \E h \in DOMAIN images[d] : r[j] = images[d][h]
  BY <1>1, <1>2, BecomesNewest
<1>4. PICK m : m = IF Running(d) = i THEN images[d] ELSE r
  OBVIOUS
<1>5. images' = [images EXCEPT ![d] = m]
  BY <1>2, <1>4 DEF SetImage
<1>6. /\ m \in Seq(Images) /\ m # <<>> /\ Lone(m)
      /\ \A j \in DOMAIN m : m[j] = i \/ \E h \in DOMAIN images[d] : m[j] = images[d][h]
  BY <1>1, <1>3, <1>4
<1>7. images'[d] = m /\ \A k \in Deployments \ {d} : images'[k] = images[k]
  BY <1>1, <1>5
<1>8. images' \in [Deployments -> Seq(Images)]
  BY <1>1, <1>5, <1>6
<1>9. \A k \in Deployments : images'[k] # <<>> /\ Lone(images'[k])
  BY <1>6, <1>7 DEF ReleaseInv
<1> QED BY <1>6, <1>7, <1>8, <1>9

\* An undo returns to an image the deployment had.
LEMMA UndoIs ==
  ASSUME ReleaseInv, NEW d \in Deployments, images' = Undo(d)
  PROVE  /\ images' \in [Deployments -> Seq(Images)]
         /\ \A k \in Deployments : images'[k] # <<>> /\ Lone(images'[k])
         /\ \A k \in Deployments \ {d} : images'[k] = images[k]
         /\ \A j \in DOMAIN images'[d] : \E h \in DOMAIN images[d] : images'[d][j] = images[d][h]
<1>1. images \in [Deployments -> Seq(Images)] /\ images[d] \in Seq(Images) /\ images[d] # <<>>
  BY DEF ReleaseInv, ReleaseTypes
<1>2. CASE Len(images[d]) = 1
  BY <1>1, <1>2 DEF Undo, ReleaseInv
<1>3. CASE Len(images[d]) # 1
  <2>1. Len(images[d]) - 1 \in DOMAIN images[d]
    <3>1. PICK s \in Seq(Images) : s = images[d]
      BY <1>1
    <3>2. Len(s) \in Nat /\ DOMAIN s = 1..Len(s) /\ Len(s) # 0
      BY <1>1, <3>1
    <3>3. Len(s) # 1
      BY <1>3, <3>1
    <3>4. Len(s) - 1 \in 1..Len(s)
      BY <3>2, <3>3
    <3> QED BY <3>1, <3>2, <3>4
  <2>2. images[d][Len(images[d]) - 1] \in Images
    BY <1>1, <2>1
  <2>3. images' = SetImage(d, images[d][Len(images[d]) - 1])
    BY <1>3 DEF Undo
  <2> QED BY <2>1, <2>2, <2>3, SetImageIs
<1> QED BY <1>2, <1>3

\* A step that deploys nothing, and forgets neither a migration nor an image served.
LEMMA NothingDeployed ==
  ASSUME ReleaseInv, UNCHANGED images, ReleaseTypes', Gated', migrated \subseteq migrated', served \subseteq served'
  PROVE  ReleaseInv'
BY DEF ReleaseInv, GatedOrder

\* What is deployed has been migrated for and, on a worker, served.
LEMMA Deployed ==
  ASSUME ReleaseInv, NEW d \in Deployments, ReleaseTypes', Gated', UNCHANGED <<migrated, served>>,
         \A k \in Deployments : images'[k] # <<>> /\ Lone(images'[k]),
         \A k \in Deployments \ {d} : images'[k] = images[k],
         \A j \in DOMAIN images'[d] :
           \/ images'[d][j] \in migrated /\ (d # "app" => images'[d][j] \in served)
           \/ \E h \in DOMAIN images[d] : images'[d][j] = images[d][h]
  PROVE  ReleaseInv'
<1>1. \A k \in Deployments : \A j \in DOMAIN images'[k] :
        images'[k][j] \in migrated /\ (k # "app" => images'[k][j] \in served)
  BY DEF ReleaseInv, GatedOrder
<1> QED BY <1>1 DEF ReleaseInv, GatedOrder

\* The steps of a rollout that deploy nothing.
LEMMA PhasesKeep ==
  ASSUME ReleaseInv,
         \/ \E by \in {"deploy.ts", "deploy.sh"}, i \in Images : StartRelease(by, i)
         \/ Migrate \/ MigrationFails \/ RolledOut \/ Healthy \/ SyncAssets \/ Interrupt \/ PodsChange
  PROVE  ReleaseInv'
<1>0. /\ ReleaseTypes /\ Gated /\ UNCHANGED images /\ Len(WorkerTypes) \in Nat /\ release \in ReleaseRecord
      /\ 0 \in 0..Len(WorkerTypes) /\ MaxReleases \in Nat
  BY ReleaseAssumption DEF ReleaseInv, ReleaseTypes, StartRelease, Migrate, MigrationFails, RolledOut, Healthy,
                           SyncAssets, Interrupt, PodsChange
<1>1. ASSUME Die("migration") \/ Die("done") \/ Die("sync") \/ Die("interrupted")
      PROVE  release' \in ReleaseRecord /\ Gated'
  <2>1. PICK cause \in Outcomes : Die(cause)
    BY <1>1 DEF Outcomes
  <2>2. PICK m \in ReleaseRecord : m = [release EXCEPT !.phase = "over", !.outcome = cause]
    BY <1>0 DEF ReleaseRecord
  <2>3. release' = m /\ m.phase = "over"
    BY <1>0, <2>1, <2>2 DEF Die, ReleaseRecord
  <2> QED BY <2>3 DEF Gated
<1>2. CASE \E by \in {"deploy.ts", "deploy.sh"}, i \in Images : StartRelease(by, i)
  <2>1. PICK by \in {"deploy.ts", "deploy.sh"}, i \in Images : StartRelease(by, i)
    BY <1>2
  <2>2. PICK m \in ReleaseRecord : m = [by |-> by, image |-> i, worker |-> 0, phase |-> "migrate", outcome |-> "none"]
    BY <1>0 DEF ReleaseRecord, Outcomes
  <2>3. release' = m /\ m.phase = "migrate" /\ m.worker = 0
    BY <2>1, <2>2 DEF StartRelease
  <2>4. releases' \in 0..MaxReleases
    <3>1. releases \in 0..MaxReleases /\ releases < MaxReleases /\ releases' = releases + 1
      BY <1>0, <2>1 DEF StartRelease, ReleaseTypes
    <3> QED BY <1>0, <3>1
  <2>5. UNCHANGED <<up, migrated, assets, served>>
    BY <2>1 DEF StartRelease
  <2>6. ReleaseTypes'
    BY <1>0, <2>3, <2>4, <2>5 DEF ReleaseTypes
  <2>7. Gated'
    BY <2>3 DEF Gated
  <2> QED BY <1>0, <2>5, <2>6, <2>7, NothingDeployed
<1>3. CASE Migrate
  <2>1. PICK m \in ReleaseRecord : m = [release EXCEPT !.phase = "set"]
    BY <1>0 DEF ReleaseRecord
  <2>2. /\ release' = m /\ m.phase = "set" /\ m.image = release.image /\ m.worker = release.worker
        /\ release.image \in Images
    BY <1>0, <1>3, <2>1 DEF Migrate, Go, ReleaseRecord
  <2>3. migrated' = migrated \cup {release.image} /\ UNCHANGED <<up, assets, served, releases>> /\ release.phase = "migrate"
    BY <1>3 DEF Migrate, Phase
  <2>4. ReleaseTypes'
    BY <1>0, <2>2, <2>3 DEF ReleaseTypes
  <2>5. ~(0 > 0)
    OBVIOUS
  <2>6. Gated'
    BY <1>0, <2>2, <2>3, <2>5 DEF Gated
  <2> QED BY <1>0, <2>3, <2>4, <2>6, NothingDeployed
<1>4. CASE MigrationFails \/ SyncAssets \/ Interrupt
  <2>1. /\ UNCHANGED <<up, migrated, served, releases>>
        /\ Die("migration") \/ Die("done") \/ Die("sync") \/ Die("interrupted")
        /\ assets' \in {release.image, assets, "mixed"}
    BY <1>4 DEF MigrationFails, SyncAssets, Interrupt
  <2>2. release.image \in Images
    BY <1>0 DEF ReleaseRecord
  <2>3. ReleaseTypes'
    BY <1>0, <1>1, <2>1, <2>2 DEF ReleaseTypes
  <2> QED BY <1>0, <1>1, <2>1, <2>3, NothingDeployed
<1>5. ASSUME NextPhase, release.phase \in {"status", "gate"}, release.image \in served', UNCHANGED migrated
      PROVE  release' \in ReleaseRecord /\ Gated'
  <2>1. PICK p \in {"set", "static"} : p = IF release.worker < Len(WorkerTypes) THEN "set" ELSE "static"
    OBVIOUS
  <2>2. PICK w \in 0..Len(WorkerTypes) : w = IF release.worker < Len(WorkerTypes) THEN release.worker + 1 ELSE release.worker
    <3>1. release.worker \in 0..Len(WorkerTypes)
      BY <1>0 DEF ReleaseRecord
    <3> QED BY <1>0, <3>1
  <2>3. PICK m \in ReleaseRecord : m = [release EXCEPT !.phase = p, !.worker = w]
    BY <1>0 DEF ReleaseRecord
  <2>4. release' = m
    BY <1>5, <2>1, <2>2, <2>3 DEF NextPhase
  <2>5. m.phase = p /\ m.image = release.image /\ release.image \in migrated
    BY <1>0, <1>5, <2>3 DEF ReleaseRecord, Gated
  <2> QED BY <1>5, <2>4, <2>5 DEF Gated
<1>6. CASE RolledOut
  <2>1. UNCHANGED <<up, migrated, assets, served, releases>> /\ release.phase = "status"
    BY <1>6 DEF RolledOut, Phase
  <2>2. CASE Go("gate")
    <3>1. PICK m \in ReleaseRecord : m = [release EXCEPT !.phase = "gate"]
      BY <1>0 DEF ReleaseRecord
    <3>2. /\ release' = m /\ m.phase = "gate" /\ m.image = release.image /\ m.worker = release.worker
      BY <1>0, <2>2, <3>1 DEF Go, ReleaseRecord
    <3>3. ReleaseTypes'
      BY <1>0, <2>1, <3>2 DEF ReleaseTypes
    <3>4. Gated'
      BY <1>0, <2>1, <3>2 DEF Gated
    <3> QED BY <1>0, <2>1, <3>3, <3>4, NothingDeployed
  <2>3. CASE Current # "app" /\ NextPhase
    <3>1. release.image \in served
      BY <1>0, <2>1, <2>3, CurrentIs DEF Gated
    <3>2. release' \in ReleaseRecord /\ Gated'
      BY <1>5, <2>1, <2>3, <3>1
    <3>3. ReleaseTypes'
      BY <1>0, <2>1, <3>2 DEF ReleaseTypes
    <3> QED BY <1>0, <2>1, <3>2, <3>3, NothingDeployed
  <2> QED BY <1>6, <2>2, <2>3 DEF RolledOut
<1>7. CASE Healthy
  <2>1. UNCHANGED <<up, migrated, assets, releases>> /\ release.phase = "gate" /\ served' = served \cup {release.image}
    BY <1>7 DEF Healthy, Phase
  <2>2. release' \in ReleaseRecord /\ Gated'
    BY <1>5, <1>7, <2>1 DEF Healthy
  <2>3. release.image \in Images
    BY <1>0 DEF ReleaseRecord
  <2>4. ReleaseTypes'
    BY <1>0, <2>1, <2>2, <2>3 DEF ReleaseTypes
  <2> QED BY <1>0, <2>1, <2>2, <2>4, NothingDeployed
<1>8. CASE PodsChange
  <2>1. up' \in [Deployments -> BOOLEAN] /\ UNCHANGED <<images, migrated, assets, release, served, releases>>
    BY <1>0, <1>8 DEF PodsChange, ReleaseTypes
  <2>2. ReleaseTypes' /\ Gated'
    BY <1>0, <2>1 DEF ReleaseTypes, Gated
  <2> QED BY <1>0, <2>1, <2>2, NothingDeployed
<1> QED BY <1>2, <1>3, <1>4, <1>6, <1>7, <1>8

\* The image of the rollout is set on the deployment whose turn it is.
LEMMA RolloutKeeps ==
  ASSUME ReleaseInv, Rollout
  PROVE  ReleaseInv'
<1>1. /\ ReleaseTypes /\ Gated /\ release \in ReleaseRecord /\ release.image \in Images /\ Current \in Deployments
      /\ release.phase = "set" /\ UNCHANGED <<migrated, assets, served, releases>>
      /\ images' = SetImage(Current, release.image)
  BY CurrentIs DEF ReleaseInv, ReleaseTypes, ReleaseRecord, Rollout, Phase
<1>2. PICK d \in Deployments : d = Current
  BY <1>1
<1>3. PICK m \in ReleaseRecord : m = [release EXCEPT !.phase = "status"]
  BY <1>1 DEF ReleaseRecord
<1>4. /\ release' = m /\ m.phase = "status" /\ m.image = release.image /\ m.worker = release.worker
  BY <1>1, <1>3 DEF Rollout, Go, ReleaseRecord
<1>5. up' \in [Deployments -> BOOLEAN]
  <2>1. PICK u \in BOOLEAN : up' = [up EXCEPT ![Current] = IF Running(Current) = release.image THEN @ ELSE u]
    BY DEF Rollout
  <2> QED BY <1>1, <2>1 DEF ReleaseTypes
<1>6. /\ images' \in [Deployments -> Seq(Images)]
      /\ \A k \in Deployments : images'[k] # <<>> /\ Lone(images'[k])
      /\ \A k \in Deployments \ {d} : images'[k] = images[k]
      /\ \A j \in DOMAIN images'[d] :
           images'[d][j] = release.image \/ \E h \in DOMAIN images[d] : images'[d][j] = images[d][h]
  BY <1>1, <1>2, SetImageIs
<1>7. release.image \in migrated /\ (d # "app" => release.image \in served)
  BY <1>1, <1>2, CurrentIs DEF Gated
<1>8. ReleaseTypes'
  BY <1>1, <1>4, <1>5, <1>6 DEF ReleaseTypes
<1>9. Gated'
  BY <1>1, <1>4 DEF Gated
<1> QED BY <1>1, <1>6, <1>7, <1>8, <1>9, Deployed

\* What failed is rolled back to an image it had.
LEMMA RollBackKeeps ==
  ASSUME ReleaseInv, RolloutTimesOut \/ Unhealthy
  PROVE  ReleaseInv'
<1>0. PICK cause \in Outcomes : RollBack(cause)
  <2>1. PICK w \in Outcomes : w = IF up["app"] THEN "gate of a healthy app" ELSE "gate"
    BY DEF Outcomes
  <2>2. "rollout" \in Outcomes
    BY DEF Outcomes
  <2> QED BY <2>1, <2>2 DEF RolloutTimesOut, Unhealthy
<1>1. /\ ReleaseTypes /\ release \in ReleaseRecord /\ Current \in Deployments
      /\ UNCHANGED <<migrated, assets, served, releases>> /\ images' = Undo(Current)
  BY <1>0, CurrentIs DEF ReleaseInv, ReleaseTypes, RollBack
<1>2. PICK d \in Deployments : d = Current
  BY <1>1
<1>3. PICK m \in ReleaseRecord : m = [release EXCEPT !.phase = "over", !.outcome = cause]
  BY <1>1 DEF ReleaseRecord
<1>4. release' = m /\ m.phase = "over"
  BY <1>0, <1>1, <1>3 DEF RollBack, Die, ReleaseRecord
<1>5. up' \in [Deployments -> BOOLEAN]
  <2>1. PICK u \in BOOLEAN : up' = [up EXCEPT ![Current] = u]
    BY <1>0 DEF RollBack
  <2> QED BY <1>1, <2>1 DEF ReleaseTypes
<1>6. /\ images' \in [Deployments -> Seq(Images)]
      /\ \A k \in Deployments : images'[k] # <<>> /\ Lone(images'[k])
      /\ \A k \in Deployments \ {d} : images'[k] = images[k]
      /\ \A j \in DOMAIN images'[d] : \E h \in DOMAIN images[d] : images'[d][j] = images[d][h]
  BY <1>1, <1>2, UndoIs
<1>8. ReleaseTypes'
  BY <1>1, <1>4, <1>5, <1>6 DEF ReleaseTypes
<1>9. Gated'
  BY <1>4 DEF Gated
<1> QED BY <1>1, <1>6, <1>8, <1>9, Deployed

-----------------------------------------------------------------------------
\* The invariant holds at the start and in every step.
THEOREM ReleaseInductive ==
  /\ ReleaseInit => ReleaseInv
  /\ ReleaseInv /\ [ReleaseNext]_releaseVars => ReleaseInv'
<1>1. ASSUME ReleaseInit PROVE ReleaseInv
  <2>1. /\ images = [d \in Deployments |-> <<FirstImage>>] /\ FirstImage \in Images /\ up = [d \in Deployments |-> TRUE]
        /\ migrated = {FirstImage} /\ served = {FirstImage} /\ assets = FirstImage /\ releases = 0
    BY <1>1, ReleaseAssumption DEF ReleaseInit
  <2>2. PICK s : s = <<FirstImage>>
    OBVIOUS
  <2>3. s \in Seq(Images) /\ s # <<>> /\ Lone(s) /\ \A i \in DOMAIN s : s[i] = FirstImage
    BY <2>1, <2>2 DEF Lone
  <2>4. 0 \in 0..Len(WorkerTypes) /\ 0 \in 0..MaxReleases
    BY ReleaseAssumption
  <2>5. PICK m \in ReleaseRecord :
          m = [by |-> "deploy.sh", image |-> FirstImage, worker |-> 0, phase |-> "over", outcome |-> "done"]
    BY <2>1, <2>4 DEF ReleaseRecord, Outcomes
  <2>6. release = m /\ m.phase = "over"
    BY <1>1, <2>5 DEF ReleaseInit
  <2>7. ReleaseTypes
    BY <2>1, <2>2, <2>3, <2>4, <2>6 DEF ReleaseTypes
  <2>8. Gated
    BY <2>6 DEF Gated
  <2>9. GatedOrder /\ \A d \in Deployments : images[d] # <<>> /\ Lone(images[d])
    BY <2>1, <2>2, <2>3 DEF GatedOrder
  <2> QED BY <2>7, <2>8, <2>9 DEF ReleaseInv
<1>2. ASSUME ReleaseInv, ReleaseNext PROVE ReleaseInv'
  BY <1>2, PhasesKeep, RolloutKeeps, RollBackKeeps DEF ReleaseNext
<1>3. ASSUME ReleaseInv, UNCHANGED releaseVars PROVE ReleaseInv'
  BY <1>3 DEF releaseVars, ReleaseInv, ReleaseTypes, Gated, GatedOrder
<1> QED BY <1>1, <1>2, <1>3

\* No deployment has an image that is not migrated for, and no worker one that the app
\* has not served (GatedOrder); a deployment's images are all different, so that there
\* are no more of them than images (ReleaseTypeOK).
THEOREM ReleaseCorrect == ReleaseSpec => [](ReleaseTypeOK /\ GatedOrder)
<1>1. ASSUME ReleaseInv PROVE ReleaseTypeOK /\ GatedOrder
  <2>1. ASSUME NEW s \in Seq(Images), Lone(s) PROVE s \in BoundedSeq(Images, Cardinality(Images))
    <3>1. s \in [1..Len(s) -> Images] /\ Len(s) \in Nat
      OBVIOUS
    <3>2. s \in Injection(1..Len(s), Images)
      BY <2>1, <3>1 DEF Injection, IsInjective, Lone
    <3>3. IsFiniteSet(Images) /\ Cardinality(Images) \in Nat
      BY ReleaseAssumption, FS_CardinalityType
    <3>4. Cardinality(1..Len(s)) <= Cardinality(Images)
      BY <3>2, <3>3, FS_Injection
    <3>5. Cardinality(1..Len(s)) = Len(s)
      <4>1. 1 \in Int /\ Len(s) \in Int
        BY <3>1
      <4>2. Cardinality(1..Len(s)) = IF 1 > Len(s) THEN 0 ELSE Len(s) - 1 + 1
        BY <4>1, FS_Interval
      <4> QED BY <3>1, <4>2
    <3>6. Len(s) \in 0..Cardinality(Images)
      BY <3>1, <3>3, <3>4, <3>5
    <3> QED BY <3>1, <3>6 DEF BoundedSeq, SeqOf
  <2>2. images \in [Deployments -> BoundedSeq(Images, Cardinality(Images))]
    <3>1. images \in [Deployments -> Seq(Images)] /\ \A d \in Deployments : Lone(images[d])
      BY <1>1 DEF ReleaseInv, ReleaseTypes
    <3>2. \A d \in Deployments : images[d] \in BoundedSeq(Images, Cardinality(Images))
      BY <2>1, <3>1
    <3> QED BY <3>1, <3>2
  <2> QED BY <1>1, <2>2 DEF ReleaseInv, ReleaseTypes, ReleaseRecord, ReleaseTypeOK
<1> QED BY <1>1, ReleaseInductive, PTL DEF ReleaseSpec

-----------------------------------------------------------------------------
(* The demo launcher.                                                      *)

MainSteps == {"start", "registry", "cluster", "database", "build", "push", "deploy", "verify", "tunnel",
              "prompt", "finally", "await", "left", "over", "delete", "purge"}

DemoTypes ==
  /\ named \in [Launchers -> ClusterNames \cup {NoName}]
  /\ targets \in [Launchers -> SUBSET ClusterNames] /\ port \in [Launchers -> Ports]
  /\ cluster \in [ClusterNames -> Launchers \cup {NoLauncher}]
  /\ registry \in [ClusterNames -> Launchers \cup {NoLauncher}]
  /\ pod \in [ClusterNames -> Nat] /\ forward \in [Launchers -> Nat]
  /\ tunnel \in [Launchers -> {"off", "wanted", "open"}]
  /\ tearing \in [Launchers -> {"no", "cluster", "registry", "done"}]
  /\ code \in [Launchers -> {"none", "0", "1", "130", "143"}]
  /\ refreshes \in 0..MaxRefreshes /\ signals \in 0..MaxSignals
  /\ step \in [Launchers -> MainSteps] /\ why \in [Launchers -> MainSteps \cup {"none"}]
  /\ handler \in [Launchers -> {"none", "130", "143"}] /\ failed \in [Launchers -> BOOLEAN]

Makes(l) == \E n \in ClusterNames : cluster[n] = l

\* Where a launcher is, what its teardown has come to, and the cluster it made.
Orderly(l) ==
  /\ Alive(l) /\ handler[l] # "none" => tearing[l] # "no"
  /\ Unguarded(l) => ~Makes(l) /\ why[l] = "none" /\ handler[l] = "none"
  /\ ~Unguarded(l) => named[l] \in ClusterNames
  /\ \A n \in ClusterNames : cluster[n] = l => n = named[l]
  /\ step[l] = "await" => tearing[l] # "no"
  /\ step[l] = "await" /\ Alive(l) => handler[l] = "none"
  /\ step[l] = "await" /\ tearing[l] # "cluster" /\ ~failed[l] => ~Makes(l)
  /\ code[l] = "0" => why[l] = "none" /\ handler[l] = "none" /\ ~Makes(l)

DemoInv == DemoTypes /\ \A l \in Launchers : Orderly(l)

\* What a step of one launcher leaves of another.
Apart(k) ==
  /\ step'[k] = step[k] /\ named'[k] = named[k] /\ handler'[k] = handler[k] /\ tearing'[k] = tearing[k]
  /\ failed'[k] = failed[k] /\ why'[k] = why[k] /\ code'[k] = code[k]
  /\ \A n \in ClusterNames : cluster'[n] = k => cluster[n] = k

\* A launcher that does not move stays in order: nobody makes a cluster in its name.
LEMMA ApartKeeps ==
  ASSUME NEW k \in Launchers, Orderly(k), Apart(k)
  PROVE  Orderly(k)'
BY DEF Orderly, Apart, Makes, Alive, Unguarded

\* A launcher's step is its own.
LEMMA OneLauncher ==
  ASSUME DemoInv, NEW l \in Launchers, DemoTypes', \A k \in Launchers \ {l} : Apart(k), Orderly(l)'
  PROVE  DemoInv'
BY ApartKeeps DEF DemoInv

-----------------------------------------------------------------------------
\* The steps of the main program that make nothing and end nothing.
MainStep(l) ==
  \/ CreateRegistry(l) \/ Bootstrap(l) \/ Build(l) \/ Push(l) \/ Deploy(l) \/ Verify(l)
  \/ OpenTunnel(l) \/ Refresh(l) \/ Quit(l) \/ Throws(l)

\* A rollout counts the pods it replaced.
LEMMA ReplacedCounts ==
  ASSUME DemoTypes, NEW n
  PROVE  Replaced(n) \in [ClusterNames -> Nat]
<1>1. pod \in [ClusterNames -> Nat] /\ \A x \in ClusterNames : pod[x] + 1 \in Nat
  BY DEF DemoTypes
<1> QED BY <1>1 DEF Replaced

\* What they leave of the types.
LEMMA MainTypes ==
  ASSUME DemoInv, NEW l \in Launchers, MainStep(l)
  PROVE  /\ registry' \in [ClusterNames -> Launchers \cup {NoLauncher}] /\ refreshes' \in 0..MaxRefreshes
         /\ pod' \in [ClusterNames -> Nat] /\ forward' \in [Launchers -> Nat]
         /\ tunnel' \in [Launchers -> {"off", "wanted", "open"}]
<1>1. DemoTypes /\ MaxRefreshes \in Nat
  BY DemoAssumption DEF DemoInv
<1>2. registry' \in [ClusterNames -> Launchers \cup {NoLauncher}]
  BY <1>1 DEF DemoTypes, MainStep, CreateRegistry, Bootstrap, Build, Push, Deploy, Verify, OpenTunnel, Refresh, Quit,
              Throws, host
<1>3. refreshes' \in 0..MaxRefreshes
  <2>1. refreshes \in 0..MaxRefreshes
    BY <1>1 DEF DemoTypes
  <2>2. UNCHANGED refreshes \/ (refreshes < MaxRefreshes /\ refreshes' = refreshes + 1)
    BY DEF MainStep, CreateRegistry, Bootstrap, Build, Push, Deploy, Verify, OpenTunnel, Refresh, Quit, Throws, counts
  <2> QED BY <1>1, <2>1, <2>2
<1>4. pod' \in [ClusterNames -> Nat]
  <2>1. UNCHANGED pod \/ pod' = Replaced(named[l])
    BY DEF MainStep, CreateRegistry, Bootstrap, Build, Push, Deploy, Verify, OpenTunnel, Refresh, Quit, Throws, host
  <2> QED BY <1>1, <2>1, ReplacedCounts DEF DemoTypes
<1>5. forward' \in [Launchers -> Nat]
  <2>1. CASE Deploy(l)
    <3>1. named[l] \in ClusterNames
      BY <2>1 DEF Deploy, Moves, DemoInv, Orderly, Unguarded
    <3>2. pod'[named[l]] \in Nat /\ forward[l] \in Nat
      BY <1>1, <1>4, <3>1 DEF DemoTypes
    <3>3. PICK v \in Nat : forward' = [forward EXCEPT ![l] = v]
      BY <2>1, <3>2 DEF Deploy
    <3> QED BY <1>1, <3>3 DEF DemoTypes
  <2>2. CASE UNCHANGED forward
    BY <1>1, <2>2 DEF DemoTypes
  <2> QED BY <2>1, <2>2 DEF MainStep, CreateRegistry, Bootstrap, Build, Push, Verify, OpenTunnel, Refresh, Quit, Throws, links
<1>6. tunnel' \in [Launchers -> {"off", "wanted", "open"}]
  BY <1>1 DEF DemoTypes, MainStep, CreateRegistry, Bootstrap, Build, Push, Deploy, Verify, OpenTunnel, Refresh, Quit,
              Throws, links
<1> QED BY <1>2, <1>3, <1>4, <1>5, <1>6

LEMMA MainKeeps ==
  ASSUME DemoInv, NEW l \in Launchers, MainStep(l)
  PROVE  DemoInv'
<1>1. PICK s \in MainSteps \ {"start", "delete", "purge", "await"} : step' = [step EXCEPT ![l] = s]
  BY DEF MainStep, CreateRegistry, Bootstrap, Build, Push, Deploy, Verify, OpenTunnel, Refresh, Quit, Throws, Moves, MainSteps
<1>2. /\ UNCHANGED <<named, targets, port, cluster, handler, tearing, failed, code, signals>> /\ Alive(l)
      /\ step[l] # "await" /\ ~Unguarded(l)
  BY DEF MainStep, CreateRegistry, Bootstrap, Build, Push, Deploy, Verify, OpenTunnel, Refresh, Quit, Throws, Moves,
         Unguarded, config, host, links, ending, counts
<1>3. \E w \in MainSteps \cup {"none"} : why' = [why EXCEPT ![l] = w]
  <2>1. DemoTypes
    BY DEF DemoInv
  <2>2. CASE UNCHANGED why
    <3>1. why = [why EXCEPT ![l] = why[l]] /\ why[l] \in MainSteps \cup {"none"}
      BY <2>1 DEF DemoTypes
    <3> QED BY <2>2, <3>1
  <2>3. CASE Throws(l)
    BY <2>1, <2>3 DEF Throws, DemoTypes
  <2> QED BY <2>2, <2>3 DEF MainStep, CreateRegistry, Bootstrap, Build, Push, Deploy, Verify, OpenTunnel, Refresh, Quit,
                            ending
<1>4. DemoTypes'
  BY <1>1, <1>2, <1>3, MainTypes DEF DemoInv, DemoTypes
<1>5. \A k \in Launchers \ {l} : Apart(k)
  BY <1>1, <1>2, <1>3 DEF DemoInv, DemoTypes, Apart
<1>6. Orderly(l)'
  BY <1>1, <1>2, <1>3 DEF DemoInv, DemoTypes, Orderly, Makes, Alive, Unguarded
<1> QED BY <1>4, <1>5, <1>6, OneLauncher

\* A name is drawn by a launcher that has made nothing yet.
LEMMA BeginKeeps ==
  ASSUME DemoInv, NEW l \in Launchers, Begin(l)
  PROVE  DemoInv'
<1>1. PICK n \in ClusterNames, t \in {"off", "wanted"} :
        /\ Moves(l, "start", IF Reused(n) THEN "database" ELSE "registry")
        /\ named' = [named EXCEPT ![l] = n] /\ tunnel' = [tunnel EXCEPT ![l] = t]
        /\ UNCHANGED <<targets, port, host, forward, ending, counts>>
  BY DEF Begin
<1>2. UNCHANGED <<targets, port, cluster, registry, pod, forward, handler, tearing, failed, why, code, refreshes, signals>>
  BY <1>1 DEF host, ending, counts
<1>3. PICK s \in {"database", "registry"} : step' = [step EXCEPT ![l] = s]
  BY <1>1 DEF Moves
<1>4. Alive(l) /\ step[l] = "start"
  BY <1>1 DEF Moves
<1>5. DemoTypes'
  BY <1>1, <1>2, <1>3 DEF DemoInv, DemoTypes, MainSteps
<1>6. \A k \in Launchers \ {l} : Apart(k)
  BY <1>1, <1>2, <1>3 DEF DemoInv, DemoTypes, Apart
<1>7. Orderly(l)'
  BY <1>1, <1>2, <1>3, <1>4 DEF DemoInv, DemoTypes, Orderly, Makes, Alive, Unguarded
<1> QED BY <1>5, <1>6, <1>7, OneLauncher

\* A cluster is made under the launcher's name.
LEMMA CreateKeeps ==
  ASSUME DemoInv, NEW l \in Launchers, CreateCluster(l)
  PROVE  DemoInv'
<1>1. /\ UNCHANGED <<named, targets, port, registry, pod, forward, tunnel, handler, tearing, failed, why, code,
                     refreshes, signals>>
      /\ step' = [step EXCEPT ![l] = "database"] /\ cluster' = [cluster EXCEPT ![named[l]] = l]
      /\ Alive(l) /\ step[l] = "cluster"
  BY DEF CreateCluster, Moves, config, links, ending, counts
<1>2. DemoTypes'
  BY <1>1 DEF DemoInv, DemoTypes, MainSteps
<1>3. \A k \in Launchers \ {l} : Apart(k)
  BY <1>1 DEF DemoInv, DemoTypes, Apart
<1>4. Orderly(l)'
  BY <1>1 DEF DemoInv, DemoTypes, Orderly, Makes, Alive, Unguarded
<1> QED BY <1>2, <1>3, <1>4, OneLauncher

\* What the entry of the teardown closes.
LEMMA TeardownTypes ==
  ASSUME DemoTypes, NEW l \in Launchers, BeginTeardown(l)
  PROVE  /\ tearing' \in [Launchers -> {"no", "cluster", "registry", "done"}] /\ forward' \in [Launchers -> Nat]
         /\ tunnel' \in [Launchers -> {"off", "wanted", "open"}]
         /\ tearing'[l] = (IF tearing[l] = "no" THEN "cluster" ELSE tearing[l])
         /\ \A k \in Launchers \ {l} : tearing'[k] = tearing[k]
BY DEF DemoTypes, BeginTeardown

\* The finally clause enters the teardown, or finds it entered and leaves.
LEMMA FinallyKeeps ==
  ASSUME DemoInv, NEW l \in Launchers, Finally(l)
  PROVE  DemoInv'
<1>0. DemoTypes /\ BeginTeardown(l)
  BY DEF DemoInv, Finally
<1>1. /\ UNCHANGED <<named, targets, port, cluster, registry, pod, handler, failed, why, code, refreshes, signals>>
      /\ Alive(l) /\ step[l] = "finally"
  BY DEF Finally, Moves, config, host, counts
<1>2. PICK s \in {"await", "over", "left"} : step' = [step EXCEPT ![l] = s] /\ (s = "await" <=> tearing[l] = "no")
  BY DEF Finally, Moves
<1>3. DemoTypes'
  BY <1>0, <1>1, <1>2, TeardownTypes DEF DemoTypes, MainSteps
<1>4. \A k \in Launchers \ {l} : Apart(k)
  BY <1>0, <1>1, <1>2, TeardownTypes DEF DemoTypes, Apart
<1>5. Orderly(l)'
  BY <1>0, <1>1, <1>2, TeardownTypes DEF DemoInv, DemoTypes, Orderly, Makes, Alive, Unguarded
<1> QED BY <1>3, <1>4, <1>5, OneLauncher

\* A signal enters the teardown, or ends a launcher whose teardown is under way or that has
\* no handlers.
LEMMA SignalKeeps ==
  ASSUME DemoInv, NEW l \in Launchers, Signal(l)
  PROVE  DemoInv'
<1>0. DemoTypes
  BY DEF DemoInv
<1>1. /\ UNCHANGED <<step, named, targets, port, cluster, registry, pod, failed, why, refreshes>>
      /\ Alive(l) /\ signals < MaxSignals /\ signals' = signals + 1
  BY DEF Signal, config, host
<1>2. signals' \in 0..MaxSignals
  <2>1. signals \in 0..MaxSignals /\ MaxSignals \in Nat
    BY DemoAssumption DEF DemoInv, DemoTypes
  <2> QED BY <1>1, <2>1
<1>3. PICK with \in {"130", "143"} :
        \/ Unguarded(l) /\ code' = [code EXCEPT ![l] = with] /\ UNCHANGED <<handler, tearing, links>>
        \/ /\ ~Unguarded(l) /\ handler' = [handler EXCEPT ![l] = with]
           /\ code' = [code EXCEPT ![l] = IF tearing[l] = "no" THEN @ ELSE with]
           /\ BeginTeardown(l)
  BY DEF Signal
<1>4. CASE Unguarded(l)
  <2>1. code' = [code EXCEPT ![l] = with] /\ UNCHANGED <<handler, tearing, forward, tunnel>>
    BY <1>3, <1>4 DEF links
  <2>2. DemoTypes'
    BY <1>0, <1>1, <1>2, <2>1 DEF DemoTypes
  <2>3. \A k \in Launchers \ {l} : Apart(k)
    BY <1>0, <1>1, <2>1 DEF DemoTypes, Apart
  <2>4. Orderly(l)'
    BY <1>0, <1>1, <2>1 DEF DemoInv, DemoTypes, Orderly, Makes, Alive, Unguarded
  <2> QED BY <2>2, <2>3, <2>4, OneLauncher
<1>5. CASE ~Unguarded(l)
  <2>1. handler' = [handler EXCEPT ![l] = with] /\ BeginTeardown(l)
    BY <1>3, <1>5
  <2>2. PICK c \in {"none", "130", "143"} : code' = [code EXCEPT ![l] = c] /\ (c = "none" <=> tearing[l] = "no")
    <3>1. code[l] = "none"
      BY <1>1 DEF Alive
    <3>2. code' = [code EXCEPT ![l] = IF tearing[l] = "no" THEN code[l] ELSE with]
      BY <1>3, <1>5
    <3> QED BY <3>1, <3>2
  <2>3. DemoTypes'
    BY <1>0, <1>1, <1>2, <2>1, <2>2, TeardownTypes DEF DemoTypes
  <2>4. \A k \in Launchers \ {l} : Apart(k)
    BY <1>0, <1>1, <2>1, <2>2, TeardownTypes DEF DemoTypes, Apart
  <2>5. Orderly(l)'
    BY <1>0, <1>1, <1>5, <2>1, <2>2, TeardownTypes DEF DemoInv, DemoTypes, Orderly, Makes, Alive, Unguarded
  <2> QED BY <2>3, <2>4, <2>5, OneLauncher
<1> QED BY <1>4, <1>5

\* The teardown deletes the cluster of the launcher's name, or notes that it could not.
LEMMA TeardownKeeps ==
  ASSUME DemoInv, NEW l \in Launchers, DeleteCluster(l) \/ DeleteRegistry(l)
  PROVE  DemoInv'
<1>0. DemoTypes /\ Orderly(l) /\ NoLauncher \notin Launchers
  BY DemoAssumption DEF DemoInv
<1>1. CASE DeleteCluster(l)
  <2>1. /\ UNCHANGED <<step, named, targets, port, pod, forward, tunnel, registry, handler, why, code, refreshes, signals>>
        /\ tearing' = [tearing EXCEPT ![l] = "registry"] /\ Alive(l) /\ tearing[l] = "cluster"
        /\ \/ cluster' = [cluster EXCEPT ![named[l]] = NoLauncher] /\ UNCHANGED failed
           \/ failed' = [failed EXCEPT ![l] = TRUE] /\ UNCHANGED cluster
    BY <1>1 DEF DeleteCluster, Gone, config, links, counts
  <2>2. DemoTypes'
    BY <1>0, <2>1 DEF DemoTypes
  <2>3. \A k \in Launchers \ {l} : Apart(k)
    BY <1>0, <2>1 DEF DemoTypes, Apart
  <2>4. Orderly(l)'
    BY <1>0, <2>1 DEF DemoTypes, Orderly, Makes, Alive, Unguarded
  <2> QED BY <2>2, <2>3, <2>4, OneLauncher
<1>2. CASE DeleteRegistry(l)
  <2>1. /\ UNCHANGED <<step, named, targets, port, pod, forward, tunnel, cluster, failed, handler, why, code, refreshes, signals>>
        /\ tearing' = [tearing EXCEPT ![l] = "done"] /\ Alive(l) /\ tearing[l] = "registry"
        /\ registry' = [registry EXCEPT ![named[l]] = NoLauncher] \/ UNCHANGED registry
    BY <1>2 DEF DeleteRegistry, Gone, config, links, counts
  <2>2. DemoTypes'
    BY <1>0, <2>1 DEF DemoTypes
  <2>3. \A k \in Launchers \ {l} : Apart(k)
    BY <1>0, <2>1 DEF DemoTypes, Apart
  <2>4. Orderly(l)'
    BY <1>0, <2>1 DEF DemoTypes, Orderly, Makes, Alive, Unguarded
  <2> QED BY <2>2, <2>3, <2>4, OneLauncher
<1> QED BY <1>1, <1>2

\* A process ends: with 0 only when nothing failed and its cluster is gone, or when it has
\* made none.
LEMMA ExitKeeps ==
  ASSUME DemoInv, NEW l \in Launchers,
         ExitOK(l) \/ ExitFailed(l) \/ ExitSignalled(l) \/ Declines(l) \/ PurgeEnds(l)
  PROVE  DemoInv'
<1>0. DemoTypes /\ Orderly(l)
  BY DEF DemoInv
<1>1. PICK with \in {"0", "1", "130", "143"} :
        /\ ExitsWith(l, with)
        /\ with = "0" => \/ Unguarded(l)
                         \/ step[l] = "await" /\ tearing[l] = "done" /\ why[l] = "none" /\ ~failed[l]
  <2>1. CASE ExitSignalled(l)
    BY <1>0, <2>1 DEF ExitSignalled, DemoTypes
  <2>2. CASE ExitOK(l) \/ ExitFailed(l) \/ Declines(l) \/ PurgeEnds(l)
    BY <2>2 DEF ExitOK, ExitFailed, Declines, PurgeEnds, Unguarded
  <2> QED BY <2>1, <2>2
<1>2. /\ UNCHANGED <<step, named, targets, port, cluster, registry, pod, forward, tunnel, tearing, failed, handler, why,
                     refreshes, signals>>
      /\ Alive(l) /\ code' = [code EXCEPT ![l] = with]
  BY <1>1 DEF ExitsWith, config, host, links, counts
<1>3. DemoTypes'
  BY <1>0, <1>1, <1>2 DEF DemoTypes
<1>4. \A k \in Launchers \ {l} : Apart(k)
  BY <1>0, <1>1, <1>2 DEF DemoTypes, Apart
<1>5. Orderly(l)'
  BY <1>0, <1>1, <1>2 DEF DemoTypes, Orderly, Makes, Alive, Unguarded
<1> QED BY <1>3, <1>4, <1>5, OneLauncher

\* --delete makes nothing; what it takes down may be another launcher's.
LEMMA PurgeKeeps ==
  ASSUME DemoInv, NEW l \in Launchers, BeginDelete(l) \/ PurgeCluster(l) \/ PurgeRegistry(l)
  PROVE  DemoInv'
<1>0. DemoTypes /\ Orderly(l) /\ NoLauncher \notin Launchers
  BY DemoAssumption DEF DemoInv
<1>1. PICK s \in {"delete", "purge"} : step' = [step EXCEPT ![l] = s]
  BY DEF BeginDelete, PurgeCluster, PurgeRegistry, Moves
<1>2. /\ UNCHANGED <<port, pod, forward, tunnel, handler, tearing, failed, why, code, refreshes, signals>>
      /\ Alive(l) /\ Unguarded(l)
  BY DEF BeginDelete, PurgeCluster, PurgeRegistry, Moves, Unguarded, config, host, links, ending, counts
<1>3. /\ targets' \in [Launchers -> SUBSET ClusterNames]
      /\ named' \in [Launchers -> ClusterNames \cup {NoName}] /\ \A k \in Launchers \ {l} : named'[k] = named[k]
      /\ UNCHANGED cluster \/ \E n \in ClusterNames : cluster' = [cluster EXCEPT ![n] = NoLauncher]
      /\ registry' \in [ClusterNames -> Launchers \cup {NoLauncher}]
  <2>1. CASE BeginDelete(l)
    <3>1. PICK names \in SUBSET ClusterNames : targets' = [targets EXCEPT ![l] = names]
      BY <2>1 DEF BeginDelete
    <3>2. UNCHANGED <<named, cluster, registry>>
      BY <2>1 DEF BeginDelete, host
    <3> QED BY <1>0, <3>1, <3>2 DEF DemoTypes
  <2>2. CASE PurgeCluster(l)
    <3>1. PICK n \in targets[l] : /\ cluster' = Gone(cluster, n) /\ named' = [named EXCEPT ![l] = n]
                                  /\ targets' = [targets EXCEPT ![l] = targets[l] \ {n}]
      BY <2>2 DEF PurgeCluster
    <3>2. n \in ClusterNames /\ UNCHANGED registry
      BY <1>0, <2>2 DEF DemoTypes, PurgeCluster
    <3> QED BY <1>0, <3>1, <3>2 DEF DemoTypes, Gone
  <2>3. CASE PurgeRegistry(l)
    <3>1. UNCHANGED <<named, targets, cluster>>
      BY <2>3 DEF PurgeRegistry, config
    <3>2. UNCHANGED registry \/ registry' = [registry EXCEPT ![named[l]] = NoLauncher]
      BY <2>3 DEF PurgeRegistry, Gone
    <3> QED BY <1>0, <3>1, <3>2 DEF DemoTypes
  <2> QED BY <2>1, <2>2, <2>3
<1>4. DemoTypes'
  BY <1>0, <1>1, <1>2, <1>3 DEF DemoTypes, MainSteps
<1>5. \A k \in Launchers \ {l} : Apart(k)
  BY <1>0, <1>1, <1>2, <1>3 DEF DemoTypes, Apart
<1>6. Orderly(l)'
  BY <1>0, <1>1, <1>2, <1>3 DEF DemoTypes, Orderly, Makes, Alive, Unguarded
<1> QED BY <1>4, <1>5, <1>6, OneLauncher

-----------------------------------------------------------------------------
\* The invariant holds at the start and in every step.
THEOREM DemoInductive ==
  /\ DemoInit => DemoInv
  /\ DemoInv /\ [DemoNext]_demoVars => DemoInv'
<1>1. ASSUME DemoInit PROVE DemoInv
  <2>1. 0 \in 0..MaxRefreshes /\ 0 \in 0..MaxSignals /\ NoLauncher \notin Launchers
    BY DemoAssumption
  <2>2. DemoTypes
    BY <1>1, <2>1 DEF DemoInit, DemoTypes, MainSteps
  <2>3. \A l \in Launchers : Orderly(l)
    BY <1>1, <2>1 DEF DemoInit, Orderly, Makes, Alive, Unguarded
  <2> QED BY <2>2, <2>3 DEF DemoInv
<1>2. ASSUME DemoInv, DemoNext PROVE DemoInv'
  BY <1>2, MainKeeps, BeginKeeps, CreateKeeps, FinallyKeeps, SignalKeeps, TeardownKeeps, ExitKeeps, PurgeKeeps
     DEF DemoNext, MainStep
<1>3. ASSUME DemoInv, UNCHANGED demoVars PROVE DemoInv'
  BY <1>3 DEF demoVars, config, host, links, ending, counts, DemoInv, DemoTypes, Orderly, Makes, Alive, Unguarded
<1> QED BY <1>1, <1>2, <1>3

\* A launcher that ends with 0 threw nothing, was not signalled and has taken down the
\* cluster it made (DemoSound); and its variables are well formed (DemoTypeOK).
THEOREM DemoCorrect == DemoSpec => [](DemoTypeOK /\ DemoSound)
<1>1. DemoInv => DemoTypeOK /\ DemoSound
  BY DEF DemoInv, DemoTypes, DemoTypeOK, DemoSound, Orderly, Makes
<1> QED BY <1>1, DemoInductive, PTL DEF DemoSpec

-----------------------------------------------------------------------------
(* The components together.                                                *)

\* A behaviour of the whole is one of each component: nothing that one does touches the
\* state of another.
LEMMA AccessRuns ==
  AccessSpec => /\ PasskeySpec /\ LabelSpec /\ FieldSpec /\ TokensSpec
                /\ ProvisionSpec /\ ReleaseSpec /\ DemoSpec
<1>1. AccessInit => /\ PasskeyInit /\ LabelInit /\ FieldInit /\ TokensInit
                    /\ ProvisionInit /\ ReleaseInit /\ DemoInit
  BY DEF AccessInit
<1>2. [AccessNext]_accessVars =>
        /\ [PasskeyNext]_pkVars /\ [LabelNext]_labelVars /\ [FieldNext]_fieldVars
        /\ [TokensNext]_tokenVars /\ [ProvisionNext]_provisionVars
        /\ [ReleaseNext]_releaseVars /\ [DemoNext]_demoVars
  BY DEF AccessNext, accessVars
<1> QED
  BY <1>1, <1>2, PTL DEF AccessSpec, PasskeySpec, LabelSpec, FieldSpec, TokensSpec, ProvisionSpec,
     ReleaseSpec, DemoSpec

\* Every variable of the seven keeps to its type, for any value of the constants.
THEOREM AccessTypes == AccessSpec => []AccessTypeOK
  BY AccessRuns, PasskeyCorrect, LabelCorrect, FieldCorrect, TokensCorrect, ProvisionCorrect,
     ReleaseCorrect, DemoCorrect, PTL DEF AccessTypeOK

\* An account whose failures have reached the threshold is locked, unless its wait ran out, the
\* failure was cut in half or a slower one of fewer failures cleared the lock; a token authorises
\* one call at most, and none once an invalidation that found its row has been answered.
THEOREM CredentialsHold == AccessSpec => []CredentialsSound
  BY AccessRuns, PasskeyCorrect, TokensCorrect, PTL DEF CredentialsSound

\* A text reaches only readers of the tenant it was written for; a backfill that ends without
\* an error leaves nothing in the clear, and nothing is encrypted twice.
THEOREM SealsHold == AccessSpec => []SealedSound
  BY AccessRuns, LabelCorrect, FieldCorrect, PTL DEF SealedSound

\* No deployment has an image the database is not migrated for, no worker one that the app
\* has not served, and a launcher exits with 0 only when nothing threw and its cluster is gone.
THEOREM OperationGated == AccessSpec => []OperationSound
  BY AccessRuns, ReleaseCorrect, DemoCorrect, PTL DEF OperationSound

\* "Provisioning complete." is printed only when every resource but the rule that nothing
\* depends on is ready.
THEOREM ProvisionKeeps == AccessSpec => ProvisionWhole
  BY AccessRuns, ProvisionCorrect, PTL
=============================================================================
