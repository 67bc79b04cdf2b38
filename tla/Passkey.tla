------------------------------ MODULE Passkey ------------------------------
(***************************************************************************)
(* The passkeys of one user: registration, login, lockout and recovery.    *)
(*                                                                         *)
(*   apps/server/src/api/passkey.ts    packages/db/auth-lockout.ts         *)
(*   packages/db/recovery.ts           packages/db/schema.sql              *)
(*   apps/server/src/security/rate-limiter.ts                              *)
(*                                                                         *)
(* A ceremony is a call of two requests: "begin" hands out a challenge,    *)
(* the authenticator signs it, "complete" reads the NEWEST challenge of    *)
(* the user, deletes it, and verifies.  Every statement is a step, so two  *)
(* ceremonies of one user meet in every order.                             *)
(***************************************************************************)
EXTENDS Naturals, FiniteSets

CONSTANTS
  Ceremonies,     \* ceremonies under way at a time
  Keys,           \* authenticators of the user
  FirstKeys,      \* those that are enrolled from the start
  Counting,       \* those that count their signatures; the others always say 0
  Threshold,      \* LOCKOUT_THRESHOLD
  MaxChallenges,  \* bound: challenges handed out
  MaxRecoveries,  \* bound: recoveries started
  MaxRemoved,     \* bound: keys that the user removes
  MaxSetups,      \* bound: passphrases that are set
  NoKey           \* no authenticator

ASSUME PasskeyAssumption ==
  /\ FirstKeys \subseteq Keys /\ Counting \subseteq Keys /\ FirstKeys # {}
  /\ {Threshold, MaxChallenges, MaxRecoveries, MaxRemoved, MaxSetups} \subseteq Nat
  /\ Threshold > 0
  /\ NoKey \notin Keys

VARIABLES
  enrolled,    \* passkey_credentials: the keys that have a row
  counter,     \* passkey_credentials.counter
  signs,       \* the signature counter inside each authenticator
  challenge,   \* passkey_challenges that have not expired, by age
  lockout,     \* auth_lockout: its row, failed_count, and which of the two waits is in force
  phrases,     \* rows of recovery_passphrases
  ceremony,    \* per ceremony: where it is and what it has read
  used,        \* bounds: challenges, recoveries, removals and setups so far
  lapse        \* history: what let go of a lockout that was due

pkVars == <<enrolled, counter, signs, challenge, lockout, phrases, ceremony, used, lapse>>

Kinds == {"register", "login", "recover", "setup"}
Types == {"registration", "authentication", "recovery"}

\* What a ceremony holds: its key and the one it registers, the challenges that
\* were signed for it, the challenge row it has read, the counter it has read
\* and the one its authenticator signed.
NoCeremony == [kind |-> "none", pc |-> "idle", key |-> NoKey, new |-> NoKey,
               mine |-> 0, mineReg |-> 0, row |-> 0, seen |-> 0, count |-> 0]

PasskeyInit ==
  /\ enrolled  = FirstKeys
  /\ counter   = [k \in Keys |-> 0]
  /\ signs     = [k \in Keys |-> 0]
  /\ challenge = {}
  /\ lockout   = [there |-> FALSE, count |-> 0, delay |-> FALSE, locked |-> FALSE]
  /\ phrases   = 0
  /\ ceremony  = [c \in Ceremonies |-> NoCeremony]
  /\ used      = [challenges |-> 0, recoveries |-> 0, removed |-> 0, setups |-> 0]
  /\ lapse     = "none"

At(c, kind, pc) == ceremony[c].kind = kind /\ ceremony[c].pc = pc
Step(c, pc)     == ceremony' = [ceremony EXCEPT ![c].pc = pc]
Ends(c)         == ceremony' = [ceremony EXCEPT ![c] = NoCeremony]

\* checkLockout.
Blocked == lockout.locked \/ lockout.delay

\* ORDER BY created_at DESC LIMIT 1.
Newest(type) ==
  LET rows == {x \in challenge : x.type = type}
  IN  {x.n : x \in {x \in rows : \A y \in rows : y.n <= x.n}}

Issue(type) ==
  /\ used.challenges < MaxChallenges
  /\ challenge' = challenge \cup {[n |-> used.challenges + 1, type |-> type]}

UnchangedKeys    == UNCHANGED <<enrolled, counter>>
UnchangedLockout == UNCHANGED <<lockout, lapse>>

-----------------------------------------------------------------------------
(* The begin requests.                                                     *)

\* register/begin; the authenticator makes a new key pair.
RegisterBegin(c, k) ==
  /\ ceremony[c].pc = "idle" /\ k \notin enrolled /\ counter[k] = 0
  /\ \A d \in Ceremonies : ceremony[d].new # k
  /\ Issue("registration")
  /\ used' = [used EXCEPT !.challenges = @ + 1]
  /\ ceremony' = [ceremony EXCEPT ![c] =
       [NoCeremony EXCEPT !.kind = "register", !.pc = "registration",
                          !.new = k, !.mineReg = used.challenges + 1]]
  /\ UnchangedKeys /\ UnchangedLockout /\ UNCHANGED <<signs, phrases>>

\* A signature over challenge n, with the authenticator's counter.
Sign(k) ==
  signs' = IF k \in Counting THEN [signs EXCEPT ![k] = @ + 1] ELSE signs

\* login/begin, unless the limiter refuses it.
LoginBegin(c, k) ==
  /\ ceremony[c].pc = "idle" /\ k \in enrolled
  /\ Issue("authentication") /\ Sign(k)
  /\ used' = [used EXCEPT !.challenges = @ + 1]
  /\ ceremony' = [ceremony EXCEPT ![c] =
       [NoCeremony EXCEPT !.kind = "login", !.pc = "credential", !.key = k,
                          !.mine = used.challenges + 1, !.count = signs'[k]]]
  /\ UnchangedKeys /\ UnchangedLockout /\ UNCHANGED phrases

\* recovery/begin: the passphrase is read first, the challenge inserted after it.
StartRecovery(c, k, new) ==
  /\ ceremony[c].pc = "idle" /\ k \in enrolled /\ new \notin enrolled /\ counter[new] = 0
  /\ \A d \in Ceremonies : ceremony[d].new # new
  /\ phrases > 0 /\ used.recoveries < MaxRecoveries
  /\ used' = [used EXCEPT !.recoveries = @ + 1]
  /\ ceremony' = [ceremony EXCEPT ![c] =
       [NoCeremony EXCEPT !.kind = "recover", !.pc = "begin", !.key = k, !.new = new]]
  /\ UnchangedKeys /\ UnchangedLockout /\ UNCHANGED <<signs, challenge, phrases>>

RecoveryBegin(c) ==
  /\ At(c, "recover", "begin")
  /\ Issue("recovery") /\ Sign(ceremony[c].key)
  /\ used' = [used EXCEPT !.challenges = @ + 1]
  /\ ceremony' = [ceremony EXCEPT ![c].pc = "register", ![c].mine = used.challenges + 1,
                                  ![c].count = signs'[ceremony[c].key]]
  /\ UnchangedKeys /\ UnchangedLockout /\ UNCHANGED phrases

\* The client also asks for a registration challenge before it completes.
RecoveryRegister(c) ==
  /\ At(c, "recover", "register")
  /\ Issue("registration")
  /\ used' = [used EXCEPT !.challenges = @ + 1]
  /\ ceremony' = [ceremony EXCEPT ![c].pc = "credential", ![c].mineReg = used.challenges + 1]
  /\ UnchangedKeys /\ UnchangedLockout /\ UNCHANGED <<signs, phrases>>

\* recovery/setup: setRecoveryPassphrase deletes, then inserts.
StartSetup(c) ==
  /\ ceremony[c].pc = "idle" /\ used.setups < MaxSetups
  /\ used' = [used EXCEPT !.setups = @ + 1]
  /\ phrases' = 0
  /\ ceremony' = [ceremony EXCEPT ![c] = [NoCeremony EXCEPT !.kind = "setup", !.pc = "insert"]]
  /\ UnchangedKeys /\ UnchangedLockout /\ UNCHANGED <<signs, challenge>>

InsertPhrase(c) ==
  /\ At(c, "setup", "insert")
  /\ phrases' = phrases + 1 /\ Ends(c)
  /\ UnchangedKeys /\ UnchangedLockout /\ UNCHANGED <<signs, challenge, used>>

-----------------------------------------------------------------------------
(* The complete requests.                                                  *)

\* The row of the credential.  The limiter may refuse a login here too.
ReadCredential(c) ==
  LET k == ceremony[c].key IN
  /\ ceremony[c].pc = "credential"
  /\ \/ /\ k \notin enrolled \/ ceremony[c].kind = "login"
        /\ Ends(c)
     \/ /\ k \in enrolled
        /\ ceremony' = [ceremony EXCEPT ![c].seen = counter[k],
             ![c].pc = IF ceremony[c].kind = "login" THEN "lockout" ELSE "recovery"]
  /\ UnchangedKeys /\ UnchangedLockout /\ UNCHANGED <<signs, challenge, phrases, used>>

CheckLockout(c) ==
  /\ At(c, "login", "lockout")
  /\ IF Blocked THEN Ends(c) ELSE Step(c, "authentication")
  /\ UnchangedKeys /\ UnchangedLockout /\ UNCHANGED <<signs, challenge, phrases, used>>

\* pc is the type of the challenge that is wanted.  Only a login records that
\* there was none.
ReadChallenge(c) ==
  LET type == ceremony[c].pc IN
  /\ type \in Types
  /\ IF Newest(type) = {}
     THEN IF ceremony[c].kind = "login" THEN Step(c, "fail") ELSE Ends(c)
     ELSE \E n \in Newest(type) :
            ceremony' = [ceremony EXCEPT ![c].row = n,
              ![c].pc = CASE type = "registration"   -> "spend registration"
                          [] type = "authentication" -> "spend authentication"
                          [] type = "recovery"       -> "spend recovery"]
  /\ UnchangedKeys /\ UnchangedLockout /\ UNCHANGED <<signs, challenge, phrases, used>>

\* The row is deleted by its id; another ceremony may have deleted it already.
SpendChallenge(c) ==
  LET type == ceremony[c].pc IN
  /\ type \in {"spend registration", "spend authentication", "spend recovery"}
  /\ challenge' = {x \in challenge : x.n # ceremony[c].row}
  /\ Step(c, CASE type = "spend registration"   -> "attest"
               [] type = "spend authentication" -> "assert"
               [] type = "spend recovery"       -> "assert")
  /\ UnchangedKeys /\ UnchangedLockout /\ UNCHANGED <<signs, phrases, used>>

\* The library answers "not verified" or throws; the catch around the handler
\* records nothing.
VerifyAssertion(c) ==
  LET s == ceremony[c]
      good == s.row = s.mine /\ (s.count > s.seen \/ s.count = 0) IN
  /\ s.pc = "assert"
  /\ \/ /\ good
        /\ Step(c, IF s.kind = "login" THEN "counter" ELSE "registration")
     \/ /\ ~good
        /\ \/ Ends(c)
           \/ s.kind = "login" /\ Step(c, "fail")
  /\ UnchangedKeys /\ UnchangedLockout /\ UNCHANGED <<signs, challenge, phrases, used>>

VerifyAttestation(c) ==
  /\ ceremony[c].pc = "attest"
  /\ IF ceremony[c].row = ceremony[c].mineReg THEN Step(c, "insert key") ELSE Ends(c)
  /\ UnchangedKeys /\ UnchangedLockout /\ UNCHANGED <<signs, challenge, phrases, used>>

InsertKey(c) ==
  /\ ceremony[c].pc = "insert key"
  /\ enrolled' = enrolled \cup {ceremony[c].new}
  /\ IF ceremony[c].kind = "register" THEN Ends(c) ELSE Step(c, "revoke")
  /\ UnchangedLockout /\ UNCHANGED <<counter, signs, challenge, phrases, used>>

\* revokeOldPasskeys.
RevokeOldPasskeys(c) ==
  /\ At(c, "recover", "revoke")
  /\ enrolled' = enrolled \cap {ceremony[c].new} /\ Step(c, "reset")
  /\ UnchangedLockout /\ UNCHANGED <<counter, signs, challenge, phrases, used>>

\* The row's counter becomes the one that was verified, whatever it is by now.
UpdateCounter(c) ==
  LET s == ceremony[c] IN
  /\ At(c, "login", "counter")
  /\ counter' = IF s.key \in enrolled THEN [counter EXCEPT ![s.key] = s.count] ELSE counter
  /\ Step(c, "reset")
  /\ UnchangedLockout /\ UNCHANGED <<enrolled, signs, challenge, phrases, used>>

\* resetLockout; a session follows.
ResetLockout(c) ==
  /\ ceremony[c].pc = "reset"
  /\ lockout' = [there |-> TRUE, count |-> 0, delay |-> FALSE, locked |-> FALSE]
  /\ lapse' = "none"
  /\ Ends(c)
  /\ UnchangedKeys /\ UNCHANGED <<signs, challenge, phrases, used>>

-----------------------------------------------------------------------------
(* recordFailedAttempt: an upsert that counts, then an update that blocks. *)

\* The first failure of an account that has no row yet sets its delay at once.
CountFailure(c) ==
  /\ At(c, "login", "fail")
  /\ lockout' = IF lockout.there THEN [lockout EXCEPT !.count = @ + 1]
                ELSE [there |-> TRUE, count |-> 1, delay |-> TRUE, locked |-> FALSE]
  /\ ceremony' = [ceremony EXCEPT ![c].pc = "block", ![c].seen = lockout'.count]
  /\ UnchangedKeys /\ UNCHANGED <<signs, challenge, phrases, used, lapse>>

\* Failures that have been counted to the threshold, and have their update to run.
Locking == {c \in Ceremonies : At(c, "login", "block") /\ ceremony[c].seen >= Threshold}

\* As BlockFailure below, had the fifth failure been left to a later one to block.
BlockFailureWrong(c) ==
  /\ At(c, "login", "block")
  /\ lockout' = [lockout EXCEPT !.delay = ceremony[c].seen <= Threshold,
                                !.locked = ceremony[c].seen > Threshold]
  /\ lapse' = IF c \in Locking THEN "none"
              ELSE IF lockout.locked /\ lockout.count >= Threshold THEN "overtaken" ELSE lapse
  /\ Ends(c)
  /\ UnchangedKeys /\ UNCHANGED <<signs, challenge, phrases, used>>

\* Each of the two updates sets its own wait and clears the other, whatever has been
\* counted since.
BlockFailure(c) ==
  /\ At(c, "login", "block")
  /\ lockout' = [lockout EXCEPT !.delay = ceremony[c].seen < Threshold,
                                !.locked = ceremony[c].seen >= Threshold]
  /\ lapse' = IF c \in Locking THEN "none"
              ELSE IF lockout.locked /\ lockout.count >= Threshold THEN "overtaken" ELSE lapse
  /\ Ends(c)
  /\ UnchangedKeys /\ UNCHANGED <<signs, challenge, phrases, used>>

-----------------------------------------------------------------------------
(* The user's own removal of a key, the clock, and a server that stops.    *)

RemoveKey(k) ==
  /\ k \in enrolled /\ used.removed < MaxRemoved
  /\ used' = [used EXCEPT !.removed = @ + 1]
  /\ enrolled' = enrolled \ {k}
  /\ UnchangedLockout /\ UNCHANGED <<counter, signs, challenge, phrases,  ceremony>>

WaitEnds ==
  /\ Blocked
  /\ lockout' = [lockout EXCEPT !.delay = FALSE, !.locked = FALSE] /\ lapse' = "waited"
  /\ UnchangedKeys /\ UNCHANGED <<signs, challenge, phrases, ceremony, used>>

Expire(x) ==
  /\ x \in challenge
  /\ challenge' = challenge \ {x}
  /\ UnchangedKeys /\ UnchangedLockout /\ UNCHANGED <<signs, phrases, ceremony, used>>

LoseCeremony(c) ==
  /\ ceremony[c].pc # "idle" /\ Ends(c)
  /\ lapse' = IF c \in Locking /\ ~lockout.locked THEN "cut" ELSE lapse
  /\ UnchangedKeys /\ UNCHANGED <<lockout, signs, challenge, phrases, used>>

PasskeyNext ==
  \/ \E c \in Ceremonies, k \in Keys : RegisterBegin(c, k) \/ LoginBegin(c, k)
  \/ \E c \in Ceremonies, k, new \in Keys : StartRecovery(c, k, new)
  \/ \E c \in Ceremonies :
       \/ RecoveryBegin(c) \/ RecoveryRegister(c) \/ StartSetup(c) \/ InsertPhrase(c)
       \/ ReadCredential(c) \/ CheckLockout(c) \/ ReadChallenge(c) \/ SpendChallenge(c)
       \/ VerifyAssertion(c) \/ VerifyAttestation(c)
       \/ InsertKey(c) \/ RevokeOldPasskeys(c) \/ UpdateCounter(c) \/ ResetLockout(c)
       \/ CountFailure(c) \/ BlockFailure(c) \/ LoseCeremony(c)
  \/ \E k \in Keys : RemoveKey(k)
  \/ WaitEnds
  \/ \E x \in challenge : Expire(x)

PasskeySpec == PasskeyInit /\ [][PasskeyNext]_pkVars

-----------------------------------------------------------------------------
PasskeyTypeOK ==
  /\ enrolled \subseteq Keys
  /\ counter \in [Keys -> Nat] /\ signs \in [Keys -> Nat]
  /\ challenge \subseteq [n : Nat, type : Types]
  /\ lockout \in [there : BOOLEAN, count : Nat, delay : BOOLEAN, locked : BOOLEAN]
  /\ phrases \in Nat
  /\ \A c \in Ceremonies : ceremony[c].kind \in Kinds \cup {"none"}
  /\ lapse \in {"none", "waited", "cut", "overtaken"}

\* The failures of the account have been counted to the threshold since its last
\* success, and none of them has its update still to run.
LockoutDue == lockout.count >= Threshold /\ Locking = {}

\* recordFailedAttempt counts in one statement and blocks in another.  However logins,
\* recoveries, successes and stops overlap, an account whose failures have reached the
\* threshold is locked, unless a wait of its has run out since, the server stopped
\* between the two statements of the failure that reached it, or the update of a slower
\* failure, which had counted fewer, has cleared the lock.
LockoutAccounted == LockoutDue /\ lapse = "none" => lockout.locked

\* What the header of auth-lockout.ts says: five failures lock the account for the time
\* of the lockout.  The update of a slower failure does not keep to it.
LockoutHolds == LockoutDue /\ lapse \notin {"waited", "cut"} => lockout.locked
=============================================================================
