-------------------------------- MODULE Tokens --------------------------------
(***************************************************************************)
(* Signed tokens: the session of one browser and the single-use tokens of  *)
(* worker pods.                                                            *)
(*                                                                         *)
(*   apps/server/src/auth/jwt.ts           apps/server/src/api/auth.ts     *)
(*   apps/server/src/auth/worker-token.ts  packages/db/worker-tokens.ts    *)
(*   apps/server/src/api/worker-tokens.ts  packages/db/revocation.ts       *)
(*                                                                         *)
(* A token is its jti, the key that signed it and its expiry in whole      *)
(* seconds.  The clock runs in half seconds: verifyJwt compares whole      *)
(* seconds, the database compares instants.  During a roll-out two servers *)
(* answer, each with the keys it started with.                             *)
(***************************************************************************)
EXTENDS Naturals, FiniteSets, Sequences

CONSTANTS
  Servers,       \* server processes that answer at a time
  TokenCalls,    \* requests under way at a time
  Pods,          \* worker pods
  SessionLife,   \* seconds a session token lives
  WorkerLife,    \* seconds a worker token lives
  MaxTokens,     \* bound: tokens signed
  MaxClock,      \* bound: half seconds that pass
  MaxRotations,  \* bound: rotations of the signing key
  NoToken        \* no token

ASSUME TokensAssumption ==
  /\ {SessionLife, WorkerLife, MaxTokens, MaxClock, MaxRotations} \subseteq Nat
  /\ NoToken \notin Nat

VARIABLES
  token,      \* every token signed: kind, key, expiry and pod, by jti
  revoked,    \* revoked_tokens
  row,        \* worker_tokens by jti: "open", "consumed" or "invalidated"
  clock,      \* half seconds
  epoch,      \* the signing key that is configured
  serverKey,  \* per server: the key it started with; it also verifies the one before
  cookie,     \* the session token in the browser
  tokenCall,  \* per request: where it is, its token and the one it signed
  handed,     \* history: the session tokens the browser has received
  accepted,   \* history: how often each token authorised a worker
  closed      \* history: tokens invalidated by a call that has been answered

tokenVars == <<token, revoked, row, clock, epoch, serverKey, cookie, tokenCall, handed, accepted, closed>>

Jtis     == DOMAIN token
IdleCall == [pc |-> "idle", jti |-> NoToken, new |-> NoToken, pod |-> NoToken, todo |-> {}]

TokensInit ==
  /\ token = <<>> /\ revoked = {} /\ row = <<>>
  /\ clock = 0 /\ epoch = 1
  /\ serverKey = [s \in Servers |-> 1]
  /\ cookie = NoToken
  /\ tokenCall = [c \in TokenCalls |-> IdleCall]
  /\ handed = {} /\ accepted = <<>> /\ closed = {}

Waiting(c, pc) == tokenCall[c].pc = pc
Goes(c, pc)    == tokenCall' = [tokenCall EXCEPT ![c].pc = pc]
Answer(c)      == tokenCall' = [tokenCall EXCEPT ![c] = IdleCall]

\* Both sides of verifyJwt's comparison are whole seconds.
Expired(j) == token[j].exp < clock \div 2

\* The current key pair and the old one.
Verifies(s, j) == token[j].key \in {serverKey[s], serverKey[s] - 1} /\ ~Expired(j)

\* signJwt: the next jti.
SignJwt(s, kind, life, pod) ==
  /\ Len(token) < MaxTokens
  /\ token'    = Append(token, [kind |-> kind, key |-> serverKey[s], pod |-> pod,
                                exp |-> (clock \div 2) + life])
  /\ accepted' = Append(accepted, 0)

UnchangedTime == UNCHANGED <<clock, epoch, serverKey>>

-----------------------------------------------------------------------------
(* Sessions.                                                               *)

\* A login that succeeded hands out the first token of a chain.
IssueSession(s) ==
  /\ cookie = NoToken /\ \A j \in Jtis : token[j].kind # "session"
  /\ SignJwt(s, "session", SessionLife, NoToken)
  /\ cookie' = Len(token') /\ handed' = handed \cup {Len(token')}
  /\ UnchangedTime /\ UNCHANGED <<revoked, row, tokenCall, closed>>

\* token/refresh: the signature and the expiry, then the revocation.
StartRefresh(c, s) ==
  /\ Waiting(c, "idle") /\ cookie # NoToken /\ Verifies(s, cookie)
  /\ tokenCall' = [tokenCall EXCEPT ![c] = [IdleCall EXCEPT !.pc = "refresh", !.jti = cookie]]
  /\ UnchangedTime /\ UNCHANGED <<token, revoked, row, cookie, handed, accepted, closed>>

\* isRevoked refuses; otherwise the new token is signed.
RefreshSigns(c, s) ==
  /\ Waiting(c, "refresh")
  /\ IF tokenCall[c].jti \in revoked
     THEN Answer(c) /\ UNCHANGED <<token, accepted>>
     ELSE /\ SignJwt(s, "session", SessionLife, NoToken)
          /\ tokenCall' = [tokenCall EXCEPT ![c].pc = "revoke", ![c].new = Len(token')]
  /\ UnchangedTime /\ UNCHANGED <<revoked, row, cookie, handed, closed>>

RefreshRevokes(c) ==
  /\ Waiting(c, "revoke")
  /\ revoked' = revoked \cup {tokenCall[c].jti}
  /\ cookie'  = tokenCall[c].new /\ handed' = handed \cup {tokenCall[c].new}
  /\ Answer(c)
  /\ UnchangedTime /\ UNCHANGED <<token, row, accepted, closed>>

\* logout revokes whatever token the browser sends, without verifying it.
Logout ==
  /\ cookie # NoToken
  /\ revoked' = revoked \cup {cookie} /\ cookie' = NoToken
  /\ UnchangedTime /\ UNCHANGED <<token, row, tokenCall, handed, accepted, closed>>

-----------------------------------------------------------------------------
(* Worker tokens.                                                          *)

IssueWorkerToken(c, s, p) ==
  /\ Waiting(c, "idle")
  /\ SignJwt(s, "worker", WorkerLife, p)
  /\ tokenCall' = [tokenCall EXCEPT ![c] = [IdleCall EXCEPT !.pc = "persist", !.jti = Len(token')]]
  /\ UnchangedTime /\ UNCHANGED <<revoked, row, cookie, handed, closed>>

PersistWorkerToken(c) ==
  /\ Waiting(c, "persist")
  /\ row' = [j \in DOMAIN row \cup {tokenCall[c].jti} |-> IF j \in DOMAIN row THEN row[j] ELSE "open"]
  /\ Answer(c)
  /\ UnchangedTime /\ UNCHANGED <<token, revoked, cookie, handed, accepted, closed>>

\* verifyAndConsumeWorkerToken, up to the reading of revoked_tokens.
StartConsume(c, s, j) ==
  /\ Waiting(c, "idle") /\ j \in DOMAIN row /\ Verifies(s, j)
  /\ tokenCall' = [tokenCall EXCEPT ![c] = [IdleCall EXCEPT !.pc = "verify", !.jti = j]]
  /\ UnchangedTime /\ UNCHANGED <<token, revoked, row, cookie, handed, accepted, closed>>

CheckRevoked(c) ==
  /\ Waiting(c, "verify")
  /\ IF tokenCall[c].jti \in revoked THEN Answer(c) ELSE Goes(c, "consume")
  /\ UnchangedTime /\ UNCHANGED <<token, revoked, row, cookie, handed, accepted, closed>>

\* One update, for a row that is neither consumed nor invalidated nor expired.
ConsumeRow(c) ==
  LET j == tokenCall[c].jti IN
  /\ Waiting(c, "consume")
  /\ IF row[j] = "open" /\ 2 * token[j].exp > clock
     THEN row' = [row EXCEPT ![j] = "consumed"] /\ Goes(c, "record")
     ELSE Answer(c) /\ UNCHANGED row
  /\ UnchangedTime /\ UNCHANGED <<token, revoked, cookie, handed, accepted, closed>>

\* The jti is revoked too; the call may still refuse a scope that does not match.
RecordConsumed(c) ==
  LET j == tokenCall[c].jti IN
  /\ Waiting(c, "record")
  /\ revoked' = revoked \cup {j}
  /\ \E fits \in BOOLEAN : accepted' = IF fits THEN [accepted EXCEPT ![j] = @ + 1] ELSE accepted
  /\ Answer(c)
  /\ UnchangedTime /\ UNCHANGED <<token, row, cookie, handed, closed>>

\* invalidateWorkerTokensForPod: one update, then an insert for each row.
InvalidatePod(c, p) ==
  LET jtis == {j \in DOMAIN row : token[j].pod = p /\ row[j] = "open"} IN
  /\ Waiting(c, "idle") /\ \E j \in DOMAIN row : token[j].pod = p
  /\ row' = [j \in DOMAIN row |-> IF j \in jtis THEN "invalidated" ELSE row[j]]
  /\ tokenCall' = [tokenCall EXCEPT ![c] =
       [IdleCall EXCEPT !.pc = "invalidate", !.pod = p, !.todo = jtis]]
  /\ UnchangedTime /\ UNCHANGED <<token, revoked, cookie, handed, accepted, closed>>

RevokeInvalidated(c) ==
  LET todo == tokenCall[c].todo IN
  /\ Waiting(c, "invalidate")
  /\ \/ /\ todo = {} /\ Answer(c) /\ UNCHANGED revoked
        /\ closed' = closed \cup {j \in DOMAIN row : row[j] = "invalidated"
                                                     /\ token[j].pod = tokenCall[c].pod}
     \/ \E j \in todo :
          /\ revoked' = revoked \cup {j}
          /\ tokenCall' = [tokenCall EXCEPT ![c].todo = todo \ {j}]
          /\ UNCHANGED closed
  /\ UnchangedTime /\ UNCHANGED <<token, row, cookie, handed, accepted>>

-----------------------------------------------------------------------------
(* Time, the roll-out of a new key, a request that is lost with its server. *)

Tick ==
  /\ clock < MaxClock
  /\ clock' = clock + 1
  /\ UNCHANGED <<token, revoked, row, epoch, serverKey, cookie, handed, tokenCall, accepted, closed>>

\* cleanupExpiredRevocations: expires_at < NOW().
CleanupExpiredRevocations ==
  /\ revoked' = {j \in revoked : 2 * token[j].exp >= clock}
  /\ revoked' # revoked
  /\ UnchangedTime /\ UNCHANGED <<token, row, cookie, handed, tokenCall, accepted, closed>>

\* JWT_EC_PRIVATE_KEY becomes a new key and JWT_EC_PRIVATE_KEY_OLD the one before.
RotateKey ==
  /\ epoch <= MaxRotations /\ \A s \in Servers : serverKey[s] = epoch
  /\ epoch' = epoch + 1
  /\ UNCHANGED <<token, revoked, row, clock, serverKey, cookie, handed, tokenCall, accepted, closed>>

\* initKeyStore in a new process.
Restart(s) ==
  /\ serverKey[s] # epoch
  /\ serverKey' = [serverKey EXCEPT ![s] = epoch]
  /\ UNCHANGED <<token, revoked, row, clock, epoch, cookie, handed, tokenCall, accepted, closed>>

LoseCall(c) ==
  /\ ~Waiting(c, "idle") /\ Answer(c)
  /\ UnchangedTime /\ UNCHANGED <<token, revoked, row, cookie, handed, accepted, closed>>

TokensNext ==
  \/ \E s \in Servers : IssueSession(s) \/ Restart(s)
  \/ \E c \in TokenCalls :
       \/ RefreshRevokes(c) \/ PersistWorkerToken(c) \/ CheckRevoked(c) \/ ConsumeRow(c)
       \/ RecordConsumed(c) \/ RevokeInvalidated(c) \/ LoseCall(c)
       \/ \E s \in Servers : StartRefresh(c, s) \/ RefreshSigns(c, s)
       \/ \E s \in Servers, p \in Pods : IssueWorkerToken(c, s, p)
       \/ \E s \in Servers, j \in Jtis : StartConsume(c, s, j)
       \/ \E p \in Pods : InvalidatePod(c, p)
  \/ Logout \/ Tick \/ CleanupExpiredRevocations \/ RotateKey

TokensSpec == TokensInit /\ [][TokensNext]_tokenVars

-----------------------------------------------------------------------------
TokensTypeOK ==
  /\ \A j \in Jtis : token[j].kind \in {"session", "worker"} /\ token[j].key \in 1..epoch
  /\ revoked \subseteq Jtis /\ closed \subseteq Jtis
  /\ \A j \in DOMAIN row : row[j] \in {"open", "consumed", "invalidated"}
  /\ cookie \in Jtis \cup {NoToken}

\* A worker token authorises one call at most, and none once an invalidation that found
\* its row has been answered, however its calls, the invalidation, the cleanup of
\* revoked_tokens and a lost request interleave: revoked_tokens is read before the
\* row is updated, so the row alone decides.  A token that was signed before its pod
\* was invalidated and persisted after is not among them: it is accepted.
SpentOnce ==
  \A j \in Jtis : accepted[j] <= 1 /\ (j \in closed => accepted[j] = 0)
=============================================================================
