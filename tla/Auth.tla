-------------------------------- MODULE Auth --------------------------------
(***************************************************************************)
(* app/core/auth/service.py with app/utils/security.py: a participant asks *)
(* for a challenge, signs it and is given tokens; a refresh token is       *)
(* exchanged for a new pair and revoked.  The list of revoked tokens is    *)
(* kept in Redis, or in the process when there is no Redis.  Every await   *)
(* of login and refresh_tokens is a point where other requests and the     *)
(* clock go on.  A request that is granted produces one refresh token,     *)
(* which is named after the request; signatures are valid or not.          *)
(***************************************************************************)
EXTENDS Integers, TLAPS

CONSTANTS
    Logins,         \* requests POST /auth/login
    Refreshes,      \* requests POST /auth/refresh
    Challenges,
    ChallengeLife,  \* AUTH_CHALLENGE_EXPIRE_SECONDS
    TokenLife,      \* JWT_REFRESH_TOKEN_EXPIRE_DAYS
    MaxTime,        \* bound: the clock
    Redis           \* REDIS_ENABLED

\* What the constants must satisfy; every instance assumes it.
AuthAssumption ==
    /\ Logins \cap Refreshes = {}
    /\ {ChallengeLife, TokenLife, MaxTime} \subseteq Nat \ {0}
    /\ Redis \in BOOLEAN

VARIABLES
    now,
    challenge,  \* state and expiry of each challenge row
    pc,         \* where each request is
    uses,       \* the challenge a login answers, the token a refresh spends
    asOf,       \* clock a login read before it looked at the database
    exp,        \* expiry of the refresh token of a granted request, 0 for none
    lapse,      \* when the revocation of a token lapses, 0 for not revoked
    spent,      \* history: the token was revoked before the refresh began
    late,       \* history: the token expired before its revocation was looked up
    forgotten   \* history: tokens whose revocation a restart dropped

requestVars == <<pc, uses, asOf, spent, late>>
tokenVars   == <<exp, lapse, forgotten>>
authVars    == <<now, challenge, requestVars, tokenVars>>

Requests == Logins \cup Refreshes
RowStates == {"none", "open", "used", "deleted"}
RequestStates ==
    {"idle", "found", "committed", "decoded", "checked", "revoked", "granted", "refused"}

AuthInit ==
    /\ now = 1
    /\ challenge = [c \in Challenges |-> [state |-> "none", exp |-> 0]]
    /\ pc    = [r \in Requests |-> "idle"]
    /\ uses  = [r \in Requests |-> r]
    /\ asOf  = [r \in Requests |-> 0]
    /\ exp   = [r \in Requests |-> 0]
    /\ lapse = [r \in Requests |-> 0]
    /\ spent = [r \in Requests |-> FALSE]
    /\ late  = [r \in Requests |-> FALSE]
    /\ forgotten = {}

Goto(r, state) == pc' = [pc EXCEPT ![r] = state]

\* Rows that a request which read the clock at time t deletes when it commits.
DeleteExpired(rows, t) ==
    [c \in Challenges |->
       IF rows[c].state \in {"open", "used"} /\ rows[c].exp < t
       THEN [rows[c] EXCEPT !.state = "deleted"] ELSE rows[c]]

CreateChallenge(c) ==
    /\ challenge[c].state = "none"
    /\ challenge' = [DeleteExpired(challenge, now)
                       EXCEPT ![c] = [state |-> "open", exp |-> now + ChallengeLife]]
    /\ UNCHANGED <<now, requestVars, tokenVars>>

\* login up to the signature: an unused, unexpired challenge, rightly signed.
LoginFind(r, c) ==
    /\ pc[r] = "idle"
    /\ uses' = [uses EXCEPT ![r] = c]
    /\ asOf' = [asOf EXCEPT ![r] = now]
    /\ \E signed \in BOOLEAN :
         Goto(r, IF challenge[c].state = "open" /\ challenge[c].exp > now /\ signed
                 THEN "found" ELSE "refused")
    /\ UNCHANGED <<now, challenge, spent, late, tokenVars>>

\* used = True and COMMIT, under SERIALIZABLE: the row is still as it was read.
LoginCommit(r) ==
    /\ pc[r] = "found" /\ challenge[uses[r]].state = "open"
    /\ Goto(r, "committed")
    /\ challenge' = [DeleteExpired(challenge, asOf[r]) EXCEPT ![uses[r]].state = "used"]
    /\ UNCHANGED <<now, uses, asOf, spent, late, tokenVars>>

\* COMMIT fails (40001, or the row is gone) and the session rolls back.
LoginConflict(r) ==
    /\ pc[r] = "found"
    /\ Goto(r, "refused")
    /\ UNCHANGED <<now, challenge, uses, asOf, spent, late, tokenVars>>

\* create_refresh_token, of a login or of a refresh.
Issue(r) ==
    /\ Goto(r, "granted")
    /\ exp' = [exp EXCEPT ![r] = now + TokenLife]
    /\ UNCHANGED <<now, challenge, uses, asOf, spent, late, lapse, forgotten>>

LoginIssue(r) == pc[r] = "committed" /\ Issue(r)

\* jwt.decode: the token is ours and has not expired.
RefreshDecode(r, t) ==
    /\ pc[r] = "idle" /\ exp[t] > 0
    /\ uses'  = [uses EXCEPT ![r] = t]
    /\ spent' = [spent EXCEPT ![r] = lapse[t] > 0]
    /\ Goto(r, IF exp[t] > now THEN "decoded" ELSE "refused")
    /\ UNCHANGED <<now, challenge, asOf, late, tokenVars>>

\* is_jti_revoked: Redis drops the key, and the process the entry, at its time.
IsRevoked(t) == lapse[t] > now

\* Mutant: a token that is being used is taken to be unrevoked.
RefreshCheckSkipped(r) ==
    /\ pc[r] = "decoded"
    /\ late' = [late EXCEPT ![r] = exp[uses[r]] <= now]
    /\ Goto(r, "checked")
    /\ UNCHANGED <<now, challenge, uses, asOf, spent, tokenVars>>

RefreshCheck(r) ==
    /\ pc[r] = "decoded"
    /\ late' = [late EXCEPT ![r] = exp[uses[r]] <= now]
    /\ Goto(r, IF IsRevoked(uses[r]) THEN "refused" ELSE "checked")
    /\ UNCHANGED <<now, challenge, uses, asOf, spent, tokenVars>>

\* revoke_jti: until the token would have expired, nothing if it already has.
RevokeJti(t) == lapse' = [lapse EXCEPT ![t] = IF exp[t] > now THEN exp[t] ELSE @]

RefreshRevoke(r) ==
    /\ pc[r] = "checked"
    /\ RevokeJti(uses[r])
    /\ Goto(r, "revoked")
    /\ UNCHANGED <<now, challenge, uses, asOf, spent, late, exp, forgotten>>

RefreshIssue(r) == pc[r] = "revoked" /\ Issue(r)

\* Redis or the database cannot be reached, or there is no such participant;
\* the reply of Redis may be what is lost.
RefreshFails(r) ==
    /\ pc[r] \in {"decoded", "checked"}
    /\ Goto(r, "refused")
    /\ (pc[r] = "checked" /\ Redis /\ RevokeJti(uses[r])) \/ UNCHANGED lapse
    /\ UNCHANGED <<now, challenge, uses, asOf, spent, late, exp, forgotten>>

Tick ==
    /\ now < MaxTime
    /\ now' = now + 1
    /\ UNCHANGED <<challenge, requestVars, tokenVars>>

\* The process starts again: its requests are gone, and with them the
\* revocations it kept itself.
Restart ==
    /\ pc' = [r \in Requests |->
                IF pc[r] \in {"idle", "granted", "refused"} THEN pc[r] ELSE "refused"]
    /\ IF Redis
       THEN UNCHANGED <<lapse, forgotten>>
       ELSE /\ lapse' = [r \in Requests |-> 0]
            /\ forgotten' = forgotten \cup {r \in Requests : lapse[r] > 0}
    /\ UNCHANGED <<now, challenge, uses, asOf, spent, late, exp>>

AuthNext ==
    \/ \E c \in Challenges : CreateChallenge(c) \/ \E r \in Logins : LoginFind(r, c)
    \/ \E r \in Logins : LoginCommit(r) \/ LoginConflict(r) \/ LoginIssue(r)
    \/ \E r \in Refreshes :
         \/ \E t \in Requests : RefreshDecode(r, t)
         \/ RefreshCheck(r) \/ RefreshRevoke(r) \/ RefreshIssue(r) \/ RefreshFails(r)
    \/ Tick
    \/ Restart

AuthSpec == AuthInit /\ [][AuthNext]_authVars

----------------------------------------------------------------------------
\* Type invariant of challenges, requests and tokens.
AuthTypeOK ==
    /\ now \in 1..MaxTime
    /\ challenge \in [Challenges -> [state : RowStates, exp : Nat]]
    /\ pc \in [Requests -> RequestStates]
    /\ uses \in [Requests -> Requests \cup Challenges]
    /\ asOf \in [Requests -> 0..MaxTime]
    /\ exp \in [Requests -> 0..(MaxTime + TokenLife)]
    /\ lapse \in [Requests -> 0..(MaxTime + TokenLife)]
    /\ spent \in [Requests -> BOOLEAN] /\ late \in [Requests -> BOOLEAN]
    /\ forgotten \subseteq Requests

\* Logins that race for one challenge, over cleanups and restarts, do not both
\* get tokens from it.
ChallengeGrantsOnce ==
    \A a, b \in Logins :
        pc[a] = "granted" /\ pc[b] = "granted" /\ uses[a] = uses[b] => a = b

\* Rotation: when a refresh has answered, the token it was given is out of use,
\* because it is revoked for the rest of its life or because it has expired.  Only
\* a process that keeps the revocations itself forgets them, when it starts again.
SpentTokenIsRetired ==
    /\ \A r \in Refreshes : pc[r] = "granted" =>
         IsRevoked(uses[r]) \/ exp[uses[r]] <= now \/ uses[r] \in forgotten
    /\ Redis => forgotten = {}

\* refresh_tokens checks and revokes in two steps.  A token yields tokens twice
\* only to refreshes that overlap: one that begins after the token was revoked
\* gets nothing, except that the token's last second may end between the check
\* of its expiry and the check of its revocation.
SecondUseOverlapsFirst ==
    \A r \in Refreshes : pc[r] = "granted" => ~spent[r] \/ late[r]

----------------------------------------------------------------------------
(* Proofs, for any requests, challenges and lifetimes, with the           *)
(* revocations in Redis or in the process.                                *)

\* Logins and refreshes keep to their own states.
RequestsKeepKind ==
    /\ \A r \in Logins : pc[r] \in {"idle", "found", "committed", "granted", "refused"}
    /\ \A r \in Logins : pc[r] \in {"found", "committed", "granted"} => uses[r] \in Challenges
    /\ \A r \in Refreshes : pc[r] \in {"idle", "decoded", "checked", "revoked", "granted", "refused"}

\* A login that has committed closed its challenge for every other.
CommitClosesChallenge ==
    /\ \A a \in Logins : pc[a] \in {"committed", "granted"} =>
         challenge[uses[a]].state \in {"used", "deleted"}
    /\ \A a, b \in Logins :
         /\ pc[a] \in {"committed", "granted"} /\ pc[b] \in {"committed", "granted"}
         /\ uses[a] = uses[b]
         => a = b

\* Tokens belong to granted requests, and a revocation lasts as long as its token.
RevocationLasts ==
    /\ \A t \in Requests : exp[t] > 0 => pc[t] = "granted"
    /\ \A t \in Requests : lapse[t] > 0 => lapse[t] = exp[t]
    /\ \A r \in Refreshes : pc[r] \in {"decoded", "checked", "revoked", "granted"} =>
         uses[r] \in Requests /\ exp[uses[r]] > 0

\* What is true of the token from the revocation on ...
RevokedIsRetired ==
    /\ \A r \in Refreshes : pc[r] \in {"revoked", "granted"} =>
         lapse[uses[r]] > now \/ exp[uses[r]] <= now \/ uses[r] \in forgotten
    /\ Redis => forgotten = {}

\* ... and of a refresh that began after the token was revoked.
SpentIsLate ==
    \A r \in Refreshes : spent[r] =>
        /\ pc[r] = "decoded" => lapse[uses[r]] > 0
        /\ pc[r] \in {"checked", "revoked", "granted"} => late[r]

\* The inductive invariant.
AuthInv ==
    /\ AuthTypeOK /\ RequestsKeepKind /\ CommitClosesChallenge
    /\ RevocationLasts /\ RevokedIsRetired /\ SpentIsLate

LEMMA AuthInitInv ==
    ASSUME AuthAssumption, AuthInit
    PROVE  AuthInv
BY DEF AuthAssumption, AuthInit, AuthInv, AuthTypeOK, RequestsKeepKind, CommitClosesChallenge,
       RevocationLasts, RevokedIsRetired, SpentIsLate, RowStates, RequestStates, Requests

\* Deleting expired rows keeps every row a row and opens none.
LEMMA DeletedStayClosed ==
    ASSUME NEW rows \in [Challenges -> [state : RowStates, exp : Nat]], NEW t \in Nat
    PROVE  /\ DeleteExpired(rows, t) \in [Challenges -> [state : RowStates, exp : Nat]]
           /\ \A c \in Challenges : rows[c].state \in {"used", "deleted"} =>
                DeleteExpired(rows, t)[c].state \in {"used", "deleted"}
BY DEF DeleteExpired, RowStates

\* Every step that changes challenges only.
LEMMA ChallengeStepInv ==
    ASSUME AuthAssumption, AuthInv, NEW c \in Challenges, CreateChallenge(c)
    PROVE  AuthInv'
<1> DEFINE rows == DeleteExpired(challenge, now)
<1>1. AuthTypeOK /\ now \in Nat
  BY DEF AuthInv, AuthTypeOK
<1>2. /\ rows \in [Challenges -> [state : RowStates, exp : Nat]]
      /\ \A d \in Challenges : challenge[d].state \in {"used", "deleted"} =>
           rows[d].state \in {"used", "deleted"}
  BY <1>1, DeletedStayClosed DEF AuthTypeOK
<1>3. challenge' = [rows EXCEPT ![c] = [state |-> "open", exp |-> now + ChallengeLife]]
  BY DEF CreateChallenge
<1> HIDE DEF rows
<1>4. UNCHANGED <<now, requestVars, tokenVars>> /\ challenge[c].state = "none"
  BY DEF CreateChallenge
<1>5. AuthTypeOK'
  <2>1. [state |-> "open", exp |-> now + ChallengeLife] \in [state : RowStates, exp : Nat]
    BY <1>1 DEF RowStates, AuthAssumption
  <2>2. challenge' \in [Challenges -> [state : RowStates, exp : Nat]]
    BY <1>2, <1>3, <2>1
  <2>3. QED
    BY <1>1, <1>4, <2>2 DEF AuthTypeOK, requestVars, tokenVars
<1>6. CommitClosesChallenge'
  BY <1>1, <1>2, <1>3, <1>4 DEF AuthInv, CommitClosesChallenge, RequestsKeepKind, requestVars
<1>7. QED
  BY <1>4, <1>5, <1>6 DEF AuthInv, RequestsKeepKind, RevocationLasts, RevokedIsRetired, SpentIsLate,
                          requestVars, tokenVars

LEMMA LoginCommitInv ==
    ASSUME AuthAssumption, AuthInv, NEW r \in Logins, LoginCommit(r)
    PROVE  AuthInv'
<1> DEFINE rows == DeleteExpired(challenge, asOf[r])
<1>1. AuthTypeOK /\ asOf[r] \in Nat /\ uses[r] \in Challenges /\ r \in Requests
  BY DEF AuthInv, AuthTypeOK, RequestsKeepKind, LoginCommit, Requests
<1>2. /\ rows \in [Challenges -> [state : RowStates, exp : Nat]]
      /\ \A d \in Challenges : challenge[d].state \in {"used", "deleted"} =>
           rows[d].state \in {"used", "deleted"}
  BY <1>1, DeletedStayClosed DEF AuthTypeOK
<1>3. challenge' = [rows EXCEPT ![uses[r]].state = "used"]
  BY DEF LoginCommit
<1> HIDE DEF rows
<1>4. /\ UNCHANGED <<now, uses, asOf, spent, late, tokenVars>>
      /\ pc' = [pc EXCEPT ![r] = "committed"]
      /\ pc[r] = "found" /\ challenge[uses[r]].state = "open"
  BY DEF LoginCommit, Goto
<1>5. /\ challenge' \in [Challenges -> [state : RowStates, exp : Nat]]
      /\ \A d \in Challenges : challenge'[d].state = IF d = uses[r] THEN "used" ELSE rows[d].state
  BY <1>1, <1>2, <1>3 DEF RowStates
<1>6. AuthTypeOK'
  BY <1>1, <1>4, <1>5 DEF AuthTypeOK, tokenVars, RequestStates
<1>7. CommitClosesChallenge'
  BY <1>1, <1>2, <1>4, <1>5 DEF AuthInv, AuthTypeOK, CommitClosesChallenge, RequestsKeepKind, Requests
<1>8. RequestsKeepKind'
  BY <1>1, <1>4 DEF AuthInv, AuthTypeOK, RequestsKeepKind, Requests
<1>9. RevocationLasts' /\ RevokedIsRetired' /\ SpentIsLate'
  BY <1>1, <1>4 DEF AuthInv, AuthTypeOK, RevocationLasts, RevokedIsRetired, SpentIsLate,
                    tokenVars, Requests, AuthAssumption
<1>10. QED
  BY <1>6, <1>7, <1>8, <1>9 DEF AuthInv

\* The other steps of a login leave the rows alone.
LEMMA LoginStepInv ==
    ASSUME AuthAssumption, AuthInv, NEW r \in Logins,
           (\E c \in Challenges : LoginFind(r, c)) \/ LoginConflict(r)
    PROVE  AuthInv'
<1>1. /\ r \in Requests /\ AuthTypeOK /\ pc[r] \in {"idle", "found"}
      /\ UNCHANGED <<now, challenge, spent, late, exp, lapse, forgotten>>
      /\ \E to \in {"found", "refused"} : pc' = [pc EXCEPT ![r] = to]
      /\ \/ uses' = uses /\ asOf' = asOf /\ pc'[r] = "refused"
         \/ \E c \in Challenges : uses' = [uses EXCEPT ![r] = c] /\ asOf' = [asOf EXCEPT ![r] = now]
  BY DEF AuthInv, AuthTypeOK, LoginFind, LoginConflict, Goto, tokenVars, Requests
<1>2. AuthTypeOK'
  BY <1>1 DEF AuthTypeOK, RequestStates
<1>3. RequestsKeepKind' /\ CommitClosesChallenge'
  BY <1>1 DEF AuthInv, AuthTypeOK, RequestsKeepKind, CommitClosesChallenge, Requests, AuthAssumption
<1>4. RevocationLasts' /\ RevokedIsRetired' /\ SpentIsLate'
  BY <1>1 DEF AuthInv, AuthTypeOK, RevocationLasts, RevokedIsRetired, SpentIsLate, Requests, AuthAssumption
<1>5. QED
  BY <1>2, <1>3, <1>4 DEF AuthInv

LEMMA IssueInv ==
    ASSUME AuthAssumption, AuthInv,
           (\E r \in Logins : LoginIssue(r)) \/ (\E r \in Refreshes : RefreshIssue(r))
    PROVE  AuthInv'
<1>1. PICK r \in Requests :
        /\ (pc[r] = "committed" /\ r \in Logins) \/ (pc[r] = "revoked" /\ r \in Refreshes)
        /\ Issue(r)
  BY DEF LoginIssue, RefreshIssue, Requests
<1>2. /\ pc' = [pc EXCEPT ![r] = "granted"] /\ exp' = [exp EXCEPT ![r] = now + TokenLife]
      /\ UNCHANGED <<now, challenge, uses, asOf, spent, late, lapse, forgotten>>
      /\ AuthTypeOK
  BY <1>1 DEF Issue, Goto, AuthInv
<1>3. exp[r] = 0 /\ lapse[r] = 0
  BY <1>1, <1>2 DEF AuthInv, AuthTypeOK, RevocationLasts
<1>4. AuthTypeOK'
  BY <1>1, <1>2 DEF AuthTypeOK, RequestStates, AuthAssumption
<1>5. RequestsKeepKind' /\ CommitClosesChallenge'
  BY <1>1, <1>2 DEF AuthInv, AuthTypeOK, RequestsKeepKind, CommitClosesChallenge, Requests, AuthAssumption
<1>6. RevocationLasts'
  BY <1>1, <1>2, <1>3 DEF AuthInv, AuthTypeOK, RevocationLasts, Requests, AuthAssumption
<1>7. RevokedIsRetired' /\ SpentIsLate'
  BY <1>1, <1>2, <1>3 DEF AuthInv, AuthTypeOK, RevocationLasts, RevokedIsRetired, SpentIsLate, Requests, AuthAssumption
<1>8. QED
  BY <1>4, <1>5, <1>6, <1>7 DEF AuthInv

\* A refresh up to its answer.
LEMMA RefreshStepInv ==
    ASSUME AuthAssumption, AuthInv, NEW r \in Refreshes,
           \/ \E t \in Requests : RefreshDecode(r, t)
           \/ RefreshCheck(r) \/ RefreshRevoke(r) \/ RefreshFails(r)
    PROVE  AuthInv'
<1>0. r \in Requests /\ AuthTypeOK /\ r \notin Logins
  BY DEF AuthInv, Requests, AuthAssumption
<1> USE <1>0 DEF Goto, tokenVars
<1>1. ASSUME NEW t \in Requests, RefreshDecode(r, t)
      PROVE  AuthInv'
  <2>1. AuthTypeOK'
    BY <1>1 DEF RefreshDecode, AuthTypeOK, RequestStates
  <2>2. RequestsKeepKind' /\ CommitClosesChallenge'
    BY <1>1 DEF RefreshDecode, AuthInv, AuthTypeOK, RequestsKeepKind, CommitClosesChallenge, Requests, AuthAssumption
  <2>3. RevocationLasts' /\ RevokedIsRetired' /\ SpentIsLate'
    BY <1>1 DEF RefreshDecode, AuthInv, AuthTypeOK, RevocationLasts, RevokedIsRetired, SpentIsLate, Requests
  <2>4. QED
    BY <2>1, <2>2, <2>3 DEF AuthInv
<1>2. CASE RefreshCheck(r)
  <2>1. AuthTypeOK'
    BY <1>2 DEF RefreshCheck, AuthTypeOK, RequestStates
  <2>2. RequestsKeepKind' /\ CommitClosesChallenge'
    BY <1>2 DEF RefreshCheck, AuthInv, AuthTypeOK, RequestsKeepKind, CommitClosesChallenge, Requests, AuthAssumption
  <2>3. RevocationLasts' /\ RevokedIsRetired' /\ SpentIsLate'
    BY <1>2 DEF RefreshCheck, IsRevoked, AuthInv, AuthTypeOK, RevocationLasts, RevokedIsRetired, SpentIsLate, Requests
  <2>4. QED
    BY <2>1, <2>2, <2>3 DEF AuthInv
<1>3. CASE RefreshRevoke(r) \/ RefreshFails(r)
  <2>1. /\ uses[r] \in Requests
        /\ pc[r] \in {"decoded", "checked"}
        /\ UNCHANGED <<now, challenge, uses, asOf, spent, late, exp, forgotten>>
        /\ lapse' = lapse \/ lapse' = [lapse EXCEPT ![uses[r]] = IF exp[uses[r]] > now THEN exp[uses[r]] ELSE @]
    BY <1>3 DEF RefreshRevoke, RefreshFails, RevokeJti, AuthInv, RevocationLasts
  <2>2. \/ pc' = [pc EXCEPT ![r] = "refused"]
        \/ /\ pc[r] = "checked" /\ pc' = [pc EXCEPT ![r] = "revoked"]
           /\ lapse' = [lapse EXCEPT ![uses[r]] = IF exp[uses[r]] > now THEN exp[uses[r]] ELSE @]
    BY <1>3 DEF RefreshRevoke, RefreshFails, RevokeJti
  <2>3. AuthTypeOK'
    BY <2>1, <2>2 DEF AuthTypeOK, RequestStates
  <2>4. RequestsKeepKind' /\ CommitClosesChallenge'
    BY <2>1, <2>2 DEF AuthInv, AuthTypeOK, RequestsKeepKind, CommitClosesChallenge, Requests, AuthAssumption
  <2>5. RevocationLasts' /\ RevokedIsRetired' /\ SpentIsLate'
    BY <2>1, <2>2 DEF AuthInv, AuthTypeOK, RevocationLasts, RevokedIsRetired, SpentIsLate, Requests
  <2>6. QED
    BY <2>3, <2>4, <2>5 DEF AuthInv
<1>4. QED
  BY <1>1, <1>2, <1>3

LEMMA TickInv ==
    ASSUME AuthAssumption, AuthInv, Tick
    PROVE  AuthInv'
<1> USE DEF Tick, requestVars, tokenVars, AuthInv, AuthTypeOK, AuthAssumption
<1>1. AuthTypeOK' /\ RequestsKeepKind' /\ CommitClosesChallenge' /\ RevocationLasts' /\ SpentIsLate'
  BY DEF RequestsKeepKind, CommitClosesChallenge, RevocationLasts, SpentIsLate
<1>2. RevokedIsRetired'
  BY DEF RevocationLasts, RevokedIsRetired, Requests
<1>3. QED
  BY <1>1, <1>2

LEMMA RestartInv ==
    ASSUME AuthAssumption, AuthInv, Restart
    PROVE  AuthInv'
<1>1. /\ UNCHANGED <<now, challenge, uses, asOf, spent, late, exp>>
      /\ pc' \in [Requests -> RequestStates]
      /\ \A r \in Requests : pc'[r] = pc[r] \/ (pc'[r] = "refused" /\ pc[r] \notin {"idle", "granted", "refused"})
      /\ \A r \in Requests : pc'[r] \in {"idle", "granted", "refused"}
      /\ AuthTypeOK /\ Requests = Logins \cup Refreshes
  BY DEF Restart, AuthInv, AuthTypeOK, RequestStates, Requests
<1>2. \/ Redis /\ lapse' = lapse /\ forgotten' = forgotten
      \/ /\ ~Redis /\ lapse' = [r \in Requests |-> 0]
         /\ forgotten' = forgotten \cup {r \in Requests : lapse[r] > 0}
  BY DEF Restart
<1>3. AuthTypeOK'
  BY <1>1, <1>2 DEF AuthTypeOK, AuthAssumption
<1>4. RequestsKeepKind' /\ CommitClosesChallenge'
  BY <1>1 DEF AuthInv, RequestsKeepKind, CommitClosesChallenge
<1>5. RevocationLasts'
  BY <1>1, <1>2 DEF AuthInv, RevocationLasts
<1>6. RevokedIsRetired' /\ SpentIsLate'
  BY <1>1, <1>2 DEF AuthInv, AuthTypeOK, RevocationLasts, RevokedIsRetired, SpentIsLate
<1>7. QED
  BY <1>3, <1>4, <1>5, <1>6 DEF AuthInv

LEMMA AuthNextInv ==
    ASSUME AuthAssumption, AuthInv, [AuthNext]_authVars
    PROVE  AuthInv'
<1>1. CASE UNCHANGED authVars
  BY <1>1 DEF authVars, requestVars, tokenVars, AuthInv, AuthTypeOK, RequestsKeepKind,
              CommitClosesChallenge, RevocationLasts, RevokedIsRetired, SpentIsLate
<1>2. QED
  BY <1>1, ChallengeStepInv, LoginCommitInv, LoginStepInv, IssueInv, RefreshStepInv, TickInv, RestartInv
  DEF AuthNext

LEMMA AuthInvImplies ==
    ASSUME AuthInv
    PROVE  AuthTypeOK /\ ChallengeGrantsOnce /\ SpentTokenIsRetired /\ SecondUseOverlapsFirst
BY DEF AuthInv, CommitClosesChallenge, RevokedIsRetired, SpentIsLate, IsRevoked,
       ChallengeGrantsOnce, SpentTokenIsRetired, SecondUseOverlapsFirst

\* auth/service.py: a challenge gives tokens to one login, a spent refresh token
\* is out of use, and only refreshes that overlap get tokens for the same one.
THEOREM TokensSpentOnce ==
    ASSUME AuthAssumption
    PROVE  AuthSpec => [](AuthTypeOK /\ ChallengeGrantsOnce /\ SpentTokenIsRetired /\ SecondUseOverlapsFirst)
<1>1. AuthInit => AuthInv
  BY AuthInitInv
<1>2. AuthInv /\ [AuthNext]_authVars => AuthInv'
  BY AuthNextInv
<1>3. AuthInv => AuthTypeOK /\ ChallengeGrantsOnce /\ SpentTokenIsRetired /\ SecondUseOverlapsFirst
  BY AuthInvImplies
<1>4. QED
  BY <1>1, <1>2, <1>3, PTL DEF AuthSpec
=============================================================================
