--------------------------- MODULE DistributedLock ---------------------------
(***************************************************************************)
(* app/utils/distributed_lock.py: a lock kept as one Redis key with a time *)
(* to live.  Redis is external and modelled by how the code uses it: SET   *)
(* NX EX is one step at the server, the key vanishes when its time is up,  *)
(* and a reply may be lost on its way back.  Work under the lock is never  *)
(* told that its time is up.                                               *)
(***************************************************************************)
EXTENDS Naturals

CONSTANTS
    Procs,      \* callers competing for one key
    CanWait,    \* wait_timeout_seconds > 0: API requests; FALSE: the integrity job
    MaxTokens   \* bound: acquisition attempts of a behaviour

\* What the constants must satisfy; every instance assumes it.
LockAssumption == MaxTokens \in Nat /\ CanWait \in BOOLEAN

VARIABLES
    key,        \* the token stored in Redis, 0 when there is no key
    lpc,        \* "out", "asking", "waiting", "in" or "leaving"
    token,      \* the token of each caller's present attempt
    drawn,      \* tokens drawn so far: secrets.token_urlsafe never repeats one
    lapsed      \* tokens whose time to live ran out before they were deleted

lockVars == <<key, lpc, token, drawn, lapsed>>

LockTypeOK ==
    /\ key \in 0..MaxTokens /\ drawn \in 0..MaxTokens
    /\ lpc \in [Procs -> {"out", "asking", "waiting", "in", "leaving"}]
    /\ token \in [Procs -> 0..MaxTokens]
    /\ lapsed \subseteq 1..MaxTokens

LockInit ==
    /\ key = 0 /\ drawn = 0 /\ lapsed = {}
    /\ lpc = [p \in Procs |-> "out"]
    /\ token = [p \in Procs |-> 0]

Goto(p, l) == lpc' = [lpc EXCEPT ![p] = l]

\* async with redis_distributed_lock(...): a fresh token for each attempt.
Enter(p) ==
    /\ lpc[p] = "out" /\ drawn < MaxTokens
    /\ drawn' = drawn + 1
    /\ token' = [token EXCEPT ![p] = drawn + 1]
    /\ Goto(p, "asking")
    /\ UNCHANGED <<key, lapsed>>

\* SET key token NX EX ttl answered True.
Acquire(p) ==
    /\ lpc[p] = "asking" /\ key = 0
    /\ key' = token[p]
    /\ Goto(p, "in")
    /\ UNCHANGED <<token, drawn, lapsed>>

\* SET found the key, and the deadline has not passed: sleep and ask again.
Busy(p) ==
    /\ lpc[p] = "asking" /\ key # 0 /\ CanWait
    /\ Goto(p, "waiting")
    /\ UNCHANGED <<key, token, drawn, lapsed>>

Poll(p) ==
    /\ lpc[p] = "waiting"
    /\ Goto(p, "asking")
    /\ UNCHANGED <<key, token, drawn, lapsed>>

\* SET found the key after the deadline: ConflictException.
Refuse(p) ==
    /\ lpc[p] = "asking" /\ key # 0
    /\ Goto(p, "out")
    /\ UNCHANGED <<key, token, drawn, lapsed>>

\* The caller is cancelled, or loses Redis, while SET is under way.  The
\* server may have stored the key; acquired is still False, so nobody deletes it.
AskFails(p) ==
    /\ lpc[p] \in {"asking", "waiting"}
    /\ \/ lpc[p] = "asking" /\ key = 0 /\ key' = token[p]
       \/ key' = key
    /\ Goto(p, "out")
    /\ UNCHANGED <<token, drawn, lapsed>>

\* The body returns, raises or is cancelled: the finally clause runs.
Leave(p) ==
    /\ lpc[p] = "in"
    /\ Goto(p, "leaving")
    /\ UNCHANGED <<key, token, drawn, lapsed>>

\* Mutant: DEL without the comparison.
DeleteAny(p) ==
    /\ key' = 0
    /\ UNCHANGED <<token, drawn, lapsed>>

\* _UNLOCK_LUA: the key is deleted only if it still holds this token.
Delete(p) ==
    /\ key' = IF key = token[p] THEN 0 ELSE key
    /\ UNCHANGED <<token, drawn, lapsed>>

Unlock(p) == lpc[p] = "leaving" /\ Goto(p, "out") /\ Delete(p)

\* The script raises or is cancelled: the exception is dropped, the key stays.
UnlockFails(p) ==
    /\ lpc[p] = "leaving"
    /\ Goto(p, "out")
    /\ UNCHANGED <<key, token, drawn, lapsed>>

\* Redis drops the key when ex seconds have passed.
Expire ==
    /\ key # 0
    /\ key' = 0
    /\ lapsed' = lapsed \cup {key}
    /\ UNCHANGED <<lpc, token, drawn>>

LockNext ==
    \/ Expire
    \/ \E p \in Procs :
        \/ Enter(p) \/ Acquire(p) \/ Busy(p) \/ Poll(p) \/ Refuse(p)
        \/ AskFails(p) \/ Leave(p) \/ Unlock(p) \/ UnlockFails(p)

\* SET answers and the sleep ends; the deadline passes while a caller keeps
\* asking, so a caller that finds the key again and again is refused.
LockFairness ==
    \A p \in Procs :
        WF_lockVars(Acquire(p)) /\ WF_lockVars(Poll(p)) /\ SF_lockVars(Refuse(p))

LockSpec == LockInit /\ [][LockNext]_lockVars /\ LockFairness

----------------------------------------------------------------------------
\* A caller inside the lock whose time to live has not run out still owns the
\* key, whatever callers that overran theirs delete on their way out.
HolderKeepsKey ==
    \A p \in Procs : lpc[p] = "in" /\ token[p] \notin lapsed => key = token[p]

\* Two callers are inside together only when one of them outlived its key.
ExclusiveUnlessOverrun ==
    \A p, q \in Procs :
        p # q /\ lpc[p] = "in" /\ lpc[q] = "in" => {token[p], token[q]} \cap lapsed # {}

\* No two callers are inside together: what the documentation of the payment
\* API says of payments of one sender in one equivalent.
\* (The code does not keep this: README, section 5.)
Serialized ==
    \A p, q \in Procs : p # q => ~(lpc[p] = "in" /\ lpc[q] = "in")
=============================================================================
