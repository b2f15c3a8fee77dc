----------------------------- MODULE RateLimit ------------------------------
(***************************************************************************)
(* app/api/deps.py, rate_limit: a host may send so many requests in a      *)
(* window.  With Redis a key per host and window is incremented and given  *)
(* an expiry in a second call; without it the counters are an ordered map  *)
(* of bounded size, from which the counter used least recently falls out.  *)
(***************************************************************************)
EXTENDS Integers, FiniteSets

CONSTANTS
    Hosts,
    Limit,          \* RATE_LIMIT_REQUESTS_PER_WINDOW
    Window,         \* RATE_LIMIT_WINDOW_SECONDS
    MaxEntries,     \* _RATE_LIMIT_MAX_ENTRIES
    MaxTime,        \* bound: the clock
    MaxRequests,    \* bound: requests
    Redis           \* REDIS_ENABLED

\* What the constants must satisfy; every instance assumes it.
RateAssumption ==
    /\ {Limit, Window, MaxEntries, MaxTime, MaxRequests} \subseteq Nat \ {0}
    /\ Redis \in BOOLEAN

VARIABLES
    now,
    counters,   \* the map: the count of each key and when it was inserted
    cleaned,    \* window of the last cleanup, -1 for none
    count,      \* Redis: value of each key
    expiry,     \* Redis: when a key expires, 0 for never
    pending,    \* Redis: keys created and not yet given an expiry
    requests,   \* requests so far
    admitted,   \* history: requests let through, by key
    evicted,    \* history: how often a key fell out of the map
    used        \* history: keys used since a key was last used

memoryVars  == <<counters, cleaned>>
redisVars   == <<count, expiry, pending>>
historyVars == <<requests, admitted, evicted, used>>
rateVars    == <<now, memoryVars, redisVars, historyVars>>

bucket == now \div Window
Keys == (0..(MaxTime \div Window)) \X Hosts

RateInit ==
    /\ now = 0
    /\ counters = [k \in {} |-> 0] /\ cleaned = -1
    /\ count    = [k \in Keys |-> 0]
    /\ expiry   = [k \in Keys |-> 0]
    /\ pending  = {} /\ requests = 0
    /\ admitted = [k \in Keys |-> 0]
    /\ evicted  = [k \in Keys |-> 0]
    /\ used     = [k \in Keys |-> {}]

Counted(k) == IF k \in DOMAIN counters THEN counters[k].n ELSE 0

\* Once in a window, counters older than the window before are removed.
Cleanup ==
    IF cleaned = bucket THEN DOMAIN counters
    ELSE {k \in DOMAIN counters : k[1] >= bucket - 1}

\* The counter is taken out and put back at the end.
Count(k) ==
    [j \in Cleanup \cup {k} |->
        IF j = k THEN [n |-> Counted(k) + 1, at |-> requests + 1] ELSE counters[j]]

\* The counters that stay: the ones inserted last, as many as the map may hold.
Evict(map) ==
    {k \in DOMAIN map : Cardinality({j \in DOMAIN map : map[j].at > map[k].at}) < MaxEntries}

LetThrough(k, current) ==
    admitted' = [admitted EXCEPT ![k] = IF current <= Limit THEN @ + 1 ELSE @]

\* A request without Redis: everything under one lock.
MemoryRequest(h) ==
    LET k     == <<bucket, h>>
        swept == Count(k)
    IN  /\ ~Redis /\ requests < MaxRequests
        /\ requests' = requests + 1
        /\ counters' = [j \in Evict(swept) |-> swept[j]]
        /\ cleaned'  = bucket
        /\ LetThrough(k, swept[k].n)
        /\ evicted'  = [j \in Keys |->
                          IF j \in DOMAIN swept \ Evict(swept)
                          THEN evicted[j] + 1 ELSE evicted[j]]
        /\ used' = [j \in Keys |-> IF j = k THEN {} ELSE used[j] \cup {k}]
        /\ UNCHANGED <<now, redisVars>>

\* INCR; the first request of a key still has to set its expiry.
RedisRequest(h) ==
    LET k == <<bucket, h>>
    IN  /\ Redis /\ requests < MaxRequests
        /\ requests' = requests + 1
        /\ count' = [count EXCEPT ![k] = @ + 1]
        /\ IF count[k] = 0
           THEN pending' = pending \cup {k} /\ UNCHANGED admitted
           ELSE LetThrough(k, count[k] + 1) /\ UNCHANGED pending
        /\ UNCHANGED <<now, memoryVars, expiry, evicted, used>>

\* Mutant: the key expires within its window.
RedisExpireShort(k) ==
    /\ k \in pending
    /\ pending' = pending \ {k}
    /\ expiry'  = [expiry EXCEPT ![k] = now + 1]
    /\ LetThrough(k, 1)
    /\ UNCHANGED <<now, memoryVars, count, requests, evicted, used>>

\* EXPIRE, counted from this call, and the first request goes through.
RedisExpire(k) ==
    /\ k \in pending
    /\ pending' = pending \ {k}
    /\ expiry'  = [expiry EXCEPT ![k] = now + Window + 1]
    /\ LetThrough(k, 1)
    /\ UNCHANGED <<now, memoryVars, count, requests, evicted, used>>

\* The connection fails between the two calls: the request fails, the key stays.
RedisExpireFails(k) ==
    /\ k \in pending
    /\ pending' = pending \ {k}
    /\ UNCHANGED <<now, memoryVars, count, expiry, historyVars>>

\* The clock goes on; Redis drops the keys whose time has come.
Tick ==
    /\ now < MaxTime
    /\ now' = now + 1
    /\ count' = [k \in Keys |-> IF expiry[k] # 0 /\ expiry[k] <= now' THEN 0 ELSE count[k]]
    /\ UNCHANGED <<memoryVars, expiry, pending, historyVars>>

RateNext ==
    \/ \E h \in Hosts : MemoryRequest(h) \/ RedisRequest(h)
    \/ \E k \in Keys : RedisExpire(k) \/ RedisExpireFails(k)
    \/ Tick

RateSpec == RateInit /\ [][RateNext]_rateVars

----------------------------------------------------------------------------
\* Type invariant of the counters.
RateTypeOK ==
    /\ now \in 0..MaxTime /\ cleaned \in -1..MaxTime /\ requests \in 0..MaxRequests
    /\ DOMAIN counters \subseteq Keys /\ Cardinality(DOMAIN counters) <= MaxEntries
    /\ counters \in [DOMAIN counters -> [n : 1..MaxRequests, at : 1..MaxRequests]]
    /\ {count, expiry, admitted, evicted} \subseteq [Keys -> Nat]
    /\ pending \subseteq Keys
    /\ used \in [Keys -> SUBSET Keys]

\* In one window a host gets no more than the limit, whatever requests overlap and
\* wherever the Redis key is in its life; a counter that fell out of the bounded
\* map starts its host afresh, and nothing else does.
LimitHolds == \A k \in Keys : admitted[k] <= Limit * (evicted[k] + 1)

\* A counter falls out of the map only when as many others as the map holds have
\* been used since its own last use: a host that keeps coming keeps its counter.
BusyHostsKeepTheirCounter ==
    \A h \in Hosts :
        LET k == <<bucket, h>>
        IN  ~Redis /\ admitted[k] > 0 /\ k \notin DOMAIN counters =>
                Cardinality(used[k]) >= MaxEntries
=============================================================================
