------------------------------ MODULE Services ------------------------------
(***************************************************************************)
(* The services around the hub: participants and equivalents, the          *)
(* administrators' settings, authentication, the rate limit, and the       *)
(* background jobs with the Redis lock they and the API share.  They share *)
(* no variable, so their product would say no more than each of them does: *)
(* a behaviour exercises one part, and the others are absent.              *)
(***************************************************************************)
EXTENDS Integers

CONSTANTS
    Participants, Codes, Payments, Fields, Values, MaxAcksLost,     \* Registry
    AboutEquivalents,   \* requests about equivalents, by their numbers ...
    AboutPeople,        \* ... about participants ...
    AboutPayments,      \* ... and about payments that administrators abort
    Admins, SettingKeys, Flags, SettingValues, Initial, MaxCancels, MaxRestarts,   \* AdminConfig
    Logins, Refreshes, Challenges, ChallengeLife, TokenLife, MaxClock,  \* Auth
    Limit, Window, MaxEntries,                                      \* RateLimit ...
    Hosts, MaxTime, MaxRequests,                    \* ... with counters in memory
    RedisHosts, RedisMaxTime, RedisMaxRequests,     \* ... and with counters in Redis
    ApiCallers, MaxApiTokens,   \* DistributedLock, as requests of the API use it
    Hubs, MaxJobTokens,         \* BackgroundJobs
    Off                         \* the value of the variables of an absent part

VARIABLES
    part,                                                   \* the part that runs
    status, profile, equivalent, lines, checkpoints, payment, audit, silent, updates,
    regPc, snap, reply, acksLost,                           \* Registry
    settings, lock, cfgPc, asked, writes, cancels, trail, published, restarts,  \* AdminConfig
    clock, challenge, pc, uses, asOf, exp, lapse, spent, late, forgotten,       \* Auth
    now, counters, cleaned, count, expiry, pending, requests, admitted, evicted, used,  \* RateLimit
    key, lpc, token, drawn, lapsed,                         \* DistributedLock
    proc, client, task, health, result                      \* BackgroundJobs

----------------------------------------------------------------------------
Equivalents == INSTANCE Registry WITH
    Requests <- DOMAIN AboutEquivalents, Op <- AboutEquivalents, pc <- regPc
People == INSTANCE Registry WITH
    Requests <- DOMAIN AboutPeople, Op <- AboutPeople, pc <- regPc
Aborts == INSTANCE Registry WITH
    Requests <- DOMAIN AboutPayments, Op <- AboutPayments, pc <- regPc

Config == INSTANCE AdminConfig WITH
    Requests <- Admins, Keys <- SettingKeys, Values <- SettingValues, pc <- cfgPc, audit <- trail

\* Revocations in Redis and in memory.
RedisAuth == INSTANCE Auth WITH MaxTime <- MaxClock, Redis <- TRUE, now <- clock
MemoryAuth == INSTANCE Auth WITH MaxTime <- MaxClock, Redis <- FALSE, now <- clock

MemoryRate == INSTANCE RateLimit WITH Redis <- FALSE
RedisRate == INSTANCE RateLimit WITH
    Hosts <- RedisHosts, MaxTime <- RedisMaxTime, MaxRequests <- RedisMaxRequests, Redis <- TRUE

\* Requests of the API wait for the lock, the jobs of hub processes do not.
Callers == INSTANCE DistributedLock WITH Procs <- ApiCallers, CanWait <- TRUE, MaxTokens <- MaxApiTokens
Jobs == INSTANCE BackgroundJobs WITH
    Procs <- Hubs, CanWait <- FALSE, MaxTokens <- MaxJobTokens, status <- health

ASSUME ServicesAssumption ==
    /\ Equivalents!RegistryAssumption /\ People!RegistryAssumption /\ Aborts!RegistryAssumption
    /\ Config!ConfigAssumption /\ RedisAuth!AuthAssumption /\ MemoryAuth!AuthAssumption
    /\ MemoryRate!RateAssumption /\ RedisRate!RateAssumption
    /\ Callers!LockAssumption /\ Jobs!LockAssumption

----------------------------------------------------------------------------
registryVars == <<status, profile, equivalent, lines, checkpoints, payment, audit, silent, updates,
                  regPc, snap, reply, acksLost>>
configVars == <<settings, lock, cfgPc, asked, writes, cancels, trail, published, restarts>>
authVars == <<clock, challenge, pc, uses, asOf, exp, lapse, spent, late, forgotten>>
rateVars == <<now, counters, cleaned, count, expiry, pending, requests, admitted, evicted, used>>
lockVars == <<key, lpc, token, drawn, lapsed>>
jobVars == <<proc, client, task, health, result>>
vars == <<part, registryVars, configVars, authVars, rateVars, lockVars, jobVars>>

RegistryOff ==
    /\ status = Off /\ profile = Off /\ equivalent = Off /\ lines = Off /\ checkpoints = Off
    /\ payment = Off /\ audit = Off /\ silent = Off /\ updates = Off /\ regPc = Off /\ snap = Off
    /\ reply = Off /\ acksLost = Off
ConfigOff ==
    /\ settings = Off /\ lock = Off /\ cfgPc = Off /\ asked = Off /\ writes = Off
    /\ cancels = Off /\ trail = Off /\ published = Off /\ restarts = Off
AuthOff ==
    /\ clock = Off /\ challenge = Off /\ pc = Off /\ uses = Off /\ asOf = Off
    /\ exp = Off /\ lapse = Off /\ spent = Off /\ late = Off /\ forgotten = Off
RateOff ==
    /\ now = Off /\ counters = Off /\ cleaned = Off /\ count = Off /\ expiry = Off
    /\ pending = Off /\ requests = Off /\ admitted = Off /\ evicted = Off /\ used = Off
LockOff == key = Off /\ lpc = Off /\ token = Off /\ drawn = Off /\ lapsed = Off
JobsOff == proc = Off /\ client = Off /\ task = Off /\ health = Off /\ result = Off

Init ==
    /\ part \in {"equivalents", "people", "aborts", "config", "redis auth", "memory auth",
                 "memory rate", "redis rate", "callers", "jobs"}
    /\ CASE part = "equivalents" -> Equivalents!RegistryInit
         [] part = "people" -> People!RegistryInit
         [] part = "aborts" -> Aborts!RegistryInit
         [] OTHER -> RegistryOff
    /\ IF part = "config" THEN Config!ConfigInit ELSE ConfigOff
    /\ CASE part = "redis auth" -> RedisAuth!AuthInit
         [] part = "memory auth" -> MemoryAuth!AuthInit
         [] OTHER -> AuthOff
    /\ CASE part = "memory rate" -> MemoryRate!RateInit
         [] part = "redis rate" -> RedisRate!RateInit
         [] OTHER -> RateOff
    /\ CASE part = "callers" -> Callers!LockInit /\ JobsOff
         [] part = "jobs" -> Jobs!JobsInit
         [] OTHER -> LockOff /\ JobsOff

RegistryStep ==
    \/ part = "equivalents" /\ Equivalents!RegistryNext
    \/ part = "people" /\ People!RegistryNext
    \/ part = "aborts" /\ Aborts!RegistryNext
ConfigStep == part = "config" /\ Config!ConfigNext
AuthStep == (part = "redis auth" /\ RedisAuth!AuthNext) \/ (part = "memory auth" /\ MemoryAuth!AuthNext)
RateStep == (part = "memory rate" /\ MemoryRate!RateNext) \/ (part = "redis rate" /\ RedisRate!RateNext)
LockStep == part = "callers" /\ Callers!LockNext /\ UNCHANGED jobVars
JobsStep == part = "jobs" /\ Jobs!JobsNext

Next ==
    \/ RegistryStep /\ UNCHANGED <<part, configVars, authVars, rateVars, lockVars, jobVars>>
    \/ ConfigStep /\ UNCHANGED <<part, registryVars, authVars, rateVars, lockVars, jobVars>>
    \/ AuthStep /\ UNCHANGED <<part, registryVars, configVars, rateVars, lockVars, jobVars>>
    \/ RateStep /\ UNCHANGED <<part, registryVars, configVars, authVars, lockVars, jobVars>>
    \/ (LockStep \/ JobsStep) /\ UNCHANGED <<part, registryVars, configVars, authVars, rateVars>>

Spec == Init /\ [][Next]_vars

----------------------------------------------------------------------------
\* The audit log accounts for what administrators did, over commits whose answer
\* was lost: an object is in the state its latest entry gives, and what is
\* suspended, banned or aborted has one, unless a scenario froze it or the engine
\* aborted it, which write no entry.  Overlapping updates of a profile lose no
\* field, and answers to registrations and aborts are true.  The deletion of an
\* unused equivalent takes no line with it (api/v1/admin.py, participants/service.py).
RecordsAreAccountedFor ==
    /\ [](/\ part = "equivalents" => Equivalents!RegistryTypeOK /\ Equivalents!AuditAccounts
          /\ part = "people" =>
               /\ People!RegistryTypeOK /\ People!AuditAccounts /\ People!SanctionsAreAudited
               /\ People!ProfilesKeepUpdates /\ People!RepliesHold
          /\ part = "aborts" =>
               /\ Aborts!RegistryTypeOK /\ Aborts!AuditAccounts
               /\ Aborts!SanctionsAreAudited /\ Aborts!RepliesHold)
    /\ [][part = "equivalents" => Equivalents!NoLineIsCascaded]_vars

\* A setting has the value the last published request that asked for it gave it,
\* and differs from the one the process started with only if a durable audit entry
\* says who changed it, over failing commits, cancellations and restarts.
SettingsAreAudited ==
    part = "config" => Config!ConfigTypeOK /\ Config!ChangesAreAudited /\ Config!NoUpdateLost

\* A challenge gives tokens to one login; a spent refresh token is out of use; and
\* only refreshes that overlap get tokens for the same one (auth/service.py).
TokensAreSpentOnce ==
    /\ part = "redis auth" =>
        /\ RedisAuth!AuthTypeOK /\ RedisAuth!ChallengeGrantsOnce
        /\ RedisAuth!SpentTokenIsRetired /\ RedisAuth!SecondUseOverlapsFirst
    /\ part = "memory auth" =>
        /\ MemoryAuth!AuthTypeOK /\ MemoryAuth!ChallengeGrantsOnce
        /\ MemoryAuth!SpentTokenIsRetired /\ MemoryAuth!SecondUseOverlapsFirst

\* In one window a host gets no more than the limit, wherever the Redis key is in
\* its life; a counter falls out of the bounded map only when as many others as it
\* holds have been used since (api/deps.py).
LimitHolds ==
    /\ part = "memory rate" =>
        MemoryRate!RateTypeOK /\ MemoryRate!LimitHolds /\ MemoryRate!BusyHostsKeepTheirCounter
    /\ part = "redis rate" => RedisRate!RateTypeOK /\ RedisRate!LimitHolds

\* A holder of the Redis lock whose time has not run out still owns the key,
\* whatever callers that overran theirs delete; a job that died degrades /health, a
\* shutdown is no failure, and jobs clean up before their resources are closed
\* (distributed_lock.py, main.py).
JobsAndLocksAreSafe ==
    /\ part = "callers" =>
        Callers!LockTypeOK /\ Callers!HolderKeepsKey /\ Callers!ExclusiveUnlessOverrun
    /\ part = "jobs" =>
        /\ Jobs!JobsTypeOK /\ Jobs!HolderKeepsKey /\ Jobs!DeadJobDegradesHealth
        /\ Jobs!ShutdownIsNoFailure /\ Jobs!CleanupHasResources
=============================================================================
