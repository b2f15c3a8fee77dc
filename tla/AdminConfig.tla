---------------------------- MODULE AdminConfig -----------------------------
(***************************************************************************)
(* app/api/v1/admin.py, patch_admin_config and patch_feature_flags: an     *)
(* administrator changes settings of the running process.  Under one lock  *)
(* the request reads the settings, commits an audit entry, and only then   *)
(* publishes the new values.  The commit runs in a task of its own, which  *)
(* a first cancellation of the request does not reach and a second one     *)
(* does.  /feature-flags writes all flags, those it was not asked to       *)
(* change with the value it read.                                          *)
(***************************************************************************)
EXTENDS Integers, Sequences

CONSTANTS
    Requests,
    Keys,           \* mutable settings
    Flags,          \* those that /feature-flags also writes
    Values,
    Initial,        \* the settings the process starts with
    MaxCancels,     \* bound: cancellations of one request
    MaxRestarts     \* bound: restarts of the process

\* What the constants must satisfy; every instance assumes it.
ConfigAssumption ==
    /\ Flags \subseteq Keys
    /\ Initial \in [Keys -> Values]
    /\ {MaxCancels, MaxRestarts} \subseteq Nat

VARIABLES
    settings,
    lock,           \* _runtime_config_lock: the requests inside, at most one
    pc,             \* "idle", "committing", "interrupted", "answered", "failed"
    asked,          \* values each request asks for, by key
    writes,         \* values it is going to write, by key
    cancels,
    audit,          \* requests whose audit entry is durable
    published,      \* history: requests that changed the settings, since the start
    restarts

configVars == <<settings, lock, pc, asked, writes, cancels, audit, published, restarts>>

NoKeys == [k \in {} |-> 0]
Patches(keys) == UNION {[K -> Values] : K \in SUBSET keys}

ConfigInit ==
    /\ settings = Initial
    /\ lock = {} /\ audit = {} /\ published = <<>> /\ restarts = 0
    /\ pc      = [r \in Requests |-> "idle"]
    /\ asked   = [r \in Requests |-> NoKeys]
    /\ writes  = [r \in Requests |-> NoKeys]
    /\ cancels = [r \in Requests |-> 0]

\* Under the lock: read what is to be written and start the commit.
Enter(r, patch, all) ==
    /\ pc[r] = "idle" /\ lock = {}
    /\ lock'   = {r}
    /\ pc'     = [pc EXCEPT ![r] = "committing"]
    /\ asked'  = [asked EXCEPT ![r] = patch]
    /\ writes' = [writes EXCEPT ![r] =
                    [k \in DOMAIN patch \cup all |->
                       IF k \in DOMAIN patch THEN patch[k] ELSE settings[k]]]
    /\ UNCHANGED <<settings, cancels, audit, published, restarts>>

PatchConfig(r) == \E patch \in Patches(Keys) : Enter(r, patch, {})
PatchFlags(r)  == \E patch \in Patches(Flags) : Enter(r, patch, Flags)

\* The database makes the audit entry durable, for a request that is still
\* waiting or for one whose commit was interrupted.
AuditLands(r) ==
    /\ pc[r] \in {"committing", "interrupted"} /\ r \notin audit
    /\ audit' = audit \cup {r}
    /\ UNCHANGED <<settings, lock, pc, asked, writes, cancels, published, restarts>>

Leave(r, state) ==
    /\ pc'   = [pc EXCEPT ![r] = state]
    /\ lock' = lock \ {r}

\* Mutant: the new values are published while the commit is on its way.
PublishEarly(r) ==
    /\ pc[r] = "committing"
    /\ settings'  = [k \in Keys |-> IF k \in DOMAIN writes[r] THEN writes[r][k] ELSE settings[k]]
    /\ published' = Append(published, r)
    /\ Leave(r, "answered")
    /\ UNCHANGED <<asked, writes, cancels, audit, restarts>>

\* The commit is answered, and the values are published without a pause.
Publish(r) ==
    /\ pc[r] = "committing" /\ r \in audit
    /\ settings'  = [k \in Keys |-> IF k \in DOMAIN writes[r] THEN writes[r][k] ELSE settings[k]]
    /\ published' = Append(published, r)
    /\ Leave(r, "answered")
    /\ UNCHANGED <<asked, writes, cancels, audit, restarts>>

\* A value cannot be set: those set before it are put back.
PublishFails(r) ==
    /\ pc[r] = "committing" /\ r \in audit
    /\ Leave(r, "failed")
    /\ UNCHANGED <<settings, asked, writes, cancels, audit, published, restarts>>

\* The commit fails, or takes effect without an answer, or its task has taken
\* note of the cancellation; the request rolls back and raises.
CommitFails(r) ==
    /\ pc[r] \in {"committing", "interrupted"}
    /\ Leave(r, "failed")
    /\ UNCHANGED <<settings, asked, writes, cancels, audit, published, restarts>>

\* The first cancellation is remembered; the second cancels the task, and the
\* request goes on waiting for it.
Cancel(r) ==
    /\ pc[r] \in {"committing", "interrupted"} /\ cancels[r] < MaxCancels
    /\ cancels' = [cancels EXCEPT ![r] = @ + 1]
    /\ pc' = [pc EXCEPT ![r] = IF cancels[r] >= 1 THEN "interrupted" ELSE @]
    /\ UNCHANGED <<settings, lock, asked, writes, audit, published, restarts>>

\* Settings live in the process.
Restart ==
    /\ restarts < MaxRestarts
    /\ restarts' = restarts + 1
    /\ settings' = Initial /\ published' = <<>>
    /\ lock' = {}
    /\ pc' = [r \in Requests |-> IF r \in lock THEN "failed" ELSE pc[r]]
    /\ UNCHANGED <<asked, writes, cancels, audit>>

RequestEnds(r) == Publish(r) \/ CommitFails(r)

ConfigNext ==
    \/ \E r \in Requests :
         \/ PatchConfig(r) \/ PatchFlags(r) \/ AuditLands(r)
         \/ Publish(r) \/ PublishFails(r) \/ CommitFails(r) \/ Cancel(r)
    \/ Restart

\* The database answers or the connection breaks.
ConfigSpec ==
    /\ ConfigInit /\ [][ConfigNext]_configVars
    /\ \A r \in Requests : WF_configVars(RequestEnds(r))

----------------------------------------------------------------------------
\* Type invariant of the settings and the requests.
ConfigTypeOK ==
    /\ settings \in [Keys -> Values]
    /\ lock \subseteq Requests /\ \A r, s \in lock : r = s
    /\ pc \in [Requests -> {"idle", "committing", "interrupted", "answered", "failed"}]
    /\ \A r \in Requests : asked[r] \in Patches(Keys) /\ writes[r] \in Patches(Keys)
    /\ cancels \in [Requests -> 0..MaxCancels]
    /\ audit \subseteq Requests
    /\ published \in Seq(Requests)
    /\ restarts \in 0..MaxRestarts

\* The audit entry is required: over failing commits, cancellations and restarts,
\* no setting differs from the one the process started with unless a durable
\* audit entry says who set it to that value.
ChangesAreAudited ==
    \A k \in Keys : settings[k] # Initial[k] =>
        \E r \in audit : k \in DOMAIN asked[r] /\ asked[r][k] = settings[k]

\* Each setting has the value the last published request that asked for it gave
\* it: a request for the flags does not put back a flag that another request has
\* just changed.
NoUpdateLost ==
    \A k \in Keys :
        /\ (\A i \in DOMAIN published : k \notin DOMAIN asked[published[i]]) => settings[k] = Initial[k]
        /\ \A i \in DOMAIN published :
             /\ k \in DOMAIN asked[published[i]]
             /\ \A j \in DOMAIN published : j > i => k \notin DOMAIN asked[published[j]]
             => settings[k] = asked[published[i]][k]

\* A request leaves the lock, though it is cancelled again and again.
LockIsReleased == \A r \in Requests : (r \in lock) ~> (r \notin lock)
=============================================================================
