--------------------------- MODULE ServicesProofs ---------------------------
(***************************************************************************)
(* Proofs about the services around the hub, for every value of the        *)
(* constants of Services.  The settings of AdminConfig and the counters of *)
(* RateLimit are proved about here; the theorems of Auth and of            *)
(* BackgroundJobs, which are in those modules, and of Registry, which are  *)
(* in RegistryProofs, are cited through their instances.                   *)
(***************************************************************************)
EXTENDS Services, Sequences, FiniteSetTheorems, WellFoundedInduction, TLAPS

EquivalentsP == INSTANCE RegistryProofs WITH
    Requests <- DOMAIN AboutEquivalents, Op <- AboutEquivalents, pc <- regPc
PeopleP == INSTANCE RegistryProofs WITH
    Requests <- DOMAIN AboutPeople, Op <- AboutPeople, pc <- regPc
AbortsP == INSTANCE RegistryProofs WITH
    Requests <- DOMAIN AboutPayments, Op <- AboutPayments, pc <- regPc
CallersP == INSTANCE BackgroundJobs WITH
    Procs <- ApiCallers, CanWait <- TRUE, MaxTokens <- MaxApiTokens, status <- health

----------------------------------------------------------------------------
(* The settings. *)

ConfigPatches == Config!Patches(SettingKeys)
AtWork == {"committing", "interrupted"}

ConfigTypes ==
    /\ settings \in [SettingKeys -> SettingValues]
    /\ cfgPc \in [Admins -> AtWork \cup {"idle", "answered", "failed"}]
    /\ asked \in [Admins -> ConfigPatches] /\ writes \in [Admins -> ConfigPatches]
    /\ cancels \in [Admins -> 0..MaxCancels] /\ restarts \in 0..MaxRestarts
    /\ trail \subseteq Admins /\ published \in Seq(Admins)

\* One request at a time is at work, and it has the lock; what a request asked for
\* is settled before its entry or its values are there.
OneAtWork ==
    /\ lock = {r \in Admins : cfgPc[r] \in AtWork}
    /\ \A r, s \in lock : r = s
    /\ \A r \in trail : cfgPc[r] # "idle"
    /\ \A i \in DOMAIN published : cfgPc[published[i]] = "answered"

\* The request at work will write what it was asked for, and for the rest the
\* values that the settings still have.
WritesAreCurrent ==
    \A r \in lock :
        /\ \A k \in DOMAIN asked[r] : k \in DOMAIN writes[r] /\ writes[r][k] = asked[r][k]
        /\ \A k \in DOMAIN writes[r] \ DOMAIN asked[r] : writes[r][k] = settings[k]

\* The inductive invariant of the settings.
ConfigInv ==
    /\ ConfigTypes /\ OneAtWork /\ WritesAreCurrent
    /\ Config!ChangesAreAudited /\ Config!NoUpdateLost

LEMMA ConfigInitInv ==
    ASSUME Config!ConfigAssumption, Config!ConfigInit
    PROVE  ConfigInv
<1>1. Config!NoKeys \in ConfigPatches
  <2>1. Config!NoKeys \in [{} -> SettingValues]
    BY DEF Config!NoKeys
  <2>2. QED
    BY <2>1 DEF ConfigPatches, Config!Patches
<1>2. ConfigTypes
  BY <1>1 DEF Config!ConfigInit, Config!ConfigAssumption, ConfigTypes
<1>3. OneAtWork /\ WritesAreCurrent
  BY DEF Config!ConfigInit, OneAtWork, WritesAreCurrent, AtWork
<1>4. Config!ChangesAreAudited /\ Config!NoUpdateLost
  BY DEF Config!ConfigInit, Config!ChangesAreAudited, Config!NoUpdateLost
<1>5. QED
  BY <1>2, <1>3, <1>4 DEF ConfigInv

\* A patch is a function on some of the keys.
LEMMA PatchIsFunction ==
    ASSUME NEW patch \in ConfigPatches
    PROVE  /\ DOMAIN patch \subseteq SettingKeys
           /\ patch \in [DOMAIN patch -> SettingValues]
BY DEF ConfigPatches, Config!Patches

\* The values that a request is going to write.
LEMMA EnterWrites ==
    ASSUME ConfigTypes, NEW patch \in ConfigPatches, NEW all \in SUBSET SettingKeys
    PROVE  [k \in DOMAIN patch \cup all |-> IF k \in DOMAIN patch THEN patch[k] ELSE settings[k]]
             \in ConfigPatches
<1>1. [k \in DOMAIN patch \cup all |-> IF k \in DOMAIN patch THEN patch[k] ELSE settings[k]]
        \in [DOMAIN patch \cup all -> SettingValues]
  BY PatchIsFunction DEF ConfigTypes
<1>2. DOMAIN patch \cup all \in SUBSET SettingKeys
  BY PatchIsFunction
<1>3. QED
  BY <1>1, <1>2 DEF ConfigPatches, Config!Patches

LEMMA EnterInv ==
    ASSUME Config!ConfigAssumption, ConfigInv, NEW r \in Admins,
           Config!PatchConfig(r) \/ Config!PatchFlags(r)
    PROVE  ConfigInv'
<1>1. PICK patch \in ConfigPatches, all \in SUBSET SettingKeys : Config!Enter(r, patch, all)
  <2>1. CASE Config!PatchConfig(r)
    BY <2>1 DEF Config!PatchConfig, ConfigPatches
  <2>2. CASE Config!PatchFlags(r)
    BY <2>2 DEF Config!PatchFlags, Config!Patches, ConfigPatches, Config!ConfigAssumption
  <2>3. QED
    BY <2>1, <2>2
<1> DEFINE new == [k \in DOMAIN patch \cup all |-> IF k \in DOMAIN patch THEN patch[k] ELSE settings[k]]
<1>2. /\ cfgPc[r] = "idle" /\ lock = {} /\ lock' = {r} /\ ConfigTypes
      /\ cfgPc' = [cfgPc EXCEPT ![r] = "committing"]
      /\ asked' = [asked EXCEPT ![r] = patch]
      /\ writes' = [writes EXCEPT ![r] = new]
      /\ UNCHANGED <<settings, cancels, trail, published, restarts>>
  BY <1>1 DEF Config!Enter, ConfigInv
<1>3. new \in ConfigPatches
  BY <1>2, EnterWrites
<1>4. /\ DOMAIN new = DOMAIN patch \cup all
      /\ \A k \in DOMAIN patch : new[k] = patch[k]
      /\ \A k \in DOMAIN new \ DOMAIN patch : new[k] = settings[k]
  OBVIOUS
<1> HIDE DEF new
<1>5. /\ asked'[r] = patch /\ writes'[r] = new
      /\ \A s \in Admins : cfgPc[s] # "idle" => asked'[s] = asked[s]
  BY <1>2 DEF ConfigTypes
<1>6. ConfigTypes'
  BY <1>2, <1>3 DEF ConfigTypes, AtWork
<1>7. OneAtWork'
  BY <1>2 DEF ConfigInv, ConfigTypes, OneAtWork, AtWork
<1>8. WritesAreCurrent'
  BY <1>2, <1>4, <1>5 DEF WritesAreCurrent
<1>9. Config!ChangesAreAudited'
  BY <1>2, <1>5 DEF ConfigInv, ConfigTypes, OneAtWork, Config!ChangesAreAudited
<1>10. Config!NoUpdateLost'
  <2>1. \A i \in DOMAIN published : asked'[published[i]] = asked[published[i]]
    BY <1>2, <1>5 DEF ConfigInv, ConfigTypes, OneAtWork
  <2>2. QED
    BY <1>2, <2>1 DEF ConfigInv, Config!NoUpdateLost
<1>11. QED
  BY <1>6, <1>7, <1>8, <1>9, <1>10 DEF ConfigInv

\* The values are published.
LEMMA PublishInv ==
    ASSUME Config!ConfigAssumption, ConfigInv, NEW r \in Admins, Config!Publish(r)
    PROVE  ConfigInv'
<1>1. /\ cfgPc[r] = "committing" /\ r \in trail /\ ConfigTypes /\ OneAtWork /\ r \in lock
      /\ settings' = [k \in SettingKeys |-> IF k \in DOMAIN writes[r] THEN writes[r][k] ELSE settings[k]]
      /\ published' = Append(published, r)
      /\ cfgPc' = [cfgPc EXCEPT ![r] = "answered"] /\ lock' = lock \ {r}
      /\ UNCHANGED <<asked, writes, cancels, trail, restarts>>
  BY DEF Config!Publish, Config!Leave, ConfigInv, OneAtWork, AtWork
<1>2. /\ asked[r] \in ConfigPatches /\ writes[r] \in ConfigPatches
      /\ writes[r] \in [DOMAIN writes[r] -> SettingValues] /\ DOMAIN asked[r] \subseteq SettingKeys
  BY <1>1, PatchIsFunction DEF ConfigTypes
<1>3. \A k \in SettingKeys : settings'[k] = IF k \in DOMAIN asked[r] THEN asked[r][k] ELSE settings[k]
  BY <1>1 DEF ConfigInv, WritesAreCurrent
<1> DEFINE n == Len(published) + 1
<1>4. /\ published' \in Seq(Admins) /\ DOMAIN published' = DOMAIN published \cup {n} /\ n \in Int
      /\ \A i \in DOMAIN published : i \in Int /\ i < n /\ published'[i] = published[i]
      /\ published'[n] = r
  BY <1>1, PeopleP!EntryAppended DEF ConfigTypes
<1> HIDE DEF n
<1>5. ConfigTypes'
  BY <1>1, <1>2, <1>4 DEF ConfigTypes
<1>6. OneAtWork'
  BY <1>1, <1>4 DEF OneAtWork, ConfigTypes, AtWork
<1>7. WritesAreCurrent'
  BY <1>1 DEF OneAtWork, WritesAreCurrent
<1>8. Config!ChangesAreAudited'
  BY <1>1, <1>3 DEF ConfigInv, Config!ChangesAreAudited
<1>9. Config!NoUpdateLost'
  <2>1. ASSUME NEW k \in SettingKeys
        PROVE  /\ (\A i \in DOMAIN published' : k \notin DOMAIN asked[published'[i]]) => settings'[k] = Initial[k]
               /\ \A i \in DOMAIN published' :
                    /\ k \in DOMAIN asked[published'[i]]
                    /\ \A j \in DOMAIN published' : j > i => k \notin DOMAIN asked[published'[j]]
                    => settings'[k] = asked[published'[i]][k]
    <3>1. /\ (\A i \in DOMAIN published : k \notin DOMAIN asked[published[i]]) => settings[k] = Initial[k]
          /\ \A i \in DOMAIN published :
               /\ k \in DOMAIN asked[published[i]]
               /\ \A j \in DOMAIN published : j > i => k \notin DOMAIN asked[published[j]]
               => settings[k] = asked[published[i]][k]
      BY DEF ConfigInv, Config!NoUpdateLost
    <3>2. CASE k \in DOMAIN asked[r]
      BY <1>3, <1>4, <3>2
    <3>3. CASE k \notin DOMAIN asked[r]
      BY <1>3, <1>4, <3>1, <3>3
    <3>4. QED
      BY <3>2, <3>3
  <2>2. QED
    BY <1>1, <2>1 DEF Config!NoUpdateLost
<1>10. QED
  BY <1>5, <1>6, <1>7, <1>8, <1>9 DEF ConfigInv

\* What changes neither settings nor what was asked for or published.
LEMMA QuietInv ==
    ASSUME Config!ConfigAssumption, ConfigInv, NEW r \in Admins,
           Config!AuditLands(r) \/ Config!PublishFails(r) \/ Config!CommitFails(r) \/ Config!Cancel(r)
    PROVE  ConfigInv'
<1>1. /\ cfgPc[r] \in AtWork /\ r \in lock /\ ConfigTypes /\ OneAtWork
      /\ UNCHANGED <<settings, asked, writes, published, restarts>>
      /\ trail' = trail \/ trail' = trail \cup {r}
      /\ cancels' = cancels \/ (cancels[r] < MaxCancels /\ cancels' = [cancels EXCEPT ![r] = @ + 1])
      /\ \/ lock' = lock /\ cfgPc' = cfgPc
         \/ lock' = lock /\ cfgPc' = [cfgPc EXCEPT ![r] = "interrupted"]
         \/ lock' = lock \ {r} /\ cfgPc' = [cfgPc EXCEPT ![r] = "failed"]
  BY DEF Config!AuditLands, Config!PublishFails, Config!CommitFails, Config!Cancel, Config!Leave,
         ConfigInv, ConfigTypes, OneAtWork, AtWork
<1>2. ConfigTypes'
  <2>1. cfgPc' \in [Admins -> AtWork \cup {"idle", "answered", "failed"}]
    BY <1>1 DEF ConfigTypes, AtWork
  <2>2. cancels' \in [Admins -> 0..MaxCancels]
    <3>1. MaxCancels \in Nat
      BY DEF Config!ConfigAssumption
    <3>2. cancels[r] \in 0..MaxCancels /\ (cancels[r] < MaxCancels => cancels[r] + 1 \in 0..MaxCancels)
      BY <1>1, <3>1 DEF ConfigTypes
    <3>3. QED
      BY <1>1, <3>2 DEF ConfigTypes
  <2>3. trail' \subseteq Admins
    BY <1>1 DEF ConfigTypes
  <2>4. QED
    BY <1>1, <2>1, <2>2, <2>3 DEF ConfigTypes
<1>3. OneAtWork'
  <2>1. /\ cfgPc'[r] \in AtWork \cup {"failed"} /\ (r \in lock' <=> cfgPc'[r] \in AtWork) /\ lock' \subseteq lock
        /\ \A s \in Admins \ {r} : cfgPc'[s] = cfgPc[s] /\ (s \in lock' <=> s \in lock)
    BY <1>1 DEF ConfigTypes, AtWork
  <2>2. lock' = {s \in Admins : cfgPc'[s] \in AtWork} /\ \A s, t \in lock' : s = t
    BY <1>1, <2>1 DEF OneAtWork
  <2>3. \A s \in trail' : cfgPc'[s] # "idle"
    BY <1>1, <2>1 DEF OneAtWork, ConfigTypes, AtWork
  <2>4. \A i \in DOMAIN published : published[i] \in Admins /\ published[i] # r
    BY <1>1 DEF OneAtWork, ConfigTypes, AtWork
  <2>5. QED
    BY <1>1, <2>1, <2>2, <2>3, <2>4 DEF OneAtWork
<1>4. WritesAreCurrent'
  BY <1>1 DEF ConfigInv, WritesAreCurrent
<1>5. Config!ChangesAreAudited' /\ Config!NoUpdateLost'
  BY <1>1 DEF ConfigInv, Config!ChangesAreAudited, Config!NoUpdateLost
<1>6. QED
  BY <1>2, <1>3, <1>4, <1>5 DEF ConfigInv

LEMMA RestartInv ==
    ASSUME Config!ConfigAssumption, ConfigInv, Config!Restart
    PROVE  ConfigInv'
<1>1. /\ restarts < MaxRestarts /\ restarts' = restarts + 1 /\ ConfigTypes /\ OneAtWork
      /\ settings' = Initial /\ published' = <<>> /\ lock' = {}
      /\ cfgPc' = [r \in Admins |-> IF r \in lock THEN "failed" ELSE cfgPc[r]]
      /\ UNCHANGED <<asked, writes, cancels, trail>>
  BY DEF Config!Restart, ConfigInv
<1>2. ConfigTypes'
  BY <1>1 DEF ConfigTypes, AtWork, Config!ConfigAssumption
<1>3. OneAtWork'
  BY <1>1 DEF OneAtWork, ConfigTypes, AtWork
<1>4. WritesAreCurrent' /\ Config!ChangesAreAudited' /\ Config!NoUpdateLost'
  BY <1>1 DEF WritesAreCurrent, Config!ChangesAreAudited, Config!NoUpdateLost
<1>5. QED
  BY <1>2, <1>3, <1>4 DEF ConfigInv

LEMMA ConfigNextInv ==
    ASSUME Config!ConfigAssumption, ConfigInv, Config!ConfigNext \/ UNCHANGED configVars
    PROVE  ConfigInv'
<1>1. CASE UNCHANGED configVars
  BY <1>1 DEF configVars, ConfigInv, ConfigTypes, OneAtWork, WritesAreCurrent,
              Config!ChangesAreAudited, Config!NoUpdateLost
<1>2. QED
  BY <1>1, EnterInv, PublishInv, QuietInv, RestartInv DEF Config!ConfigNext

LEMMA ConfigInvImplies ==
    ASSUME ConfigInv
    PROVE  Config!ConfigTypeOK /\ Config!ChangesAreAudited /\ Config!NoUpdateLost
<1>1. lock \subseteq Admins /\ \A r, s \in lock : r = s
  BY DEF ConfigInv, OneAtWork
<1>2. AtWork \cup {"idle", "answered", "failed"} = {"idle", "committing", "interrupted", "answered", "failed"}
  BY DEF AtWork
<1>3. \A r \in Admins : asked[r] \in Config!Patches(SettingKeys) /\ writes[r] \in Config!Patches(SettingKeys)
  BY DEF ConfigInv, ConfigTypes, ConfigPatches
<1>4. Config!ConfigTypeOK
  BY <1>1, <1>2, <1>3 DEF ConfigInv, ConfigTypes, Config!ConfigTypeOK
<1>5. QED
  BY <1>4 DEF ConfigInv

----------------------------------------------------------------------------
(* The instances of the proofs speak of the same states and steps as Services. *)

\* A step that leaves the variables of Services alone leaves those of its instances
\* alone.
LEMMA PartsStandStill ==
    /\ UNCHANGED authVars => UNCHANGED RedisAuth!authVars /\ UNCHANGED MemoryAuth!authVars
    /\ UNCHANGED <<lockVars, jobVars>> => UNCHANGED Jobs!jobsVars
BY DEF authVars, RedisAuth!authVars, RedisAuth!requestVars, RedisAuth!tokenVars, MemoryAuth!authVars,
    MemoryAuth!requestVars, MemoryAuth!tokenVars, lockVars, jobVars, Jobs!jobsVars, Jobs!lockVars, Jobs!jobVars

\* What is proved of a lock in BackgroundJobs holds of the one of the API's callers ...
LEMMA CallersCarry ==
    /\ Callers!LockAssumption => CallersP!LockAssumption
    /\ Callers!LockInit => CallersP!LockInit
    /\ Callers!LockNext \/ UNCHANGED lockVars => [CallersP!LockNext]_(CallersP!lockVars)
    /\ CallersP!LockTypeOK => Callers!LockTypeOK
    /\ CallersP!HolderKeepsKey => Callers!HolderKeepsKey
    /\ CallersP!ExclusiveUnlessOverrun => Callers!ExclusiveUnlessOverrun
<1>1. Callers!LockAssumption => CallersP!LockAssumption
  BY DEF Callers!LockAssumption, CallersP!LockAssumption
<1>2. Callers!LockInit => CallersP!LockInit
  BY DEF Callers!LockInit, CallersP!LockInit
<1>3. Callers!LockNext => CallersP!LockNext
  BY DEF Callers!LockNext, CallersP!LockNext, Callers!Expire, CallersP!Expire, Callers!Enter,
      CallersP!Enter, Callers!Acquire, CallersP!Acquire, Callers!Busy, CallersP!Busy, Callers!Poll,
      CallersP!Poll, Callers!Refuse, CallersP!Refuse, Callers!AskFails, CallersP!AskFails,
      Callers!Leave, CallersP!Leave, Callers!Unlock, CallersP!Unlock, Callers!UnlockFails,
      CallersP!UnlockFails, Callers!Goto, CallersP!Goto, Callers!Delete, CallersP!Delete
<1>4. UNCHANGED lockVars => UNCHANGED CallersP!lockVars
  BY DEF lockVars, CallersP!lockVars
<1>5. CallersP!LockTypeOK => Callers!LockTypeOK
  BY DEF Callers!LockTypeOK, CallersP!LockTypeOK
<1>6. CallersP!HolderKeepsKey => Callers!HolderKeepsKey
  BY DEF Callers!HolderKeepsKey, CallersP!HolderKeepsKey
<1>7. CallersP!ExclusiveUnlessOverrun => Callers!ExclusiveUnlessOverrun
  BY DEF Callers!ExclusiveUnlessOverrun, CallersP!ExclusiveUnlessOverrun
<1>8. QED
  BY <1>1, <1>2, <1>3, <1>4, <1>5, <1>6, <1>7

\* ... and for the registry.
LEMMA EquivalentsCarry ==
    /\ Equivalents!RegistryAssumption => EquivalentsP!RegistryAssumption
    /\ Equivalents!RegistryInit => EquivalentsP!RegistryInit
    /\ Equivalents!RegistryNext \/ UNCHANGED registryVars => [EquivalentsP!RegistryNext]_(EquivalentsP!registryVars)
    /\ EquivalentsP!RegistryTypeOK => Equivalents!RegistryTypeOK
    /\ EquivalentsP!AuditAccounts => Equivalents!AuditAccounts
    /\ EquivalentsP!NoLineIsCascaded => Equivalents!NoLineIsCascaded
<1>1. Equivalents!RegistryAssumption => EquivalentsP!RegistryAssumption
  BY DEF Equivalents!RegistryAssumption, EquivalentsP!RegistryAssumption, Equivalents!Ops,
      EquivalentsP!Ops, Equivalents!Patch, EquivalentsP!Patch
<1>2. Equivalents!RegistryInit => EquivalentsP!RegistryInit
  BY DEF Equivalents!RegistryInit, EquivalentsP!RegistryInit, Equivalents!NoProfile,
      EquivalentsP!NoProfile
<1>3. Equivalents!RegistryNext => EquivalentsP!RegistryNext
  BY DEF Equivalents!RegistryNext, EquivalentsP!RegistryNext, Equivalents!Begin, EquivalentsP!Begin,
      Equivalents!Fail, EquivalentsP!Fail, Equivalents!Refuse, EquivalentsP!Refuse,
      Equivalents!Register, EquivalentsP!Register, Equivalents!RegisterConflict,
      EquivalentsP!RegisterConflict, Equivalents!UpdateProfile, EquivalentsP!UpdateProfile,
      Equivalents!SetStatus, EquivalentsP!SetStatus, Equivalents!NoSuchParticipant,
      EquivalentsP!NoSuchParticipant, Equivalents!CreateEquivalent, EquivalentsP!CreateEquivalent,
      Equivalents!UpdateEquivalent, EquivalentsP!UpdateEquivalent, Equivalents!DeleteEquivalent,
      EquivalentsP!DeleteEquivalent, Equivalents!DeleteRefused, EquivalentsP!DeleteRefused,
      Equivalents!CreateLine, EquivalentsP!CreateLine, Equivalents!NoSuchEquivalent,
      EquivalentsP!NoSuchEquivalent, Equivalents!StoreCheckpoints, EquivalentsP!StoreCheckpoints,
      Equivalents!CommitPayment, EquivalentsP!CommitPayment, Equivalents!AbortPayment,
      EquivalentsP!AbortPayment, Equivalents!FreezeInScenario, EquivalentsP!FreezeInScenario,
      Equivalents!FreezeSkipped, EquivalentsP!FreezeSkipped, Equivalents!LapsePayment, EquivalentsP!LapsePayment, Equivalents!PaymentOver, EquivalentsP!PaymentOver,
      Equivalents!rows, EquivalentsP!rows, Equivalents!rowVars, EquivalentsP!rowVars,
      Equivalents!Answer, EquivalentsP!Answer, Equivalents!Running, EquivalentsP!Running,
      Equivalents!On, EquivalentsP!On, Equivalents!Unchanged, EquivalentsP!Unchanged,
      Equivalents!Done, EquivalentsP!Done, Equivalents!Merge, EquivalentsP!Merge,
      Equivalents!Record, EquivalentsP!Record, Equivalents!Exists, EquivalentsP!Exists,
      Equivalents!InUse, EquivalentsP!InUse, Equivalents!Read, EquivalentsP!Read
<1>4. UNCHANGED registryVars => UNCHANGED EquivalentsP!registryVars
  BY DEF registryVars, EquivalentsP!registryVars, EquivalentsP!rowVars
<1>5. EquivalentsP!RegistryTypeOK => Equivalents!RegistryTypeOK
  BY DEF Equivalents!RegistryTypeOK, EquivalentsP!RegistryTypeOK, Equivalents!Patch, EquivalentsP!Patch
<1>6. EquivalentsP!AuditAccounts => Equivalents!AuditAccounts
  BY DEF Equivalents!AuditAccounts, EquivalentsP!AuditAccounts, Equivalents!StateOf,
      EquivalentsP!StateOf
<1>7. EquivalentsP!NoLineIsCascaded => Equivalents!NoLineIsCascaded
  BY DEF Equivalents!NoLineIsCascaded, EquivalentsP!NoLineIsCascaded
<1>8. QED
  BY <1>1, <1>2, <1>3, <1>4, <1>5, <1>6, <1>7

\* ... and for the registry.
LEMMA PeopleCarry ==
    /\ People!RegistryAssumption => PeopleP!RegistryAssumption
    /\ People!RegistryInit => PeopleP!RegistryInit
    /\ People!RegistryNext \/ UNCHANGED registryVars => [PeopleP!RegistryNext]_(PeopleP!registryVars)
    /\ PeopleP!RegistryTypeOK => People!RegistryTypeOK
    /\ PeopleP!AuditAccounts => People!AuditAccounts
    /\ PeopleP!SanctionsAreAudited => People!SanctionsAreAudited
    /\ PeopleP!ProfilesKeepUpdates => People!ProfilesKeepUpdates
    /\ PeopleP!RepliesHold => People!RepliesHold
<1>1. People!RegistryAssumption => PeopleP!RegistryAssumption
  BY DEF People!RegistryAssumption, PeopleP!RegistryAssumption, People!Ops, PeopleP!Ops, People!Patch,
      PeopleP!Patch
<1>2. People!RegistryInit => PeopleP!RegistryInit
  BY DEF People!RegistryInit, PeopleP!RegistryInit, People!NoProfile, PeopleP!NoProfile
<1>3. People!RegistryNext => PeopleP!RegistryNext
  BY DEF People!RegistryNext, PeopleP!RegistryNext, People!Begin, PeopleP!Begin, People!Fail,
      PeopleP!Fail, People!Refuse, PeopleP!Refuse, People!Register, PeopleP!Register,
      People!RegisterConflict, PeopleP!RegisterConflict, People!UpdateProfile,
      PeopleP!UpdateProfile, People!SetStatus, PeopleP!SetStatus, People!NoSuchParticipant,
      PeopleP!NoSuchParticipant, People!CreateEquivalent, PeopleP!CreateEquivalent,
      People!UpdateEquivalent, PeopleP!UpdateEquivalent, People!DeleteEquivalent,
      PeopleP!DeleteEquivalent, People!DeleteRefused, PeopleP!DeleteRefused, People!CreateLine,
      PeopleP!CreateLine, People!NoSuchEquivalent, PeopleP!NoSuchEquivalent,
      People!StoreCheckpoints, PeopleP!StoreCheckpoints, People!CommitPayment,
      PeopleP!CommitPayment, People!AbortPayment, PeopleP!AbortPayment, People!FreezeInScenario, PeopleP!FreezeInScenario,
      People!FreezeSkipped, PeopleP!FreezeSkipped, People!LapsePayment, PeopleP!LapsePayment, People!PaymentOver,
      PeopleP!PaymentOver, People!rows, PeopleP!rows, People!rowVars, PeopleP!rowVars,
      People!Answer, PeopleP!Answer, People!Running, PeopleP!Running, People!On, PeopleP!On,
      People!Unchanged, PeopleP!Unchanged, People!Done, PeopleP!Done, People!Merge, PeopleP!Merge,
      People!Record, PeopleP!Record, People!Exists, PeopleP!Exists, People!InUse, PeopleP!InUse,
      People!Read, PeopleP!Read
<1>4. UNCHANGED registryVars => UNCHANGED PeopleP!registryVars
  BY DEF registryVars, PeopleP!registryVars, PeopleP!rowVars
<1>5. PeopleP!RegistryTypeOK => People!RegistryTypeOK
  BY DEF People!RegistryTypeOK, PeopleP!RegistryTypeOK, People!Patch, PeopleP!Patch
<1>6. PeopleP!AuditAccounts => People!AuditAccounts
  BY DEF People!AuditAccounts, PeopleP!AuditAccounts, People!StateOf, PeopleP!StateOf
<1>7. PeopleP!SanctionsAreAudited => People!SanctionsAreAudited
  BY DEF People!SanctionsAreAudited, PeopleP!SanctionsAreAudited
<1>8. PeopleP!ProfilesKeepUpdates => People!ProfilesKeepUpdates
  BY DEF People!ProfilesKeepUpdates, PeopleP!ProfilesKeepUpdates
<1>9. PeopleP!RepliesHold => People!RepliesHold
  BY DEF People!RepliesHold, PeopleP!RepliesHold, People!On, PeopleP!On
<1>10. QED
  BY <1>1, <1>2, <1>3, <1>4, <1>5, <1>6, <1>7, <1>8, <1>9

\* ... and for the registry.
LEMMA AbortsCarry ==
    /\ Aborts!RegistryAssumption => AbortsP!RegistryAssumption
    /\ Aborts!RegistryInit => AbortsP!RegistryInit
    /\ Aborts!RegistryNext \/ UNCHANGED registryVars => [AbortsP!RegistryNext]_(AbortsP!registryVars)
    /\ AbortsP!RegistryTypeOK => Aborts!RegistryTypeOK
    /\ AbortsP!AuditAccounts => Aborts!AuditAccounts
    /\ AbortsP!SanctionsAreAudited => Aborts!SanctionsAreAudited
    /\ AbortsP!RepliesHold => Aborts!RepliesHold
<1>1. Aborts!RegistryAssumption => AbortsP!RegistryAssumption
  BY DEF Aborts!RegistryAssumption, AbortsP!RegistryAssumption, Aborts!Ops, AbortsP!Ops, Aborts!Patch,
      AbortsP!Patch
<1>2. Aborts!RegistryInit => AbortsP!RegistryInit
  BY DEF Aborts!RegistryInit, AbortsP!RegistryInit, Aborts!NoProfile, AbortsP!NoProfile
<1>3. Aborts!RegistryNext => AbortsP!RegistryNext
  BY DEF Aborts!RegistryNext, AbortsP!RegistryNext, Aborts!Begin, AbortsP!Begin, Aborts!Fail,
      AbortsP!Fail, Aborts!Refuse, AbortsP!Refuse, Aborts!Register, AbortsP!Register,
      Aborts!RegisterConflict, AbortsP!RegisterConflict, Aborts!UpdateProfile,
      AbortsP!UpdateProfile, Aborts!SetStatus, AbortsP!SetStatus, Aborts!NoSuchParticipant,
      AbortsP!NoSuchParticipant, Aborts!CreateEquivalent, AbortsP!CreateEquivalent,
      Aborts!UpdateEquivalent, AbortsP!UpdateEquivalent, Aborts!DeleteEquivalent,
      AbortsP!DeleteEquivalent, Aborts!DeleteRefused, AbortsP!DeleteRefused, Aborts!CreateLine,
      AbortsP!CreateLine, Aborts!NoSuchEquivalent, AbortsP!NoSuchEquivalent,
      Aborts!StoreCheckpoints, AbortsP!StoreCheckpoints, Aborts!CommitPayment,
      AbortsP!CommitPayment, Aborts!AbortPayment, AbortsP!AbortPayment, Aborts!FreezeInScenario, AbortsP!FreezeInScenario,
      Aborts!FreezeSkipped, AbortsP!FreezeSkipped, Aborts!LapsePayment, AbortsP!LapsePayment, Aborts!PaymentOver,
      AbortsP!PaymentOver, Aborts!rows, AbortsP!rows, Aborts!rowVars, AbortsP!rowVars,
      Aborts!Answer, AbortsP!Answer, Aborts!Running, AbortsP!Running, Aborts!On, AbortsP!On,
      Aborts!Unchanged, AbortsP!Unchanged, Aborts!Done, AbortsP!Done, Aborts!Merge, AbortsP!Merge,
      Aborts!Record, AbortsP!Record, Aborts!Exists, AbortsP!Exists, Aborts!InUse, AbortsP!InUse,
      Aborts!Read, AbortsP!Read
<1>4. UNCHANGED registryVars => UNCHANGED AbortsP!registryVars
  BY DEF registryVars, AbortsP!registryVars, AbortsP!rowVars
<1>5. AbortsP!RegistryTypeOK => Aborts!RegistryTypeOK
  BY DEF Aborts!RegistryTypeOK, AbortsP!RegistryTypeOK, Aborts!Patch, AbortsP!Patch
<1>6. AbortsP!AuditAccounts => Aborts!AuditAccounts
  BY DEF Aborts!AuditAccounts, AbortsP!AuditAccounts, Aborts!StateOf, AbortsP!StateOf
<1>7. AbortsP!SanctionsAreAudited => Aborts!SanctionsAreAudited
  BY DEF Aborts!SanctionsAreAudited, AbortsP!SanctionsAreAudited
<1>8. AbortsP!RepliesHold => Aborts!RepliesHold
  BY DEF Aborts!RepliesHold, AbortsP!RepliesHold, Aborts!On, AbortsP!On
<1>9. QED
  BY <1>1, <1>2, <1>3, <1>4, <1>5, <1>6, <1>7, <1>8

----------------------------------------------------------------------------
(* The services together. *)

\* A step is a step of the part that runs, or leaves the variables of it alone.
LEMMA PartSteps ==
    ASSUME [Next]_vars
    PROVE  /\ part' = part
           /\ part = "config" => Config!ConfigNext \/ UNCHANGED configVars
           /\ part = "redis auth" => RedisAuth!AuthNext \/ UNCHANGED authVars
           /\ part = "memory auth" => MemoryAuth!AuthNext \/ UNCHANGED authVars
           /\ part = "callers" => Callers!LockNext \/ UNCHANGED lockVars
           /\ part = "jobs" => Jobs!JobsNext \/ UNCHANGED <<lockVars, jobVars>>
           /\ part = "equivalents" => Equivalents!RegistryNext \/ UNCHANGED registryVars
           /\ part = "people" => People!RegistryNext \/ UNCHANGED registryVars
           /\ part = "aborts" => Aborts!RegistryNext \/ UNCHANGED registryVars
BY DEF Next, RegistryStep, ConfigStep, AuthStep, RateStep, LockStep, JobsStep, vars

\* In each part, its own inductive invariant.
PartInv ==
    /\ part = "config" => ConfigInv
    /\ part = "redis auth" => RedisAuth!AuthInv
    /\ part = "memory auth" => MemoryAuth!AuthInv
    /\ part = "callers" => CallersP!LockInv
    /\ part = "jobs" => Jobs!JobsInv
    /\ part = "equivalents" => EquivalentsP!RegistryInv
    /\ part = "people" => PeopleP!RegistryInv
    /\ part = "aborts" => AbortsP!RegistryInv

LEMMA PartInit ==
    ASSUME Init
    PROVE  PartInv
<1>1. part = "config" => ConfigInv
  BY ServicesAssumption, ConfigInitInv DEF Init, ServicesAssumption
<1>2. part = "redis auth" => RedisAuth!AuthInv
  BY ServicesAssumption, RedisAuth!AuthInitInv DEF Init, ServicesAssumption
<1>3. part = "memory auth" => MemoryAuth!AuthInv
  BY ServicesAssumption, MemoryAuth!AuthInitInv DEF Init, ServicesAssumption
<1>4. part = "callers" => CallersP!LockInv
  BY ServicesAssumption, CallersCarry, CallersP!LockInitInv DEF Init, ServicesAssumption
<1>5. part = "jobs" => Jobs!JobsInv
  BY ServicesAssumption, Jobs!JobsInitInv DEF Init, ServicesAssumption
<1>6. part = "equivalents" => EquivalentsP!RegistryInv
  BY ServicesAssumption, EquivalentsCarry, EquivalentsP!RegistryInitInv DEF Init, ServicesAssumption
<1>7. part = "people" => PeopleP!RegistryInv
  BY ServicesAssumption, PeopleCarry, PeopleP!RegistryInitInv DEF Init, ServicesAssumption
<1>8. part = "aborts" => AbortsP!RegistryInv
  BY ServicesAssumption, AbortsCarry, AbortsP!RegistryInitInv DEF Init, ServicesAssumption
<1>9. QED
  BY <1>1, <1>2, <1>3, <1>4, <1>5, <1>6, <1>7, <1>8 DEF PartInv

LEMMA PartNext ==
    ASSUME PartInv, [Next]_vars
    PROVE  PartInv'
<1>1. ASSUME part = "config" PROVE ConfigInv'
  BY <1>1, ServicesAssumption, PartSteps, ConfigNextInv DEF PartInv, ServicesAssumption
<1>2. ASSUME part = "redis auth" PROVE RedisAuth!AuthInv'
  BY <1>2, ServicesAssumption, PartSteps, PartsStandStill, RedisAuth!AuthNextInv DEF PartInv, ServicesAssumption
<1>3. ASSUME part = "memory auth" PROVE MemoryAuth!AuthInv'
  BY <1>3, ServicesAssumption, PartSteps, PartsStandStill, MemoryAuth!AuthNextInv DEF PartInv, ServicesAssumption
<1>4. ASSUME part = "callers" PROVE CallersP!LockInv'
  BY <1>4, ServicesAssumption, PartSteps, CallersCarry, CallersP!LockNextInv DEF PartInv, ServicesAssumption
<1>5. ASSUME part = "jobs" PROVE Jobs!JobsInv'
  BY <1>5, ServicesAssumption, PartSteps, PartsStandStill, Jobs!JobsNextInv DEF PartInv, ServicesAssumption
<1>6. ASSUME part = "equivalents" PROVE EquivalentsP!RegistryInv'
  BY <1>6, ServicesAssumption, PartSteps, EquivalentsCarry, EquivalentsP!RegistryNextInv DEF PartInv, ServicesAssumption
<1>7. ASSUME part = "people" PROVE PeopleP!RegistryInv'
  BY <1>7, ServicesAssumption, PartSteps, PeopleCarry, PeopleP!RegistryNextInv DEF PartInv, ServicesAssumption
<1>8. ASSUME part = "aborts" PROVE AbortsP!RegistryInv'
  BY <1>8, ServicesAssumption, PartSteps, AbortsCarry, AbortsP!RegistryNextInv DEF PartInv, ServicesAssumption
<1>9. part' = part
  BY PartSteps
<1>10. QED
  BY <1>1, <1>2, <1>3, <1>4, <1>5, <1>6, <1>7, <1>8, <1>9 DEF PartInv

\* api/v1/admin.py: over failing commits, cancellations and restarts, a setting
\* has the value the last published request that asked for it gave it, and differs
\* from the initial one only if a durable audit entry says who changed it; a
\* request for the flags puts none back that another has just changed.
THEOREM SettingsStayAudited == Spec => []SettingsAreAudited
<1>1. Init => PartInv
  BY PartInit
<1>2. PartInv /\ [Next]_vars => PartInv'
  BY PartNext
<1>3. PartInv => SettingsAreAudited
  BY ConfigInvImplies DEF PartInv, SettingsAreAudited
<1>4. QED
  BY <1>1, <1>2, <1>3, PTL DEF Spec

\* auth/service.py: whatever logins, refreshes, cleanups and restarts overlap, a
\* challenge gives tokens to one login, a spent refresh token is out of use, and
\* only refreshes that overlap get tokens for the same one, with revocations in
\* Redis or in memory.
THEOREM TokensStaySpent == Spec => []TokensAreSpentOnce
<1>1. Init => PartInv
  BY PartInit
<1>2. PartInv /\ [Next]_vars => PartInv'
  BY PartNext
<1>3. PartInv => TokensAreSpentOnce
  BY RedisAuth!AuthInvImplies, MemoryAuth!AuthInvImplies
  DEF PartInv, TokensAreSpentOnce
<1>4. QED
  BY <1>1, <1>2, <1>3, PTL DEF Spec

\* distributed_lock.py, main.py: a holder of the lock whose time has not run out
\* owns the key; a dead job degrades /health, a shutdown is no failure, and jobs
\* clean up before their resources are closed.
THEOREM JobsAndLocksStaySafe == Spec => []JobsAndLocksAreSafe
<1>1. Init => PartInv
  BY PartInit
<1>2. PartInv /\ [Next]_vars => PartInv'
  BY PartNext
<1>3. PartInv => JobsAndLocksAreSafe
  <2>1. CallersP!LockInv => CallersP!LockTypeOK /\ CallersP!HolderKeepsKey /\ CallersP!ExclusiveUnlessOverrun
    BY CallersP!LockIsExclusive DEF CallersP!LockInv
  <2>2. QED
    BY <2>1, CallersCarry, Jobs!JobsInvImplies DEF PartInv, JobsAndLocksAreSafe
<1>4. QED
  BY <1>1, <1>2, <1>3, PTL DEF Spec

\* api/v1/admin.py, participants/service.py: the audit log accounts for the state
\* of every object, sanctions are in it, overlapping profile updates lose no field,
\* answers are true, and the deletion of an equivalent takes no line with it.
THEOREM RecordsStayAccountedFor == Spec => RecordsAreAccountedFor
<1> DEFINE Accounts ==
      /\ part = "equivalents" => Equivalents!RegistryTypeOK /\ Equivalents!AuditAccounts
      /\ part = "people" =>
           /\ People!RegistryTypeOK /\ People!AuditAccounts /\ People!SanctionsAreAudited
           /\ People!ProfilesKeepUpdates /\ People!RepliesHold
      /\ part = "aborts" =>
           /\ Aborts!RegistryTypeOK /\ Aborts!AuditAccounts
           /\ Aborts!SanctionsAreAudited /\ Aborts!RepliesHold
<1>1. Init => PartInv
  BY PartInit
<1>2. PartInv /\ [Next]_vars => PartInv'
  BY PartNext
<1>3. PartInv => Accounts
  <2>1. EquivalentsP!RegistryInv => EquivalentsP!RegistryTypeOK /\ EquivalentsP!AuditAccounts
    BY DEF EquivalentsP!RegistryInv, EquivalentsP!RegistryTypes
  <2>2. PeopleP!RegistryInv =>
          /\ PeopleP!RegistryTypeOK /\ PeopleP!AuditAccounts /\ PeopleP!SanctionsAreAudited
          /\ PeopleP!ProfilesKeepUpdates /\ PeopleP!RepliesHold
    BY DEF PeopleP!RegistryInv, PeopleP!RegistryTypes
  <2>3. AbortsP!RegistryInv =>
          /\ AbortsP!RegistryTypeOK /\ AbortsP!AuditAccounts
          /\ AbortsP!SanctionsAreAudited /\ AbortsP!RepliesHold
    BY DEF AbortsP!RegistryInv, AbortsP!RegistryTypes
  <2>4. QED
    BY <2>1, <2>2, <2>3, EquivalentsCarry, PeopleCarry, AbortsCarry DEF PartInv
<1>4. PartInv /\ [Next]_vars => [part = "equivalents" => Equivalents!NoLineIsCascaded]_vars
  BY ServicesAssumption, PartSteps, EquivalentsCarry, EquivalentsP!DeletionFindsNoLine
  DEF PartInv, ServicesAssumption
<1> HIDE DEF Accounts
<1>5. Spec => []Accounts
  BY <1>1, <1>2, <1>3, PTL DEF Spec
<1>6. Spec => [][part = "equivalents" => Equivalents!NoLineIsCascaded]_vars
  BY <1>1, <1>2, <1>4, PTL DEF Spec
<1>7. QED
  BY <1>5, <1>6 DEF RecordsAreAccountedFor, Accounts

----------------------------------------------------------------------------
(* The rate limit. *)

\* The window of a time.
LEMMA WindowOf ==
    ASSUME NEW t \in Nat, NEW w \in Nat \ {0}
    PROVE  /\ t \div w \in Nat /\ w * (t \div w) <= t /\ t < w * (t \div w) + w
           /\ t \div w <= t
OBVIOUS

LEMMA WindowsGoOn ==
    ASSUME NEW t \in Nat, NEW u \in Nat, t <= u, NEW w \in Nat \ {0}
    PROVE  t \div w <= u \div w
<1> DEFINE a == t \div w  b == u \div w
<1>1. a \in Nat /\ b \in Nat /\ w * a <= t /\ u < w * b + w
  BY WindowOf
<1> HIDE DEF a, b
<1>2. SUFFICES ASSUME b + 1 <= a PROVE FALSE
  BY <1>1 DEF a, b
<1>3. PICK d \in Nat : a = b + 1 + d
  <2>1. a - (b + 1) \in Nat /\ a = b + 1 + (a - (b + 1))
    BY <1>1, <1>2
  <2> QED BY <2>1
<1>4. w * a = w * b + w + w * d /\ w * d \in Nat /\ w * b \in Nat
  BY <1>1, <1>3
<1> QED BY <1>1, <1>4

RedisKeys == (0..(RedisMaxTime \div Window)) \X RedisHosts
RedisBucket == now \div Window

\* A request whose key was just created is still to be let through.
Waits(k) == IF k \in pending THEN 1 ELSE 0
Expired(k) == expiry[k] # 0 /\ expiry[k] <= now

RedisTypes ==
    /\ now \in 0..RedisMaxTime /\ cleaned = -1 /\ requests \in 0..RedisMaxRequests
    /\ counters = [k \in {} |-> 0]
    /\ count \in [RedisKeys -> Nat] /\ expiry \in [RedisKeys -> Nat]
    /\ admitted \in [RedisKeys -> Nat] /\ evicted \in [RedisKeys -> Nat]
    /\ pending \subseteq RedisKeys
    /\ used \in [RedisKeys -> SUBSET RedisKeys]

\* The inductive invariant of the counters in Redis: a key outlives its window, and
\* while it lives it counts at least what was let through.
KeySound(k) ==
    /\ k \in pending => expiry[k] = 0 /\ Window * k[1] <= now
    /\ expiry[k] # 0 => expiry[k] > Window * k[1] + Window
    /\ admitted[k] + Waits(k) <= Limit
    /\ ~Expired(k) => admitted[k] + Waits(k) <= count[k]
    /\ ~Expired(k) /\ expiry[k] # 0 => count[k] > 0
RedisRateInv == RedisTypes /\ \A k \in RedisKeys : KeySound(k)

RedisAssumed == Limit \in Nat \ {0} /\ Window \in Nat \ {0} /\ RedisMaxTime \in Nat /\ RedisMaxRequests \in Nat /\ MaxEntries \in Nat

LEMMA RedisRateInitInv ==
    ASSUME RedisAssumed, RedisRate!RateInit
    PROVE  RedisRateInv
<1>1. RedisTypes
  BY DEF RedisTypes, RedisAssumed, RedisRate!RateInit, RedisRate!Keys, RedisKeys
<1>2. \A k \in RedisKeys : KeySound(k)
  BY DEF RedisAssumed, RedisRate!RateInit, RedisRate!Keys, RedisKeys, KeySound, Waits, Expired
<1> QED BY <1>1, <1>2 DEF RedisRateInv

LEMMA RedisKeyOf ==
    ASSUME RedisAssumed, RedisTypes, NEW h \in RedisHosts
    PROVE  /\ <<RedisBucket, h>> \in RedisKeys /\ RedisBucket \in Nat
           /\ Window * RedisBucket <= now /\ now < Window * RedisBucket + Window
<1>1. now \in Nat /\ RedisMaxTime \in Nat /\ now <= RedisMaxTime /\ Window \in Nat \ {0}
  BY DEF RedisTypes, RedisAssumed
<1>2. RedisBucket \in Nat /\ RedisMaxTime \div Window \in Nat /\ RedisBucket <= RedisMaxTime \div Window
  BY <1>1, WindowOf, WindowsGoOn DEF RedisBucket
<1>3. Window * RedisBucket <= now /\ now < Window * RedisBucket + Window
  BY <1>1, WindowOf DEF RedisBucket
<1> QED BY <1>2, <1>3 DEF RedisKeys

LEMMA RedisRequestKeeps ==
    ASSUME RedisAssumed, RedisRateInv, NEW h \in RedisHosts, RedisRate!RedisRequest(h)
    PROVE  RedisRateInv'
<1>0. PICK k \in RedisKeys : k = <<RedisBucket, h>>
  BY RedisKeyOf DEF RedisRateInv
<1> DEFINE b == Window * RedisBucket
<1>1. /\ requests < RedisMaxRequests /\ requests' = requests + 1
      /\ count' = [count EXCEPT ![k] = @ + 1]
      /\ count[k] = 0 => pending' = pending \cup {k} /\ admitted' = admitted
      /\ count[k] # 0 => /\ pending' = pending
                         /\ admitted' = [admitted EXCEPT ![k] = IF count[k] + 1 <= Limit THEN @ + 1 ELSE @]
      /\ UNCHANGED <<now, counters, cleaned, expiry, evicted, used>>
  BY <1>0 DEF RedisRate!RedisRequest, RedisRate!LetThrough, RedisRate!bucket, RedisBucket, RedisRate!memoryVars
<1>2. b <= now /\ now < b + Window /\ RedisBucket \in Nat /\ k[1] = RedisBucket
  BY <1>0, RedisKeyOf DEF RedisRateInv
<1>3. b \in Nat /\ now \in Nat /\ Window \in Nat /\ Limit \in Nat \ {0} /\ Window * k[1] = b
  BY <1>2 DEF RedisRateInv, RedisTypes, RedisAssumed
<1> HIDE DEF b
<1>5. RedisTypes'
  <2>1. count' \in [RedisKeys -> Nat] /\ admitted' \in [RedisKeys -> Nat] /\ pending' \subseteq RedisKeys
    BY <1>1 DEF RedisRateInv, RedisTypes
  <2>2. requests' \in 0..RedisMaxRequests
    BY <1>1 DEF RedisRateInv, RedisTypes, RedisAssumed
  <2> QED BY <1>1, <2>1, <2>2 DEF RedisRateInv, RedisTypes
<1>6. ASSUME NEW j \in RedisKeys, j # k PROVE KeySound(j)'
  <2>1. count'[j] = count[j] /\ admitted'[j] = admitted[j] /\ (j \in pending' <=> j \in pending)
    BY <1>1, <1>6 DEF RedisRateInv, RedisTypes
  <2> QED BY <1>1, <2>1 DEF RedisRateInv, KeySound, Waits, Expired
<1>7. KeySound(k)'
  <2> DEFINE new == admitted'[k]
  <2>1. count[k] \in Nat /\ admitted[k] \in Nat /\ expiry[k] \in Nat /\ count'[k] = count[k] + 1
    BY <1>1 DEF RedisRateInv, RedisTypes
  <2>2. /\ k \in pending => expiry[k] = 0
        /\ expiry[k] # 0 => expiry[k] > b + Window
        /\ admitted[k] + Waits(k) <= Limit
        /\ ~Expired(k) => admitted[k] + Waits(k) <= count[k]
        /\ ~Expired(k) /\ expiry[k] # 0 => count[k] > 0
    BY <1>3 DEF RedisRateInv, KeySound
  <2>3. ~Expired(k) /\ Waits(k) \in {0, 1} /\ expiry' = expiry /\ now' = now
    BY <1>1, <1>2, <1>3, <2>1, <2>2 DEF Expired, Waits
  <2>4. Expired(k)' = Expired(k)
    BY <2>3 DEF Expired
  <2>5. CASE count[k] = 0
    <3>1. admitted[k] = 0 /\ Waits(k) = 0 /\ expiry[k] = 0
      BY <2>1, <2>2, <2>3, <2>5
    <3>2. admitted'[k] = 0 /\ Waits(k)' = 1 /\ k \in pending'
      BY <1>1, <2>5, <3>1 DEF Waits
    <3> QED BY <1>2, <1>3, <2>1, <2>3, <3>1, <3>2, <2>5 DEF KeySound
  <2>6. CASE count[k] # 0
    <3>1. Waits(k)' = Waits(k) /\ (k \in pending' => k \in pending)
      BY <1>1, <2>6 DEF Waits
    <3>2. new = IF count[k] + 1 <= Limit THEN admitted[k] + 1 ELSE admitted[k]
      BY <1>1, <2>6 DEF RedisRateInv, RedisTypes
    <3>3. new + Waits(k) <= Limit /\ new + Waits(k) <= count[k] + 1
      BY <1>3, <2>1, <2>2, <2>3, <3>2
    <3> QED BY <1>2, <1>3, <2>1, <2>2, <2>3, <3>1, <3>3 DEF KeySound
  <2> QED BY <2>5, <2>6
<1> QED BY <1>5, <1>6, <1>7 DEF RedisRateInv

LEMMA RedisExpireKeeps ==
    ASSUME RedisAssumed, RedisRateInv, NEW k \in RedisKeys, RedisRate!RedisExpire(k)
    PROVE  RedisRateInv'
<1>1. /\ k \in pending /\ pending' = pending \ {k} /\ expiry' = [expiry EXCEPT ![k] = now + Window + 1]
      /\ admitted' = [admitted EXCEPT ![k] = IF 1 <= Limit THEN @ + 1 ELSE @]
      /\ UNCHANGED <<now, counters, cleaned, count, requests, evicted, used>>
  BY DEF RedisRate!RedisExpire, RedisRate!LetThrough, RedisRate!memoryVars
<1>2. now \in Nat /\ Window \in Nat \ {0} /\ Limit \in Nat \ {0}
  BY DEF RedisRateInv, RedisTypes, RedisAssumed
<1>3. RedisTypes'
  <2>1. expiry' \in [RedisKeys -> Nat] /\ admitted' \in [RedisKeys -> Nat] /\ pending' \subseteq RedisKeys
    BY <1>1, <1>2 DEF RedisRateInv, RedisTypes
  <2> QED BY <1>1, <2>1 DEF RedisRateInv, RedisTypes
<1>4. ASSUME NEW j \in RedisKeys, j # k PROVE KeySound(j)'
  <2>1. expiry'[j] = expiry[j] /\ admitted'[j] = admitted[j] /\ (j \in pending' <=> j \in pending)
    BY <1>1, <1>4 DEF RedisRateInv, RedisTypes
  <2> QED BY <1>1, <2>1 DEF RedisRateInv, KeySound, Waits, Expired
<1>5. KeySound(k)'
  <2> DEFINE b == Window * k[1]
  <2>1. /\ count[k] \in Nat /\ admitted[k] \in Nat /\ expiry[k] = 0
        /\ count'[k] = count[k] /\ admitted'[k] = admitted[k] + 1 /\ expiry'[k] = now + Window + 1
    BY <1>1, <1>2 DEF RedisRateInv, RedisTypes, KeySound
  <2>2. b <= now /\ b \in Int
    <3>1. k[1] \in Int
      BY DEF RedisKeys
    <3> QED BY <1>1, <1>2, <3>1 DEF RedisRateInv, KeySound
  <2>3. ~Expired(k) /\ Waits(k) = 1 /\ Waits(k)' = 0 /\ k \notin pending'
    BY <1>1, <2>1 DEF Expired, Waits
  <2>4. admitted[k] + 1 <= Limit /\ admitted[k] + 1 <= count[k]
    BY <2>3 DEF RedisRateInv, KeySound
  <2> HIDE DEF b
  <2>5. expiry'[k] > b + Window
    BY <1>2, <2>1, <2>2
  <2> QED BY <1>2, <2>1, <2>3, <2>4, <2>5 DEF KeySound, b
<1> QED BY <1>3, <1>4, <1>5 DEF RedisRateInv

LEMMA RedisExpireFailsKeeps ==
    ASSUME RedisAssumed, RedisRateInv, NEW k \in RedisKeys, RedisRate!RedisExpireFails(k)
    PROVE  RedisRateInv'
<1>1. /\ k \in pending /\ pending' = pending \ {k}
      /\ UNCHANGED <<now, counters, cleaned, count, expiry, requests, admitted, evicted, used>>
  BY DEF RedisRate!RedisExpireFails, RedisRate!memoryVars, RedisRate!historyVars
<1>2. RedisTypes'
  BY <1>1 DEF RedisRateInv, RedisTypes
<1>3. ASSUME NEW j \in RedisKeys PROVE KeySound(j)'
  <2>1. admitted[j] \in Nat /\ count[j] \in Nat /\ Limit \in Nat
    BY DEF RedisRateInv, RedisTypes, RedisAssumed
  <2>2. Waits(j)' \in {0, 1} /\ Waits(j) \in {0, 1} /\ Waits(j)' <= Waits(j) /\ (j \in pending' => j \in pending)
    BY <1>1 DEF Waits
  <2>3. Expired(j)' = Expired(j)
    BY <1>1 DEF Expired
  <2>4. KeySound(j)
    BY DEF RedisRateInv
  <2> QED BY <1>1, <2>1, <2>2, <2>3, <2>4 DEF KeySound
<1> QED BY <1>2, <1>3 DEF RedisRateInv

LEMMA RedisTickKeeps ==
    ASSUME RedisAssumed, RedisRateInv, RedisRate!Tick
    PROVE  RedisRateInv'
<1>1. /\ now < RedisMaxTime /\ now' = now + 1
      /\ count' = [k \in RedisKeys |-> IF expiry[k] # 0 /\ expiry[k] <= now' THEN 0 ELSE count[k]]
      /\ UNCHANGED <<counters, cleaned, expiry, pending, requests, admitted, evicted, used>>
  BY DEF RedisRate!Tick, RedisRate!memoryVars, RedisRate!historyVars, RedisRate!Keys, RedisKeys
<1>2. RedisTypes'
  <2>1. now' \in 0..RedisMaxTime
    BY <1>1 DEF RedisRateInv, RedisTypes, RedisAssumed
  <2>2. count' \in [RedisKeys -> Nat]
    BY <1>1 DEF RedisRateInv, RedisTypes
  <2> QED BY <1>1, <2>1, <2>2 DEF RedisRateInv, RedisTypes
<1>3. ASSUME NEW j \in RedisKeys PROVE KeySound(j)'
  <2>1. /\ admitted[j] \in Nat /\ count[j] \in Nat /\ Limit \in Nat /\ expiry[j] \in Nat /\ now \in Nat
        /\ Window * j[1] \in Int
    BY DEF RedisRateInv, RedisTypes, RedisAssumed, RedisKeys
  <2>2. Waits(j)' = Waits(j)
    BY <1>1 DEF Waits
  <2>3. KeySound(j)
    BY DEF RedisRateInv
  <2>4. Expired(j)' \/ (~Expired(j) /\ count'[j] = count[j])
    BY <1>1, <2>1 DEF Expired
  <2> DEFINE b == Window * j[1]
  <2>5. b \in Int /\ (j \in pending => expiry[j] = 0 /\ b <= now) /\ (expiry[j] # 0 => expiry[j] > b + Window)
    BY <2>1, <2>3 DEF KeySound
  <2>6. (j \in pending' => expiry'[j] = 0 /\ b <= now') /\ (expiry'[j] # 0 => expiry'[j] > b + Window)
    <3> HIDE DEF b
    <3> QED BY <1>1, <2>1, <2>5
  <2>7. /\ admitted'[j] + Waits(j)' <= Limit
        /\ ~Expired(j)' => admitted'[j] + Waits(j)' <= count'[j]
        /\ ~Expired(j)' /\ expiry'[j] # 0 => count'[j] > 0
    BY <1>1, <2>2, <2>3, <2>4 DEF KeySound
  <2> QED BY <2>6, <2>7 DEF KeySound
<1> QED BY <1>2, <1>3 DEF RedisRateInv

LEMMA RedisRateNextInv ==
    ASSUME RedisAssumed, RedisRateInv, [RedisRate!RateNext]_rateVars
    PROVE  RedisRateInv'
<1>1. ASSUME UNCHANGED rateVars PROVE RedisRateInv'
  BY <1>1 DEF rateVars, RedisRateInv, RedisTypes, KeySound, Waits, Expired
<1>2. ASSUME NEW h \in RedisHosts, RedisRate!MemoryRequest(h) PROVE FALSE
  BY <1>2 DEF RedisRate!MemoryRequest
<1>3. RedisRate!Keys = RedisKeys
  BY DEF RedisRate!Keys, RedisKeys
<1> QED BY <1>1, <1>2, <1>3, RedisRequestKeeps, RedisExpireKeeps, RedisExpireFailsKeeps, RedisTickKeeps DEF RedisRate!RateNext

LEMMA RedisRateHolds ==
    ASSUME RedisAssumed, RedisRateInv
    PROVE  RedisRate!RateTypeOK /\ RedisRate!LimitHolds
<1>1. RedisRate!LimitHolds
  <2> SUFFICES ASSUME NEW k \in RedisKeys PROVE admitted[k] <= Limit * (evicted[k] + 1)
    BY DEF RedisRate!LimitHolds, RedisRate!Keys, RedisKeys
  <2>1. admitted[k] \in Nat /\ evicted[k] \in Nat /\ Limit \in Nat
    BY DEF RedisRateInv, RedisTypes, RedisAssumed
  <2>2. admitted[k] <= Limit
    <3>1. admitted[k] + Waits(k) <= Limit /\ Waits(k) \in {0, 1}
      BY DEF RedisRateInv, KeySound, Waits
    <3> QED BY <2>1, <3>1
  <2>3. Limit * (evicted[k] + 1) = Limit * evicted[k] + Limit /\ Limit * evicted[k] \in Nat
    BY <2>1
  <2> DEFINE x == Limit * evicted[k]  y == Limit * (evicted[k] + 1)
  <2> HIDE DEF x, y
  <2>4. admitted[k] <= y
    BY <2>1, <2>2, <2>3 DEF x, y
  <2> QED BY <2>4 DEF y
<1>2. RedisRate!RateTypeOK
  <2>1. DOMAIN counters = {} /\ counters \in [DOMAIN counters -> [n : 1..RedisMaxRequests, at : 1..RedisMaxRequests]]
    BY DEF RedisRateInv, RedisTypes
  <2>2. RedisRate!Cardinality(DOMAIN counters) <= MaxEntries
    <3>1. Cardinality({}) = 0
      BY FS_EmptySet
    <3>2. RedisRate!Cardinality({}) = Cardinality({})
      BY Zenon DEF RedisRate!Cardinality, Cardinality
    <3> QED BY <2>1, <3>1, <3>2 DEF RedisAssumed
  <2>3. cleaned \in -1..RedisMaxTime
    BY DEF RedisRateInv, RedisTypes, RedisAssumed
  <2>4. {count, expiry, admitted, evicted} \subseteq [RedisKeys -> Nat]
    BY DEF RedisRateInv, RedisTypes
  <2>5. RedisRate!Keys = RedisKeys
    BY DEF RedisRate!Keys, RedisKeys
  <2> QED BY <2>1, <2>2, <2>3, <2>4, <2>5, Zenon DEF RedisRate!RateTypeOK, RedisRateInv, RedisTypes
<1> QED BY <1>1, <1>2

\* Every set of numbers has a least one.
LEMMA LeastNumber ==
    ASSUME NEW S \in SUBSET Nat, S # {}
    PROVE  \E x \in S : \A y \in S : x <= y
<1>1. PICK x \in S : \A y \in S : <<y, x>> \notin OpToRel(<, Nat)
  BY WFMin, NatLessThanWellFounded, Zenon
<1>2. \A y \in S : ~(y < x)
  BY <1>1, Zenon DEF OpToRel
<1>3. QED
  BY <1>2

MemoryKeys == (0..(MaxTime \div Window)) \X Hosts
MemoryBucket == now \div Window
MemoryAssumed ==
    /\ Limit \in Nat \ {0} /\ Window \in Nat \ {0} /\ MaxTime \in Nat
    /\ MaxRequests \in Nat /\ MaxEntries \in Nat \ {0}

MemoryTypes ==
    /\ now \in 0..MaxTime /\ cleaned \in -1..MaxTime /\ requests \in 0..MaxRequests
    /\ DOMAIN counters \subseteq MemoryKeys /\ IsFiniteSet(DOMAIN counters)
    /\ counters \in [DOMAIN counters -> [n : 1..requests, at : 1..requests]]
    /\ count \in [MemoryKeys -> Nat] /\ expiry \in [MemoryKeys -> Nat] /\ pending = {}
    /\ admitted \in [MemoryKeys -> Nat] /\ evicted \in [MemoryKeys -> Nat]
    /\ used \in [MemoryKeys -> SUBSET MemoryKeys]
    /\ \A k \in MemoryKeys : IsFiniteSet(used[k])

\* No two counters were inserted at the same time.
Distinct(map) == \A j, k \in DOMAIN map : map[j].at = map[k].at => j = k
Newer(map, k) == {j \in DOMAIN map : map[j].at > map[k].at}

\* What was let through under a key: what the evictions forgot, and what its counter counts.
Bounded(k, map, a, e) ==
    /\ a <= Limit * e + Limit
    /\ k \in DOMAIN map => a <= Limit * e + map[k].n
    /\ k[1] >= MemoryBucket /\ k \notin DOMAIN map => a <= Limit * e

Missing(k) ==
    k[1] >= MemoryBucket /\ k \notin DOMAIN counters /\ admitted[k] > 0
        => Cardinality(used[k]) >= MaxEntries

\* The inductive invariant of the counters in memory.
MemoryRateInv ==
    /\ MemoryTypes
    /\ Cardinality(DOMAIN counters) <= MaxEntries /\ Distinct(counters)
    /\ \A k \in DOMAIN counters : Newer(counters, k) \subseteq used[k]
    /\ \A k \in MemoryKeys : Bounded(k, counters, admitted[k], evicted[k]) /\ Missing(k)

\* The counters that stay are no more than the map may hold: if there is one too
\* many, the first one inserted goes.
LEMMA StayingFit ==
    ASSUME NEW map, IsFiniteSet(DOMAIN map), Distinct(map), \A k \in DOMAIN map : map[k].at \in Nat,
           NEW max \in Nat, Cardinality(DOMAIN map) <= max + 1,
           NEW E, E = {k \in DOMAIN map : Cardinality(Newer(map, k)) < max}
    PROVE  IsFiniteSet(E) /\ Cardinality(E) <= max
<1> DEFINE D == DOMAIN map
<1>1. E \subseteq D /\ IsFiniteSet(D) /\ Cardinality(D) \in Nat
  BY FS_CardinalityType
<1>2. IsFiniteSet(E) /\ Cardinality(E) \in Nat /\ Cardinality(E) <= Cardinality(D)
  BY <1>1, FS_Subset, FS_CardinalityType
<1>3. CASE Cardinality(D) <= max
  BY <1>1, <1>2, <1>3
<1>4. CASE Cardinality(D) = max + 1
  <2>1. D # {}
    <3>1. D = {} => Cardinality(D) = 0
      BY FS_EmptySet
    <3>2. max + 1 # 0
      OBVIOUS
    <3> HIDE DEF D
    <3> QED BY <1>4, <3>1, <3>2
  <2>2. PICK m \in D : \A k \in D : map[m].at <= map[k].at
    <3> DEFINE Ats == {map[k].at : k \in D}
    <3>1. Ats \in SUBSET Nat /\ Ats # {}
      BY <2>1
    <3>2. PICK x \in Ats : \A y \in Ats : x <= y
      BY <3>1, LeastNumber
    <3> QED BY <3>2
  <2>3. Newer(map, m) = D \ {m}
    <3>1. \A k \in D : k # m => map[k].at > map[m].at
      BY <2>2 DEF Distinct
    <3>2. ~(map[m].at > map[m].at)
      OBVIOUS
    <3> QED BY <3>1, <3>2 DEF Newer
  <2>4. Cardinality(Newer(map, m)) = max
    <3> HIDE DEF D
    <3>1. Cardinality(D \ {m}) = Cardinality(D) - 1
      BY <1>1, FS_RemoveElement
    <3> QED BY <1>1, <1>4, <2>3, <3>1
  <2>5. E \subseteq D \ {m}
    BY <2>4
  <2>6. IsFiniteSet(D \ {m}) /\ Cardinality(D \ {m}) = max
    BY <1>1, <2>3, <2>4, FS_Subset
  <2> QED BY <2>5, <2>6, FS_Subset
<1> QED BY <1>1, <1>3, <1>4

LEMMA MemoryRateInitInv ==
    ASSUME MemoryAssumed, MemoryRate!RateInit
    PROVE  MemoryRateInv
<1> USE DEF MemoryRate!RateInit, MemoryRate!Keys, MemoryKeys
<1>1. DOMAIN counters = {} /\ Cardinality({}) = 0 /\ IsFiniteSet({})
  BY FS_EmptySet
<1>2. MemoryTypes
  <2>1. counters \in [DOMAIN counters -> [n : 1..requests, at : 1..requests]]
    BY <1>1
  <2>2. cleaned \in -1..MaxTime /\ now \in 0..MaxTime /\ requests \in 0..MaxRequests
    BY DEF MemoryAssumed
  <2>3. used \in [MemoryKeys -> SUBSET MemoryKeys] /\ \A k \in MemoryKeys : used[k] = {}
    BY Zenon
  <2>4. \A k \in MemoryKeys : IsFiniteSet(used[k])
    BY <1>1, <2>3
  <2>5. /\ count \in [MemoryKeys -> Nat] /\ expiry \in [MemoryKeys -> Nat]
        /\ admitted \in [MemoryKeys -> Nat] /\ evicted \in [MemoryKeys -> Nat]
    OBVIOUS
  <2> QED BY <1>1, <2>1, <2>2, <2>3, <2>4, <2>5 DEF MemoryTypes
<1>3. \A k \in MemoryKeys : Bounded(k, counters, admitted[k], evicted[k]) /\ Missing(k)
  BY <1>1 DEF Bounded, Missing, MemoryAssumed
<1>4. Distinct(counters) /\ \A k \in DOMAIN counters : Newer(counters, k) \subseteq used[k]
  BY <1>1 DEF Distinct
<1> QED BY <1>1, <1>2, <1>3, <1>4 DEF MemoryRateInv, MemoryAssumed

LEMMA MemoryKeyOf ==
    ASSUME MemoryAssumed, MemoryTypes, NEW h \in Hosts
    PROVE  <<MemoryBucket, h>> \in MemoryKeys /\ MemoryBucket \in 0..MaxTime
<1>1. now \in Nat /\ MaxTime \in Nat /\ now <= MaxTime /\ Window \in Nat \ {0}
  BY DEF MemoryTypes, MemoryAssumed
<1>2. MemoryBucket \in Nat /\ MaxTime \div Window \in Nat /\ MemoryBucket <= MaxTime \div Window /\ MemoryBucket <= now
  BY <1>1, WindowOf, WindowsGoOn DEF MemoryBucket
<1> QED BY <1>1, <1>2 DEF MemoryKeys

LEMMA MemoryTickKeeps ==
    ASSUME MemoryAssumed, MemoryRateInv, MemoryRate!Tick
    PROVE  MemoryRateInv'
<1>1. /\ now < MaxTime /\ now' = now + 1
      /\ count' = [k \in MemoryKeys |-> IF expiry[k] # 0 /\ expiry[k] <= now' THEN 0 ELSE count[k]]
      /\ UNCHANGED <<counters, cleaned, expiry, pending, requests, admitted, evicted, used>>
  BY DEF MemoryRate!Tick, MemoryRate!memoryVars, MemoryRate!historyVars, MemoryRate!Keys, MemoryKeys
<1>2. MemoryTypes'
  <2>1. now' \in 0..MaxTime
    BY <1>1 DEF MemoryRateInv, MemoryTypes, MemoryAssumed
  <2>2. count' \in [MemoryKeys -> Nat]
    BY <1>1 DEF MemoryRateInv, MemoryTypes
  <2> QED BY <1>1, <2>1, <2>2 DEF MemoryRateInv, MemoryTypes
<1>3. MemoryBucket \in Nat /\ MemoryBucket' \in Nat /\ MemoryBucket <= MemoryBucket'
  <2>1. now \in Nat /\ now' \in Nat /\ now <= now' /\ Window \in Nat \ {0}
    BY <1>1 DEF MemoryRateInv, MemoryTypes, MemoryAssumed
  <2> QED BY <2>1, WindowOf, WindowsGoOn DEF MemoryBucket
<1>4. ASSUME NEW k \in MemoryKeys
      PROVE  Bounded(k, counters, admitted[k], evicted[k])' /\ Missing(k)'
  <2>1. k[1] \in Int /\ (k[1] >= MemoryBucket' => k[1] >= MemoryBucket)
    BY <1>3 DEF MemoryKeys
  <2>2. Bounded(k, counters, admitted[k], evicted[k]) /\ Missing(k)
    BY DEF MemoryRateInv
  <2> QED BY <1>1, <2>1, <2>2 DEF Bounded, Missing
<1>5. Distinct(counters)' /\ \A k \in DOMAIN counters' : Newer(counters, k)' \subseteq used'[k]
  BY <1>1 DEF MemoryRateInv, Distinct, Newer
<1>6. (Cardinality(DOMAIN counters) <= MaxEntries)'
  BY <1>1 DEF MemoryRateInv
<1> QED BY <1>2, <1>4, <1>5, <1>6 DEF MemoryRateInv

\* What one request does to the bound of a key.
LEMMA BoundStep ==
    ASSUME NEW a \in Nat, NEW e \in Nat, NEW n \in Nat, Limit \in Nat \ {0}
    PROVE  /\ Limit * e \in Nat /\ Limit * (e + 1) = Limit * e + Limit
           /\ a <= Limit * e + n /\ a <= Limit * e + Limit =>
                LET b == IF n + 1 <= Limit THEN a + 1 ELSE a
                IN  b <= Limit * e + Limit /\ b <= Limit * e + (n + 1)
<1> DEFINE x == Limit * e
<1>1. x \in Nat /\ Limit * (e + 1) = x + Limit
  OBVIOUS
<1> HIDE DEF x
<1>2. ASSUME a <= x + n, a <= x + Limit
      PROVE  LET b == IF n + 1 <= Limit THEN a + 1 ELSE a
             IN  b <= x + Limit /\ b <= x + (n + 1)
  BY <1>1, <1>2
<1> QED BY <1>1, <1>2 DEF x

LEMMA MemoryRequestKeeps ==
    ASSUME MemoryAssumed, MemoryRateInv, NEW h \in Hosts, MemoryRate!MemoryRequest(h)
    PROVE  MemoryRateInv'
<1> DEFINE Old == DOMAIN counters
<1>0. PICK k \in MemoryKeys : k = <<MemoryBucket, h>>
  BY MemoryKeyOf DEF MemoryRateInv
<1>1. PICK map : map = MemoryRate!Count(k)
  OBVIOUS
<1>2. PICK E : E = MemoryRate!Evict(map)
  OBVIOUS
<1>3. MemoryRate!bucket = MemoryBucket /\ MemoryRate!Keys = MemoryKeys
  BY DEF MemoryRate!bucket, MemoryBucket, MemoryRate!Keys, MemoryKeys
<1>4. /\ requests < MaxRequests /\ requests' = requests + 1
      /\ counters' = [j \in E |-> map[j]] /\ cleaned' = MemoryBucket
      /\ admitted' = [admitted EXCEPT ![k] = IF map[k].n <= Limit THEN @ + 1 ELSE @]
      /\ evicted' = [j \in MemoryKeys |-> IF j \in DOMAIN map \ E THEN evicted[j] + 1 ELSE evicted[j]]
      /\ used' = [j \in MemoryKeys |-> IF j = k THEN {} ELSE used[j] \cup {k}]
      /\ UNCHANGED <<now, count, expiry, pending>>
  BY <1>0, <1>1, <1>2, <1>3 DEF MemoryRate!MemoryRequest, MemoryRate!LetThrough, MemoryRate!redisVars
<1>5. MemoryBucket \in 0..MaxTime /\ MemoryBucket' = MemoryBucket /\ k[1] = MemoryBucket /\ \A j \in MemoryKeys : j[1] \in Int
  BY <1>0, <1>4, MemoryKeyOf DEF MemoryRateInv, MemoryBucket, MemoryKeys
<1>6. /\ requests \in Nat /\ MaxRequests \in Nat /\ Limit \in Nat \ {0} /\ MaxEntries \in Nat \ {0} /\ MaxTime \in Nat
      /\ Old \subseteq MemoryKeys /\ IsFiniteSet(Old)
      /\ \A j \in Old : counters[j].n \in 1..requests /\ counters[j].at \in 1..requests
  BY DEF MemoryRateInv, MemoryTypes, MemoryAssumed
<1> DEFINE S == DOMAIN map  C == MemoryRate!Cleanup  old == MemoryRate!Counted(k)
<1>7. /\ S = C \cup {k} /\ map[k] = [n |-> old + 1, at |-> requests + 1]
      /\ \A j \in S : j # k => map[j] = counters[j]
  BY <1>1 DEF MemoryRate!Count
<1>8. C \subseteq Old /\ \A j \in Old : j \in C \/ j[1] < MemoryBucket - 1
  <2>1. \A j \in Old : j[1] \in Int
    BY <1>5, <1>6
  <2> QED BY <1>3, <1>5, <2>1 DEF MemoryRate!Cleanup
<1>9. old \in Nat /\ old <= requests /\ (k \in Old => old = counters[k].n) /\ (k \notin Old => old = 0)
  BY <1>6 DEF MemoryRate!Counted
<1> HIDE DEF S, C, old
<1>10. /\ map[k].n = old + 1 /\ map[k].at = requests + 1
       /\ \A j \in S : map[j].n \in 1..(requests + 1) /\ map[j].at \in 1..(requests + 1)
       /\ \A j \in S : j # k => j \in Old /\ map[j] = counters[j] /\ map[j].at <= requests
  <2>1. map[k].n = old + 1 /\ map[k].at = requests + 1
    BY <1>7
  <2>2. \A j \in S : j # k => j \in Old /\ map[j] = counters[j]
    BY <1>7, <1>8
  <2> QED BY <1>6, <1>9, <2>1, <2>2
<1>11. Distinct(map)
  <2>1. \A i, j \in Old : counters[i].at = counters[j].at => i = j
    BY DEF MemoryRateInv, Distinct
  <2> SUFFICES ASSUME NEW i \in S, NEW j \in S, map[i].at = map[j].at PROVE i = j
    BY DEF Distinct, S
  <2>2. CASE i # k /\ j # k
    BY <1>10, <2>1, <2>2
  <2>3. CASE i = k \/ j = k
    BY <1>6, <1>10, <2>3
  <2> QED BY <2>2, <2>3
<1>12. IsFiniteSet(S) /\ Cardinality(S) \in Nat /\ Cardinality(S) <= MaxEntries + 1
  <2>1. IsFiniteSet(C) /\ Cardinality(C) \in Nat /\ Cardinality(C) <= Cardinality(Old) /\ Cardinality(Old) \in Nat
    BY <1>6, <1>8, FS_Subset, FS_CardinalityType
  <2>2. Cardinality(Old) <= MaxEntries
    BY DEF MemoryRateInv
  <2>3. IsFiniteSet(S) /\ (Cardinality(S) = Cardinality(C) \/ Cardinality(S) = Cardinality(C) + 1)
    BY <1>7, <2>1, FS_AddElement
  <2> QED BY <1>6, <2>1, <2>2, <2>3
<1>13. E = {j \in S : Cardinality(Newer(map, j)) < MaxEntries}
  <2>1. \A U : MemoryRate!Cardinality(U) = Cardinality(U)
    BY Zenon DEF MemoryRate!Cardinality, Cardinality
  <2> QED BY <1>2, <2>1 DEF MemoryRate!Evict, Newer, S
<1>14. IsFiniteSet(E) /\ Cardinality(E) <= MaxEntries /\ E \subseteq S
  <2>1. \A j \in DOMAIN map : map[j].at \in Nat
    BY <1>6, <1>10 DEF S
  <2> QED BY <1>6, <1>11, <1>12, <1>13, <2>1, StayingFit DEF S
<1>15. k \in S /\ Newer(map, k) = {} /\ k \in E
  <2>1. Newer(map, k) = {}
    BY <1>6, <1>10 DEF Newer, S
  <2>2. Cardinality({}) = 0
    BY FS_EmptySet
  <2> QED BY <1>6, <1>7, <1>13, <2>1, <2>2
<1>16. /\ \A j \in MemoryKeys : used[j] \in SUBSET MemoryKeys /\ IsFiniteSet(used[j])
       /\ used'[k] = {} /\ \A j \in MemoryKeys : j # k => used'[j] = used[j] \cup {k}
       /\ \A j \in MemoryKeys : IsFiniteSet(used'[j])
  <2>1. \A j \in MemoryKeys : used[j] \in SUBSET MemoryKeys /\ IsFiniteSet(used[j])
    BY DEF MemoryRateInv, MemoryTypes
  <2>2. used'[k] = {} /\ \A j \in MemoryKeys : j # k => used'[j] = used[j] \cup {k}
    BY <1>4
  <2>3. ASSUME NEW j \in MemoryKeys PROVE IsFiniteSet(used'[j])
    <3>1. CASE j = k
      BY <2>2, <3>1, FS_EmptySet
    <3>2. CASE j # k
      <4>1. IsFiniteSet(used[j] \cup {k})
        BY <2>1, FS_AddElement
      <4> QED BY <2>2, <3>2, <4>1
    <3> QED BY <3>1, <3>2
  <2> QED BY <2>1, <2>2, <2>3
<1>17. S \subseteq MemoryKeys
  BY <1>6, <1>7, <1>8
<1>18. ASSUME NEW j \in S PROVE Newer(map, j) \subseteq used'[j]
  <2>1. CASE j = k
    BY <1>15, <2>1
  <2>2. CASE j # k
    <3>1. Newer(counters, j) \subseteq used[j]
      BY <1>10, <1>18, <2>2 DEF MemoryRateInv
    <3>2. Newer(map, j) \subseteq Newer(counters, j) \cup {k}
      BY <1>10, <2>2 DEF Newer, S
    <3> QED BY <1>16, <1>17, <2>2, <3>1, <3>2
  <2> QED BY <2>1, <2>2
<1>19. DOMAIN counters' = E /\ \A j \in E : counters'[j] = map[j]
  BY <1>4
<1>20. MemoryTypes'
  <2>1. cleaned' \in -1..MaxTime /\ requests' \in 0..MaxRequests /\ requests' = requests + 1
    BY <1>4, <1>5, <1>6
  <2>2. counters' \in [DOMAIN counters' -> [n : 1..requests', at : 1..requests']]
    <3>1. \A j \in E : map[j] \in [n : 1..(requests + 1), at : 1..(requests + 1)]
      <4>1. \A j \in Old : counters[j] \in [n : 1..requests, at : 1..requests]
        BY DEF MemoryRateInv, MemoryTypes
      <4>2. \A j \in S : map[j] \in [n : 1..(requests + 1), at : 1..(requests + 1)]
        BY <1>6, <1>7, <1>9, <1>10, <4>1
      <4> QED BY <1>14, <4>2
    <3> QED BY <1>4, <1>19, <2>1, <3>1
  <2>3. used' \in [MemoryKeys -> SUBSET MemoryKeys]
    BY <1>4, <1>16
  <2>4. admitted' \in [MemoryKeys -> Nat] /\ evicted' \in [MemoryKeys -> Nat]
    BY <1>4 DEF MemoryRateInv, MemoryTypes
  <2> QED BY <1>4, <1>14, <1>16, <1>17, <1>19, <2>1, <2>2, <2>3, <2>4 DEF MemoryRateInv, MemoryTypes
<1>21. Distinct(counters)'
  BY <1>11, <1>14, <1>19 DEF Distinct, S
<1>22. \A j \in DOMAIN counters' : Newer(counters, j)' \subseteq used'[j]
  <2>1. \A j \in E : Newer(counters, j)' \subseteq Newer(map, j)
    BY <1>14, <1>19 DEF Newer, S
  <2> QED BY <1>14, <1>18, <1>19, <2>1
<1>23. ASSUME NEW j \in MemoryKeys PROVE Bounded(j, counters, admitted[j], evicted[j])'
  <2> DEFINE a == admitted[j]  e == evicted[j]
  <2>1. a \in Nat /\ e \in Nat /\ Bounded(j, counters, a, e)
    BY DEF MemoryRateInv, MemoryTypes
  <2>2. Limit * e \in Nat /\ Limit * (e + 1) = Limit * e + Limit
    BY <1>6, <2>1, BoundStep
  <2>3. a <= Limit * e + Limit /\ (j \in Old => a <= Limit * e + counters[j].n)
        /\ (j[1] >= MemoryBucket /\ j \notin Old => a <= Limit * e)
    BY <2>1 DEF Bounded
  <2>4. j # k => admitted'[j] = a
    BY <1>4 DEF MemoryRateInv, MemoryTypes
  <2>5. evicted'[j] = IF j \in S \ E THEN e + 1 ELSE e
    BY <1>4 DEF S
  <2>6. CASE j = k
    <3>1. a <= Limit * e + old
      BY <1>5, <1>9, <2>1, <2>2, <2>3, <2>6
    <3>2. admitted'[j] = IF old + 1 <= Limit THEN a + 1 ELSE a
      BY <1>4, <1>10, <2>6 DEF MemoryRateInv, MemoryTypes
    <3>3. admitted'[j] <= Limit * e + Limit /\ admitted'[j] <= Limit * e + (old + 1)
      <4> HIDE DEF a, e
      <4>1. LET b == IF old + 1 <= Limit THEN a + 1 ELSE a
            IN  b <= Limit * e + Limit /\ b <= Limit * e + (old + 1)
        BY <1>6, <1>9, <2>1, <2>3, <3>1, BoundStep
      <4> QED BY <3>2, <4>1
    <3>4. evicted'[j] = e /\ counters'[j].n = old + 1 /\ j \in DOMAIN counters'
      BY <1>10, <1>15, <1>19, <2>5, <2>6
    <3> QED BY <3>3, <3>4 DEF Bounded
  <2>7. CASE j # k /\ j \in E
    <3>1. admitted'[j] = a /\ evicted'[j] = e /\ counters'[j] = counters[j] /\ j \in DOMAIN counters' /\ j \in Old
      BY <1>10, <1>14, <1>19, <2>4, <2>5, <2>7
    <3> QED BY <2>3, <3>1 DEF Bounded
  <2>8. CASE j # k /\ j \in S \ E
    <3>1. admitted'[j] = a /\ evicted'[j] = e + 1 /\ j \notin DOMAIN counters'
      BY <1>19, <2>4, <2>5, <2>8
    <3> DEFINE x == Limit * e  y == Limit * (e + 1)
    <3>2. x \in Nat /\ y = x + Limit /\ a <= x + Limit
      BY <2>2, <2>3
    <3> HIDE DEF x, y
    <3>3. a <= y + Limit /\ a <= y
      BY <1>6, <2>1, <3>2
    <3> QED BY <3>1, <3>3 DEF Bounded, y
  <2>9. CASE j # k /\ j \notin S
    <3>1. admitted'[j] = a /\ evicted'[j] = e /\ j \notin DOMAIN counters'
      BY <1>14, <1>19, <2>4, <2>5, <2>9
    <3>2. j[1] >= MemoryBucket => j \notin Old
      BY <1>5, <1>7, <1>8, <2>9
    <3> QED BY <1>5, <2>3, <3>1, <3>2 DEF Bounded
  <2> QED BY <2>6, <2>7, <2>8, <2>9
<1>24. ASSUME NEW j \in MemoryKeys PROVE Missing(j)'
  <2> SUFFICES ASSUME j[1] >= MemoryBucket, j \notin E, admitted'[j] > 0
               PROVE  Cardinality(used'[j]) >= MaxEntries
    BY <1>5, <1>19 DEF Missing
  <2>1. j # k /\ used'[j] = used[j] \cup {k}
    BY <1>15, <1>16
  <2>2. IsFiniteSet(used'[j]) /\ Cardinality(used'[j]) \in Nat
    BY <1>16, FS_CardinalityType
  <2>3. CASE j \in S
    <3>1. Newer(map, j) \subseteq used'[j]
      BY <1>18, <2>3
    <3>2. Cardinality(Newer(map, j)) <= Cardinality(used'[j]) /\ Cardinality(Newer(map, j)) \in Nat
      BY <2>2, <3>1, FS_Subset, FS_CardinalityType
    <3>3. ~(Cardinality(Newer(map, j)) < MaxEntries)
      BY <1>13, <2>3
    <3> QED BY <1>6, <2>2, <3>2, <3>3
  <2>4. CASE j \notin S
    <3>1. admitted'[j] = admitted[j]
      BY <1>4, <2>1 DEF MemoryRateInv, MemoryTypes
    <3>2. j \notin Old
      BY <1>5, <1>7, <1>8, <2>4
    <3>3. Cardinality(used[j]) >= MaxEntries
      BY <3>1, <3>2 DEF MemoryRateInv, Missing
    <3>4. Cardinality(used[j]) <= Cardinality(used'[j]) /\ Cardinality(used[j]) \in Nat
      BY <1>16, <2>1, <2>2, FS_Subset, FS_CardinalityType
    <3> QED BY <1>6, <2>2, <3>3, <3>4
  <2> QED BY <2>3, <2>4
<1>25. (Cardinality(DOMAIN counters) <= MaxEntries)'
  BY <1>14, <1>19
<1> QED BY <1>20, <1>21, <1>22, <1>23, <1>24, <1>25 DEF MemoryRateInv

LEMMA MemoryRateNextInv ==
    ASSUME MemoryAssumed, MemoryRateInv, [MemoryRate!RateNext]_rateVars
    PROVE  MemoryRateInv'
<1>1. ASSUME UNCHANGED rateVars PROVE MemoryRateInv'
  BY <1>1 DEF rateVars, MemoryRateInv, MemoryTypes, Distinct, Newer, Bounded, Missing, MemoryBucket
<1>2. ASSUME NEW h \in Hosts, MemoryRate!RedisRequest(h) PROVE FALSE
  BY <1>2 DEF MemoryRate!RedisRequest
<1>3. ASSUME NEW k \in MemoryRate!Keys, MemoryRate!RedisExpire(k) \/ MemoryRate!RedisExpireFails(k) PROVE FALSE
  BY <1>3 DEF MemoryRate!RedisExpire, MemoryRate!RedisExpireFails, MemoryRateInv, MemoryTypes
<1> QED BY <1>1, <1>2, <1>3, MemoryRequestKeeps, MemoryTickKeeps DEF MemoryRate!RateNext

LEMMA MemoryRateHolds ==
    ASSUME MemoryAssumed, MemoryRateInv
    PROVE  MemoryRate!RateTypeOK /\ MemoryRate!LimitHolds /\ MemoryRate!BusyHostsKeepTheirCounter
<1>0. MemoryRate!Keys = MemoryKeys /\ \A U : MemoryRate!Cardinality(U) = Cardinality(U)
  BY Zenon DEF MemoryRate!Keys, MemoryKeys, MemoryRate!Cardinality, Cardinality
<1>1. MemoryRate!LimitHolds
  <2> SUFFICES ASSUME NEW k \in MemoryKeys PROVE admitted[k] <= Limit * (evicted[k] + 1)
    BY <1>0 DEF MemoryRate!LimitHolds
  <2>1. admitted[k] \in Nat /\ evicted[k] \in Nat /\ Limit \in Nat \ {0}
    BY DEF MemoryRateInv, MemoryTypes, MemoryAssumed
  <2>2. Limit * (evicted[k] + 1) = Limit * evicted[k] + Limit
    BY <2>1, BoundStep
  <2> QED BY <2>2 DEF MemoryRateInv, Bounded
<1>2. MemoryRate!RateTypeOK
  <2>1. counters \in [DOMAIN counters -> [n : 1..MaxRequests, at : 1..MaxRequests]]
    BY DEF MemoryRateInv, MemoryTypes, MemoryAssumed
  <2>2. MemoryRate!Cardinality(DOMAIN counters) <= MaxEntries
    BY <1>0 DEF MemoryRateInv
  <2>3. {count, expiry, admitted, evicted} \subseteq [MemoryKeys -> Nat] /\ pending \subseteq MemoryKeys
    BY DEF MemoryRateInv, MemoryTypes
  <2> QED BY <1>0, <2>1, <2>2, <2>3, Zenon DEF MemoryRate!RateTypeOK, MemoryRateInv, MemoryTypes
<1>3. MemoryRate!BusyHostsKeepTheirCounter
  <2> SUFFICES ASSUME NEW h \in Hosts, admitted[<<MemoryBucket, h>>] > 0, <<MemoryBucket, h>> \notin DOMAIN counters
               PROVE  Cardinality(used[<<MemoryBucket, h>>]) >= MaxEntries
    BY <1>0 DEF MemoryRate!BusyHostsKeepTheirCounter, MemoryRate!bucket, MemoryBucket
  <2>1. <<MemoryBucket, h>> \in MemoryKeys /\ MemoryBucket \in 0..MaxTime
    BY MemoryKeyOf DEF MemoryRateInv
  <2>2. <<MemoryBucket, h>>[1] >= MemoryBucket
    BY <2>1
  <2> QED BY <2>1, <2>2 DEF MemoryRateInv, Missing
<1> QED BY <1>1, <1>2, <1>3

RateHold ==
    /\ part = "memory rate" => MemoryRateInv
    /\ part = "redis rate" => RedisRateInv

LEMMA RateAssumed == MemoryAssumed /\ RedisAssumed
BY ServicesAssumption
DEF ServicesAssumption, MemoryAssumed, RedisAssumed, MemoryRate!RateAssumption, RedisRate!RateAssumption

LEMMA RateStepIs ==
    ASSUME [Next]_vars
    PROVE  /\ part' = part
           /\ part = "memory rate" => [MemoryRate!RateNext]_rateVars
           /\ part = "redis rate" => [RedisRate!RateNext]_rateVars
BY DEF Next, vars, RegistryStep, ConfigStep, AuthStep, RateStep, LockStep, JobsStep

LEMMA RateHoldsAlways == Spec => []RateHold
<1>1. Init => RateHold
  <2> SUFFICES ASSUME Init PROVE RateHold
    OBVIOUS
  <2>1. ASSUME part = "memory rate" PROVE MemoryRateInv
    <3>1. MemoryRate!RateInit
      BY <2>1 DEF Init
    <3> QED BY <3>1, RateAssumed, MemoryRateInitInv
  <2>2. ASSUME part = "redis rate" PROVE RedisRateInv
    <3>1. RedisRate!RateInit
      BY <2>2 DEF Init
    <3> QED BY <3>1, RateAssumed, RedisRateInitInv
  <2> QED BY <2>1, <2>2 DEF RateHold
<1>2. RateHold /\ [Next]_vars => RateHold'
  BY RateStepIs, RateAssumed, MemoryRateNextInv, RedisRateNextInv DEF RateHold
<1> QED BY <1>1, <1>2, PTL DEF Spec

\* api/deps.py, rate_limit: over any overlap of requests, any failure between the two
\* calls to Redis and any passing of time, a host gets no more than the limit in one
\* window; in memory a counter that falls out of the bounded map starts its host
\* afresh, and it falls out only when as many others as the map holds have been used
\* since its own last use.
THEOREM TheLimitHolds == Spec => []LimitHolds
<1>1. RateHold => LimitHolds
  BY RateAssumed, MemoryRateHolds, RedisRateHolds DEF RateHold, LimitHolds
<1> QED BY <1>1, RateHoldsAlways, PTL
=============================================================================
