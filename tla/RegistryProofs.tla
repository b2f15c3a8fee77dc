--------------------------- MODULE RegistryProofs ---------------------------
(***************************************************************************)
(* Proofs about Registry, for any participants, equivalents, payments and  *)
(* requests about them.                                                    *)
(***************************************************************************)
EXTENDS Registry, TLAPS

Objects == Participants \cup Codes \cup Payments
States == {"none", "active", "suspended", "deleted", "inactive", "open", "COMMITTED", "ABORTED"}
Entries == [on : Objects, after : States]

\* The types that the type invariant of the component leaves open.
RegistryTypes ==
    /\ RegistryTypeOK
    /\ lines \in [Codes -> SUBSET Requests] /\ checkpoints \in [Codes -> BOOLEAN]
    /\ audit \in Seq(Entries)
    /\ updates \in [Participants -> Seq(Patch)]
    /\ snap = [r \in Requests |-> snap[r]]

\* An object with an entry is past the states that nobody records.
EntriesAreOfKnown ==
    \A i \in DOMAIN audit :
        /\ audit[i].on \in Participants => status[audit[i].on] # "none"
        /\ audit[i].on \in Payments => payment[audit[i].on] = "ABORTED"

\* A registered participant stays registered, so a snapshot that has it is right.
SnapshotsKnowNoMore ==
    \A r \in Requests, p \in Participants :
        pc[r] = "running" /\ snap[r].status[p] # "none" => status[p] # "none"

\* The inductive invariant.
RegistryInv ==
    /\ RegistryTypes /\ EntriesAreOfKnown /\ SnapshotsKnowNoMore
    /\ AuditAccounts /\ SanctionsAreAudited /\ ProfilesKeepUpdates /\ RepliesHold

----------------------------------------------------------------------------
(* Lemmas about the operators of the model. *)

LEMMA OpIsTyped ==
    ASSUME RegistryAssumption, NEW r \in Requests
    PROVE  /\ Op[r].kind \in {"register", "profile", "status", "freeze"} => On(r) \in Participants
           /\ Op[r].kind = "profile" => Op[r].patch \in Patch
           /\ Op[r].kind = "status" => Op[r].to \in {"active", "suspended", "deleted"}
           /\ Op[r].kind \in {"create", "delete", "line", "update"} => On(r) \in Codes
           /\ Op[r].kind = "update" => Op[r].to \in {"active", "inactive"}
           /\ Op[r].kind \in {"commit", "abort", "lapse"} => On(r) \in Payments
<1>1. Op[r] \in Ops
  BY DEF RegistryAssumption
<1>2. QED
  BY <1>1 DEF Ops, On

\* A request whose rows are as it read them decides on the present state.
LEMMA ReadIsPresent ==
    ASSUME NEW r \in Requests, Unchanged(r)
    PROVE  /\ Op[r].kind \in {"register", "status", "freeze"} => snap[r].status[On(r)] = status[On(r)]
           /\ Op[r].kind = "profile" =>
                snap[r].status[On(r)] = status[On(r)] /\ snap[r].profile[On(r)] = profile[On(r)]
           /\ Op[r].kind = "delete" =>
                /\ snap[r].equivalent[On(r)] = equivalent[On(r)]
                /\ snap[r].lines[On(r)] = lines[On(r)]
                /\ snap[r].checkpoints[On(r)] = checkpoints[On(r)]
           /\ Op[r].kind \in {"create", "update", "line"} => snap[r].equivalent[On(r)] = equivalent[On(r)]
           /\ Op[r].kind \in {"commit", "abort", "lapse"} => snap[r].payment[On(r)] = payment[On(r)]
           /\ Op[r].kind = "checkpoint" =>
                \A c \in Codes : (snap[r].equivalent[c] # "none") = (equivalent[c] # "none")
<1>1. CASE Op[r].kind = "checkpoint"
  <2>1. [c \in Codes |-> snap[r].equivalent[c] # "none"] = [c \in Codes |-> equivalent[c] # "none"]
    BY <1>1 DEF Unchanged, Read, rows
  <2>2. QED
    BY <1>1, <2>1
<1>2. CASE Op[r].kind # "checkpoint"
  BY <1>2 DEF Unchanged, Read, rows
<1>3. QED
  BY <1>1, <1>2

LEMMA MergeIsPatch ==
    ASSUME NEW old \in Patch, NEW patch \in Patch
    PROVE  /\ Merge(old, patch) \in Patch
           /\ DOMAIN Merge(old, patch) = DOMAIN old \cup DOMAIN patch
           /\ \A f \in DOMAIN patch : Merge(old, patch)[f] = patch[f]
           /\ \A f \in DOMAIN old \ DOMAIN patch : Merge(old, patch)[f] = old[f]
<1>1. PICK F \in SUBSET Fields : old \in [F -> Values]
  BY DEF Patch
<1>2. PICK G \in SUBSET Fields : patch \in [G -> Values]
  BY DEF Patch
<1>3. Merge(old, patch) \in [F \cup G -> Values]
  BY <1>1, <1>2 DEF Merge
<1>4. Merge(old, patch) \in Patch
  BY <1>3 DEF Patch
<1>5. QED
  BY <1>1, <1>2, <1>4 DEF Merge

LEMMA EntryAppended ==
    ASSUME NEW S, NEW log \in Seq(S), NEW e \in S
    PROVE  /\ Append(log, e) \in Seq(S)
           /\ DOMAIN Append(log, e) = DOMAIN log \cup {Len(log) + 1}
           /\ \A i \in DOMAIN log : i \in Int /\ i < Len(log) + 1 /\ Append(log, e)[i] = log[i]
           /\ Append(log, e)[Len(log) + 1] = e
           /\ Len(log) + 1 \in Int
OBVIOUS

\* An entry that says what its object has become keeps the log right ...
LEMMA RecordKeepsAudit ==
    ASSUME RegistryTypes, AuditAccounts, NEW e \in Entries, audit' = Append(audit, e),
           e.after = StateOf(e.on)',
           \A o \in Objects : o # e.on => StateOf(o)' = StateOf(o) /\ (o \in silent => o \in silent')
    PROVE  AuditAccounts'
<1> DEFINE n == Len(audit) + 1
<1>1. /\ DOMAIN audit' = DOMAIN audit \cup {n} /\ n \in Int
      /\ \A i \in DOMAIN audit : i \in Int /\ i < n /\ audit'[i] = audit[i]
      /\ audit'[n] = e
  BY EntryAppended DEF RegistryTypes
<1>2. \A i \in DOMAIN audit : audit[i].on \in Objects
  <2>1. \A i \in DOMAIN audit : audit[i] \in Entries
    BY DEF RegistryTypes
  <2>2. QED
    BY <2>1 DEF Entries
<1> HIDE DEF n
<1>3. SUFFICES ASSUME NEW i \in DOMAIN audit', \A j \in DOMAIN audit' : j > i => audit'[j].on # audit'[i].on
               PROVE  audit'[i].after = StateOf(audit[i].on)' \/ audit'[i].on \in silent' \cap Participants
  BY DEF AuditAccounts
<1>4. CASE i = n
  BY <1>1, <1>4 DEF StateOf
<1>5. CASE i # n
  <2>1. i \in DOMAIN audit /\ audit'[i] = audit[i] /\ i < n /\ audit[i].on # e.on
    BY <1>1, <1>3, <1>5
  <2>2. \A j \in DOMAIN audit : j > i => audit[j].on # audit[i].on
    BY <1>1, <1>3, <2>1
  <2>3. audit[i].after = StateOf(audit[i].on) \/ audit[i].on \in silent \cap Participants
    BY <2>1, <2>2 DEF AuditAccounts
  <2>4. QED
    BY <1>2, <2>1, <2>3 DEF StateOf
<1>6. QED
  BY <1>4, <1>5

\* ... and so does a step without one that changes no object the log speaks of.
LEMMA SilenceKeepsAudit ==
    ASSUME AuditAccounts, audit' = audit, silent \subseteq silent',
           \A i \in DOMAIN audit : \/ StateOf(audit[i].on)' = StateOf(audit[i].on)
                                   \/ audit[i].on \in silent' \cap Participants
    PROVE  AuditAccounts'
BY DEF AuditAccounts

\* What the end of a request that took effect does to the requests.
LEMMA DoneFacts ==
    ASSUME RegistryAssumption, RegistryTypes, NEW r \in Requests, Done(r)
    PROVE  /\ pc' = [pc EXCEPT ![r] = "done"]
           /\ pc' \in [Requests -> {"idle", "running", "done"}]
           /\ snap' = [s \in Requests |-> snap'[s]] /\ \A s \in Requests \ {r} : snap'[s] = snap[s]
           /\ reply' \in [Requests -> {"none", "ok", "conflict", "not_found", "refused", "error"}]
           /\ reply'[r] \in {"ok", "error"} /\ \A s \in Requests \ {r} : reply'[s] = reply[s]
           /\ acksLost' \in 0..MaxAcksLost
<1>1. snap' = [snap EXCEPT ![r] = <<>>] /\ snap = [s \in Requests |-> snap[s]]
  BY DEF Done, RegistryTypes
<1>2. snap' = [s \in Requests |-> snap'[s]] /\ \A s \in Requests \ {r} : snap'[s] = snap[s]
  BY <1>1
<1>3. /\ pc' = [pc EXCEPT ![r] = "done"]
      /\ pc' \in [Requests -> {"idle", "running", "done"}]
  BY DEF Done, RegistryTypes, RegistryTypeOK
<1>4. /\ reply' \in [Requests -> {"none", "ok", "conflict", "not_found", "refused", "error"}]
      /\ reply'[r] \in {"ok", "error"} /\ \A s \in Requests \ {r} : reply'[s] = reply[s]
  BY DEF Done, RegistryTypes, RegistryTypeOK
<1>5. acksLost' \in 0..MaxAcksLost
  BY DEF Done, RegistryTypes, RegistryTypeOK, RegistryAssumption
<1>6. QED
  BY <1>2, <1>3, <1>4, <1>5

\* Participants stay registered, and payments that are over stay as they ended.
Forward ==
    /\ \A p \in Participants : status[p] # "none" => status'[p] # "none"
    /\ \A t \in Payments : payment[t] # "open" => payment'[t] = payment[t]

LEMMA ForwardKeepsSnapshots ==
    ASSUME RegistryAssumption, RegistryTypes, SnapshotsKnowNoMore, Forward, NEW r \in Requests, Done(r)
    PROVE  SnapshotsKnowNoMore'
<1>1. /\ pc' = [pc EXCEPT ![r] = "done"] /\ \A s \in Requests \ {r} : snap'[s] = snap[s]
      /\ pc \in [Requests -> {"idle", "running", "done"}]
  BY DoneFacts DEF RegistryTypes, RegistryTypeOK
<1>2. \A s \in Requests : pc'[s] = "running" => s # r /\ pc[s] = "running" /\ snap'[s] = snap[s]
  BY <1>1
<1>3. QED
  BY <1>2 DEF SnapshotsKnowNoMore, Forward

LEMMA ForwardKeepsReplies ==
    ASSUME RegistryAssumption, RegistryTypes, RepliesHold, Forward, NEW r \in Requests, Done(r),
           Op[r].kind = "register" => status[On(r)] = "none" /\ status'[On(r)] # "none",
           Op[r].kind = "abort" => payment'[On(r)] = "ABORTED",
           Op[r].kind = "commit" => payment'[On(r)] = "COMMITTED"
    PROVE  RepliesHold'
<1>1. /\ reply'[r] \in {"ok", "error"} /\ \A s \in Requests \ {r} : reply'[s] = reply[s]
  BY DoneFacts
<1>2. ASSUME NEW s \in Requests
      PROVE  /\ Op[s].kind = "register" /\ reply'[s] \in {"ok", "conflict"} => status'[On(s)] # "none"
             /\ Op[s].kind = "abort" /\ reply'[s] = "ok" => payment'[On(s)] = "ABORTED"
             /\ Op[s].kind = "commit" /\ reply'[s] = "ok" => payment'[On(s)] = "COMMITTED"
  <2>1. CASE s = r
    BY <2>1, <1>1
  <2>2. CASE s # r
    BY <2>2, <1>1, OpIsTyped DEF RepliesHold, Forward
  <2>3. QED
    BY <2>1, <2>2
<1>3. ASSUME NEW s \in Requests, NEW t \in Requests, s # t, Op[s].kind = "register", Op[s] = Op[t]
      PROVE  {reply'[s], reply'[t]} # {"ok"}
  <2>1. CASE s # r /\ t # r
    BY <2>1, <1>1, <1>3 DEF RepliesHold
  <2>2. CASE s = r \/ t = r
    <3>1. PICK u \in {s, t} : u # r
      BY <1>3, <2>2
    <3>2. Op[r].kind = "register" /\ On(u) = On(r) /\ Op[u].kind = "register"
      BY <1>3, <2>2 DEF On
    <3>3. reply[u] # "ok"
      BY <3>1, <3>2 DEF RepliesHold
    <3>4. QED
      BY <1>1, <3>1, <3>3
  <2>3. QED
    BY <2>1, <2>2
<1>4. QED
  BY <1>2, <1>3 DEF RepliesHold, On

----------------------------------------------------------------------------
(* The steps keep the invariant. *)

LEMMA RegistryInitInv ==
    ASSUME RegistryAssumption, RegistryInit
    PROVE  RegistryInv
<1>1. NoProfile \in Patch /\ DOMAIN NoProfile = {}
  <2>1. NoProfile \in [{} -> Values]
    BY DEF NoProfile
  <2>2. QED
    BY <2>1 DEF Patch, NoProfile
<1>2. RegistryTypes
  <2>1. RegistryTypeOK
    BY <1>1 DEF RegistryInit, RegistryTypeOK, RegistryAssumption
  <2>2. updates \in [Participants -> Seq(Patch)]
    BY DEF RegistryInit
  <2>3. QED
    BY <2>1, <2>2 DEF RegistryInit, RegistryTypes
<1>3. EntriesAreOfKnown /\ AuditAccounts
  BY DEF RegistryInit, EntriesAreOfKnown, AuditAccounts
<1>4. SnapshotsKnowNoMore /\ SanctionsAreAudited
  BY DEF RegistryInit, SnapshotsKnowNoMore, SanctionsAreAudited
<1>5. ProfilesKeepUpdates
  BY <1>1 DEF RegistryInit, ProfilesKeepUpdates
<1>6. RepliesHold
  BY DEF RegistryInit, RepliesHold
<1>7. QED
  BY <1>2, <1>3, <1>4, <1>5, <1>6 DEF RegistryInv

LEMMA BeginInv ==
    ASSUME RegistryInv, NEW r \in Requests, Begin(r)
    PROVE  RegistryInv'
<1>1. /\ UNCHANGED <<status, profile, equivalent, lines, checkpoints, payment, audit, silent, updates, reply, acksLost>>
      /\ pc' = [pc EXCEPT ![r] = "running"] /\ snap' = [snap EXCEPT ![r] = rows] /\ RegistryTypes
  BY DEF Begin, rowVars, RegistryInv
<1>2. /\ pc' \in [Requests -> {"idle", "running", "done"}] /\ snap' = [s \in Requests |-> snap'[s]]
      /\ snap'[r].status = status /\ \A s \in Requests \ {r} : snap'[s] = snap[s] /\ pc'[s] = pc[s]
  BY <1>1 DEF RegistryTypes, RegistryTypeOK, rows
<1>3. RegistryTypes'
  BY <1>1, <1>2 DEF RegistryTypes, RegistryTypeOK
<1>4. SnapshotsKnowNoMore'
  BY <1>1, <1>2 DEF RegistryInv, SnapshotsKnowNoMore
<1>5. AuditAccounts'
  BY <1>1 DEF RegistryInv, AuditAccounts, StateOf
<1>6. EntriesAreOfKnown' /\ SanctionsAreAudited' /\ ProfilesKeepUpdates'
  BY <1>1 DEF RegistryInv, EntriesAreOfKnown, SanctionsAreAudited, ProfilesKeepUpdates
<1>7. RepliesHold'
  BY <1>1 DEF RegistryInv, RepliesHold, On
<1>8. QED
  BY <1>3, <1>4, <1>5, <1>6, <1>7 DEF RegistryInv

\* A request that answers without an effect.
Answers(r) ==
    \/ Fail(r) \/ Refuse(r) \/ RegisterConflict(r) \/ NoSuchParticipant(r)
    \/ DeleteRefused(r) \/ NoSuchEquivalent(r) \/ PaymentOver(r) \/ FreezeSkipped(r)

LEMMA AnswersInv ==
    ASSUME RegistryAssumption, RegistryInv, NEW r \in Requests, Answers(r)
    PROVE  RegistryInv'
<1>0. RegistryTypes
  BY DEF RegistryInv
<1>1. PICK why \in {"error", "refused", "conflict", "not_found"} :
        Answer(r, why) /\ (why = "conflict" /\ Op[r].kind = "register" => status[On(r)] # "none")
  <2>1. CASE RegisterConflict(r)
    BY <2>1, OpIsTyped DEF RegisterConflict, Running, RegistryInv, SnapshotsKnowNoMore
  <2>2. CASE DeleteRefused(r) \/ PaymentOver(r)
    BY <2>2 DEF DeleteRefused, PaymentOver, Running
  <2>3. CASE Fail(r) \/ Refuse(r) \/ NoSuchParticipant(r) \/ NoSuchEquivalent(r) \/ FreezeSkipped(r)
    BY <2>3 DEF Fail, Refuse, NoSuchParticipant, NoSuchEquivalent, FreezeSkipped
  <2>4. QED
    BY <2>1, <2>2, <2>3 DEF Answers
<1>2. /\ UNCHANGED <<status, profile, equivalent, lines, checkpoints, payment, audit, silent, updates, acksLost>>
      /\ pc' = [pc EXCEPT ![r] = "done"] /\ snap' = [snap EXCEPT ![r] = <<>>]
      /\ reply' = [reply EXCEPT ![r] = why]
  BY <1>1 DEF Answer, rowVars
<1>3. /\ pc' \in [Requests -> {"idle", "running", "done"}] /\ snap' = [s \in Requests |-> snap'[s]]
      /\ pc'[r] = "done" /\ \A s \in Requests \ {r} : snap'[s] = snap[s] /\ pc'[s] = pc[s]
  BY <1>0, <1>2 DEF RegistryTypes, RegistryTypeOK
<1>4. /\ reply' \in [Requests -> {"none", "ok", "conflict", "not_found", "refused", "error"}]
      /\ reply'[r] = why /\ \A s \in Requests \ {r} : reply'[s] = reply[s]
  BY <1>0, <1>1, <1>2 DEF RegistryTypes, RegistryTypeOK
<1>5. RegistryTypes'
  BY <1>0, <1>2, <1>3, <1>4 DEF RegistryTypes, RegistryTypeOK
<1>6. SnapshotsKnowNoMore'
  BY <1>2, <1>3 DEF RegistryInv, SnapshotsKnowNoMore
<1>7. AuditAccounts'
  BY <1>2 DEF RegistryInv, AuditAccounts, StateOf
<1>8. EntriesAreOfKnown' /\ SanctionsAreAudited' /\ ProfilesKeepUpdates'
  BY <1>2 DEF RegistryInv, EntriesAreOfKnown, SanctionsAreAudited, ProfilesKeepUpdates
<1>9. RepliesHold'
  <2>1. \A t \in Requests : reply'[t] = "ok" => reply[t] = "ok"
    BY <1>1, <1>4
  <2>2. \A t \in Requests : Op[t].kind = "register" /\ reply'[t] = "conflict" => status[On(t)] # "none"
    BY <1>1, <1>4 DEF RegistryInv, RepliesHold
  <2>3. \A t \in Requests :
          /\ Op[t].kind = "register" /\ reply'[t] \in {"ok", "conflict"} => status'[On(t)] # "none"
          /\ Op[t].kind = "abort" /\ reply'[t] = "ok" => payment'[On(t)] = "ABORTED"
          /\ Op[t].kind = "commit" /\ reply'[t] = "ok" => payment'[On(t)] = "COMMITTED"
    BY <1>2, <2>1, <2>2 DEF RegistryInv, RepliesHold
  <2>4. ASSUME NEW t \in Requests, NEW u \in Requests, t # u, Op[t].kind = "register", Op[t] = Op[u]
        PROVE  {reply'[t], reply'[u]} # {"ok"}
    <3>1. {reply[t], reply[u]} # {"ok"}
      BY <2>4 DEF RegistryInv, RepliesHold
    <3>2. QED
      BY <2>1, <3>1
  <2>5. QED
    BY <2>3, <2>4 DEF RepliesHold, On
<1>10. QED
  BY <1>5, <1>6, <1>7, <1>8, <1>9 DEF RegistryInv

LEMMA RegisterInv ==
    ASSUME RegistryAssumption, RegistryInv, NEW r \in Requests, Register(r)
    PROVE  RegistryInv'
<1>0. RegistryTypes /\ Done(r) /\ Op[r].kind = "register" /\ On(r) \in Participants /\ status[On(r)] = "none"
  BY OpIsTyped, ReadIsPresent DEF Register, Running, RegistryInv
<1>1. /\ UNCHANGED <<profile, equivalent, lines, checkpoints, payment, audit, silent, updates>>
      /\ status' = [status EXCEPT ![On(r)] = "active"]
  BY DEF Register
<1>2. RegistryTypes'
  BY <1>0, <1>1, DoneFacts DEF RegistryTypes, RegistryTypeOK
<1>3. Forward
  BY <1>0, <1>1 DEF Forward, RegistryTypes, RegistryTypeOK
<1>4. \A p \in Participants : p # On(r) => status'[p] = status[p]
  BY <1>0, <1>1 DEF RegistryTypes, RegistryTypeOK
<1>5. AuditAccounts'
  <2>1. \A i \in DOMAIN audit : StateOf(audit[i].on)' = StateOf(audit[i].on)
    BY <1>0, <1>1, <1>4 DEF StateOf, RegistryInv, EntriesAreOfKnown
  <2>2. QED
    BY <1>1, <2>1, SilenceKeepsAudit DEF RegistryInv
<1>6. EntriesAreOfKnown' /\ SanctionsAreAudited'
  BY <1>0, <1>1, <1>3, <1>4 DEF RegistryInv, EntriesAreOfKnown, SanctionsAreAudited, Forward, RegistryTypes, RegistryTypeOK
<1>7. ProfilesKeepUpdates'
  BY <1>1 DEF RegistryInv, ProfilesKeepUpdates
<1>8. RepliesHold' /\ SnapshotsKnowNoMore'
  BY <1>0, <1>1, <1>3, ForwardKeepsReplies, ForwardKeepsSnapshots DEF RegistryInv, RegistryTypes, RegistryTypeOK
<1>9. QED
  BY <1>2, <1>5, <1>6, <1>7, <1>8 DEF RegistryInv

LEMMA UpdateProfileInv ==
    ASSUME RegistryAssumption, RegistryInv, NEW r \in Requests, UpdateProfile(r)
    PROVE  RegistryInv'
<1> DEFINE p == On(r)
           patch == Op[r].patch
<1>0. RegistryTypes /\ Done(r) /\ Op[r].kind = "profile" /\ p \in Participants /\ patch \in Patch
  BY OpIsTyped DEF UpdateProfile, Running, RegistryInv
<1>1. /\ UNCHANGED <<status, equivalent, lines, checkpoints, payment, audit, silent>>
      /\ profile' = [profile EXCEPT ![p] = Merge(profile[p], patch)]
      /\ updates' = [updates EXCEPT ![p] = Append(@, patch)]
  BY <1>0, ReadIsPresent DEF UpdateProfile
<1> HIDE DEF p, patch
<1>2. /\ profile[p] \in Patch /\ profile \in [Participants -> Patch]
      /\ updates[p] \in Seq(Patch) /\ updates \in [Participants -> Seq(Patch)]
  BY <1>0 DEF RegistryTypes, RegistryTypeOK
<1>3. /\ profile' \in [Participants -> Patch] /\ profile'[p] = Merge(profile[p], patch)
      /\ updates' \in [Participants -> Seq(Patch)] /\ updates'[p] = Append(updates[p], patch)
      /\ \A q \in Participants : q # p => profile'[q] = profile[q] /\ updates'[q] = updates[q]
  <2>1. Merge(profile[p], patch) \in Patch
    BY <1>0, <1>2, MergeIsPatch
  <2>2. Append(updates[p], patch) \in Seq(Patch)
    BY <1>0, <1>2
  <2>3. QED
    BY <1>0, <1>1, <1>2, <2>1, <2>2
<1>4. RegistryTypes'
  BY <1>0, <1>1, <1>3, DoneFacts DEF RegistryTypes, RegistryTypeOK
<1>5. ProfilesKeepUpdates'
  <2> DEFINE n == Len(updates[p]) + 1
  <2>1. /\ DOMAIN updates'[p] = DOMAIN updates[p] \cup {n} /\ n \in Int
        /\ \A i \in DOMAIN updates[p] : i \in Int /\ i < n /\ updates'[p][i] = updates[p][i]
        /\ updates'[p][n] = patch
    BY <1>0, <1>2, <1>3, EntryAppended
  <2>2. /\ DOMAIN profile'[p] = DOMAIN profile[p] \cup DOMAIN patch
        /\ \A f \in DOMAIN patch : profile'[p][f] = patch[f]
        /\ \A f \in DOMAIN profile[p] \ DOMAIN patch : profile'[p][f] = profile[p][f]
    <3>1. /\ DOMAIN Merge(profile[p], patch) = DOMAIN profile[p] \cup DOMAIN patch
          /\ \A f \in DOMAIN patch : Merge(profile[p], patch)[f] = patch[f]
          /\ \A f \in DOMAIN profile[p] \ DOMAIN patch : Merge(profile[p], patch)[f] = profile[p][f]
      BY <1>0, <1>2, MergeIsPatch
    <3>2. QED
      BY <1>3, <3>1
  <2> HIDE DEF n
  <2>3. ASSUME NEW f \in Fields
        PROVE  /\ f \in DOMAIN profile'[p] => \E i \in DOMAIN updates'[p] : f \in DOMAIN updates'[p][i]
               /\ \A i \in DOMAIN updates'[p] :
                    /\ f \in DOMAIN updates'[p][i]
                    /\ \A j \in DOMAIN updates'[p] : j > i => f \notin DOMAIN updates'[p][j]
                    => f \in DOMAIN profile'[p] /\ profile'[p][f] = updates'[p][i][f]
    <3>1. /\ f \in DOMAIN profile[p] => \E i \in DOMAIN updates[p] : f \in DOMAIN updates[p][i]
          /\ \A i \in DOMAIN updates[p] :
               /\ f \in DOMAIN updates[p][i]
               /\ \A j \in DOMAIN updates[p] : j > i => f \notin DOMAIN updates[p][j]
               => f \in DOMAIN profile[p] /\ profile[p][f] = updates[p][i][f]
      BY <1>0 DEF RegistryInv, ProfilesKeepUpdates
    <3>2. CASE f \in DOMAIN patch
      BY <2>1, <2>2, <3>2
    <3>3. CASE f \notin DOMAIN patch
      BY <2>1, <2>2, <3>1, <3>3
    <3>4. QED
      BY <3>2, <3>3
  <2>4. ASSUME NEW q \in Participants, NEW f \in Fields, q # p
        PROVE  /\ f \in DOMAIN profile'[q] => \E i \in DOMAIN updates'[q] : f \in DOMAIN updates'[q][i]
               /\ \A i \in DOMAIN updates'[q] :
                    /\ f \in DOMAIN updates'[q][i]
                    /\ \A j \in DOMAIN updates'[q] : j > i => f \notin DOMAIN updates'[q][j]
                    => f \in DOMAIN profile'[q] /\ profile'[q][f] = updates'[q][i][f]
    <3>1. profile'[q] = profile[q] /\ updates'[q] = updates[q]
      BY <1>3, <2>4
    <3>2. QED
      BY <3>1 DEF RegistryInv, ProfilesKeepUpdates
  <2>5. QED
    BY <2>3, <2>4 DEF ProfilesKeepUpdates
<1>6. Forward
  BY <1>1 DEF Forward
<1>7. AuditAccounts'
  BY <1>1 DEF RegistryInv, AuditAccounts, StateOf
<1>8. EntriesAreOfKnown' /\ SanctionsAreAudited'
  BY <1>1 DEF RegistryInv, EntriesAreOfKnown, SanctionsAreAudited
<1>9. RepliesHold' /\ SnapshotsKnowNoMore'
  BY <1>0, <1>6, ForwardKeepsReplies, ForwardKeepsSnapshots DEF RegistryInv
<1>10. QED
  BY <1>4, <1>5, <1>7, <1>8, <1>9 DEF RegistryInv

\* The steps that leave an entry.
LEMMA RecordFacts ==
    ASSUME RegistryTypes, NEW r \in Requests, NEW after \in States, On(r) \in Objects, Record(r, after)
    PROVE  /\ [on |-> On(r), after |-> after] \in Entries
           /\ audit' = Append(audit, [on |-> On(r), after |-> after])
           /\ audit' \in Seq(Entries)
           /\ \A i \in DOMAIN audit : i \in DOMAIN audit' /\ audit'[i] = audit[i]
           /\ \A i \in DOMAIN audit' : i \in DOMAIN audit \/ audit'[i].on = On(r)
           /\ \E i \in DOMAIN audit' : audit'[i].on = On(r)
<1> DEFINE e == [on |-> On(r), after |-> after]
<1>1. e \in Entries /\ e.on = On(r) /\ audit' = Append(audit, e) /\ audit \in Seq(Entries)
  BY DEF Entries, Record, RegistryTypes
<1> HIDE DEF e
<1>2. QED
  BY <1>1, EntryAppended DEF e

LEMMA SetStatusInv ==
    ASSUME RegistryAssumption, RegistryInv, NEW r \in Requests, SetStatus(r)
    PROVE  RegistryInv'
<1>0. /\ RegistryTypes /\ Done(r) /\ Op[r].kind = "status" /\ On(r) \in Participants /\ On(r) \in Objects
      /\ status[On(r)] # "none" /\ Op[r].to \in {"active", "suspended", "deleted"}
      /\ On(r) \notin Codes /\ On(r) \notin Payments /\ Op[r].to \in States
  BY OpIsTyped, ReadIsPresent DEF SetStatus, Running, RegistryInv, Objects, States, RegistryAssumption
<1>1. /\ UNCHANGED <<profile, equivalent, lines, checkpoints, payment, updates>>
      /\ status' = [status EXCEPT ![On(r)] = Op[r].to] /\ Record(r, Op[r].to) /\ silent' = silent \ {On(r)}
  BY DEF SetStatus
<1>2. RegistryTypes'
  BY <1>0, <1>1, DoneFacts, RecordFacts DEF RegistryTypes, RegistryTypeOK
<1>3. /\ \A p \in Participants : p # On(r) => status'[p] = status[p]
      /\ status'[On(r)] = Op[r].to
  BY <1>0, <1>1 DEF RegistryTypes, RegistryTypeOK
<1>4. Forward
  BY <1>0, <1>1, <1>3 DEF Forward
<1>5. AuditAccounts'
  <2> DEFINE e == [on |-> On(r), after |-> Op[r].to]
  <2>1. e \in Entries /\ audit' = Append(audit, e) /\ e.on = On(r) /\ e.after = Op[r].to
    BY <1>0, <1>1, RecordFacts
  <2> HIDE DEF e
  <2>2. e.after = StateOf(e.on)' /\ \A o \in Objects : o # e.on => StateOf(o)' = StateOf(o) /\ (o \in silent => o \in silent')
    BY <1>0, <1>1, <1>3, <2>1 DEF StateOf, Objects
  <2>3. QED
    BY <1>0, <2>1, <2>2, RecordKeepsAudit DEF RegistryInv
<1>6. EntriesAreOfKnown' /\ SanctionsAreAudited'
  <2>1. /\ \A i \in DOMAIN audit : i \in DOMAIN audit' /\ audit'[i] = audit[i]
        /\ \A i \in DOMAIN audit' : i \in DOMAIN audit \/ audit'[i].on = On(r)
        /\ \E i \in DOMAIN audit' : audit'[i].on = On(r)
    BY <1>0, <1>1, RecordFacts
  <2>2. EntriesAreOfKnown'
    BY <1>0, <1>1, <1>3, <2>1 DEF RegistryInv, EntriesAreOfKnown
  <2>3. SanctionsAreAudited'
    BY <1>0, <1>1, <1>3, <2>1 DEF RegistryInv, SanctionsAreAudited
  <2>4. QED
    BY <2>2, <2>3
<1>7. ProfilesKeepUpdates'
  BY <1>1 DEF RegistryInv, ProfilesKeepUpdates
<1>8. RepliesHold' /\ SnapshotsKnowNoMore'
  BY <1>0, <1>4, ForwardKeepsReplies, ForwardKeepsSnapshots DEF RegistryInv
<1>9. QED
  BY <1>2, <1>5, <1>6, <1>7, <1>8 DEF RegistryInv

\* Creation, update and deletion of an equivalent.
LEMMA EquivalentInv ==
    ASSUME RegistryAssumption, RegistryInv, NEW r \in Requests,
           CreateEquivalent(r) \/ UpdateEquivalent(r) \/ DeleteEquivalent(r)
    PROVE  RegistryInv'
<1>0. /\ RegistryTypes /\ Done(r) /\ Op[r].kind \in {"create", "update", "delete"}
      /\ On(r) \in Codes /\ On(r) \in Objects /\ On(r) \notin Participants /\ On(r) \notin Payments
  BY OpIsTyped DEF CreateEquivalent, UpdateEquivalent, DeleteEquivalent, Running, RegistryInv,
                   Objects, RegistryAssumption
<1>1. PICK to \in {"none", "active", "inactive"} :
        /\ UNCHANGED <<status, profile, payment, silent, updates>>
        /\ equivalent' = [equivalent EXCEPT ![On(r)] = to] /\ Record(r, to)
        /\ \/ to # "none" /\ lines' = lines /\ checkpoints' = checkpoints
           \/ /\ lines' = [lines EXCEPT ![On(r)] = {}]
              /\ checkpoints' = [checkpoints EXCEPT ![On(r)] = FALSE]
  BY OpIsTyped DEF CreateEquivalent, UpdateEquivalent, DeleteEquivalent, Running
<1>2. /\ \A c \in Codes : c # On(r) => equivalent'[c] = equivalent[c]
      /\ equivalent'[On(r)] = to /\ equivalent' \in [Codes -> {"none", "active", "inactive"}]
      /\ to \in States
  BY <1>0, <1>1 DEF RegistryTypes, RegistryTypeOK, States
<1>3. /\ lines' \in [Codes -> SUBSET Requests] /\ checkpoints' \in [Codes -> BOOLEAN]
      /\ \A c \in Codes : equivalent'[c] = "none" => lines'[c] = {} /\ ~checkpoints'[c]
  <2>1. /\ lines \in [Codes -> SUBSET Requests] /\ checkpoints \in [Codes -> BOOLEAN]
        /\ \A c \in Codes : equivalent[c] = "none" => lines[c] = {} /\ ~checkpoints[c]
    BY <1>0 DEF RegistryTypes, RegistryTypeOK
  <2>2. CASE to # "none" /\ lines' = lines /\ checkpoints' = checkpoints
    BY <1>2, <2>1, <2>2
  <2>3. CASE /\ lines' = [lines EXCEPT ![On(r)] = {}]
             /\ checkpoints' = [checkpoints EXCEPT ![On(r)] = FALSE]
    <3>1. /\ lines' \in [Codes -> SUBSET Requests] /\ checkpoints' \in [Codes -> BOOLEAN]
          /\ lines'[On(r)] = {} /\ ~checkpoints'[On(r)]
          /\ \A c \in Codes : c # On(r) => lines'[c] = lines[c] /\ checkpoints'[c] = checkpoints[c]
      BY <1>0, <2>1, <2>3
    <3>2. QED
      BY <1>2, <2>1, <3>1
  <2>4. QED
    BY <1>1, <2>2, <2>3
<1>4. RegistryTypes'
  BY <1>0, <1>1, <1>2, <1>3, DoneFacts, RecordFacts DEF RegistryTypes, RegistryTypeOK
<1>5. Forward
  BY <1>1 DEF Forward
<1>6. AuditAccounts'
  <2> DEFINE e == [on |-> On(r), after |-> to]
  <2>1. e \in Entries /\ audit' = Append(audit, e) /\ e.on = On(r) /\ e.after = to
    BY <1>0, <1>1, <1>2, RecordFacts
  <2> HIDE DEF e
  <2>2. e.after = StateOf(e.on)' /\ \A o \in Objects : o # e.on => StateOf(o)' = StateOf(o) /\ (o \in silent => o \in silent')
    BY <1>0, <1>1, <1>2, <2>1 DEF StateOf, Objects
  <2>3. QED
    BY <1>0, <2>1, <2>2, RecordKeepsAudit DEF RegistryInv
<1>7. EntriesAreOfKnown' /\ SanctionsAreAudited'
  <2>1. /\ \A i \in DOMAIN audit : i \in DOMAIN audit' /\ audit'[i] = audit[i]
        /\ \A i \in DOMAIN audit' : i \in DOMAIN audit \/ audit'[i].on = On(r)
        /\ \E i \in DOMAIN audit' : audit'[i].on = On(r)
    BY <1>0, <1>1, <1>2, RecordFacts
  <2>2. EntriesAreOfKnown'
    BY <1>0, <1>1, <2>1 DEF RegistryInv, EntriesAreOfKnown
  <2>3. SanctionsAreAudited'
    BY <1>0, <1>1, <2>1 DEF RegistryInv, SanctionsAreAudited
  <2>4. QED
    BY <2>2, <2>3
<1>8. ProfilesKeepUpdates'
  BY <1>1 DEF RegistryInv, ProfilesKeepUpdates
<1>9. RepliesHold' /\ SnapshotsKnowNoMore'
  BY <1>0, <1>5, ForwardKeepsReplies, ForwardKeepsSnapshots DEF RegistryInv
<1>10. QED
  BY <1>4, <1>6, <1>7, <1>8, <1>9 DEF RegistryInv

\* Trust lines and checkpoints refer to equivalents that exist.
LEMMA ReferenceInv ==
    ASSUME RegistryAssumption, RegistryInv, NEW r \in Requests, CreateLine(r) \/ StoreCheckpoints(r)
    PROVE  RegistryInv'
<1>0. /\ RegistryTypes /\ Done(r) /\ Op[r].kind \in {"line", "checkpoint"}
      /\ UNCHANGED <<status, profile, equivalent, payment, audit, silent, updates>>
  BY DEF CreateLine, StoreCheckpoints, Running, RegistryInv
<1>1. /\ lines' \in [Codes -> SUBSET Requests] /\ checkpoints' \in [Codes -> BOOLEAN]
      /\ \A c \in Codes : equivalent[c] = "none" => lines'[c] = {} /\ ~checkpoints'[c]
  <2>1. CASE CreateLine(r)
    <3>1. On(r) \in Codes /\ equivalent[On(r)] # "none"
      BY <2>1, OpIsTyped, ReadIsPresent DEF CreateLine, Running, Exists
    <3>2. lines' = [lines EXCEPT ![On(r)] = @ \cup {r}] /\ checkpoints' = checkpoints
      BY <2>1 DEF CreateLine
    <3>3. QED
      BY <1>0, <3>1, <3>2 DEF RegistryTypes, RegistryTypeOK
  <2>2. CASE StoreCheckpoints(r)
    <3>1. \A c \in Codes : (snap[r].equivalent[c] # "none") = (equivalent[c] # "none")
      BY <2>2, ReadIsPresent DEF StoreCheckpoints, Running
    <3>2. /\ checkpoints' = [c \in Codes |-> checkpoints[c] \/ snap[r].equivalent[c] # "none"]
          /\ lines' = lines
      BY <2>2 DEF StoreCheckpoints
    <3>3. QED
      BY <1>0, <3>1, <3>2 DEF RegistryTypes, RegistryTypeOK
  <2>3. QED
    BY <2>1, <2>2
<1>2. RegistryTypes'
  BY <1>0, <1>1, DoneFacts DEF RegistryTypes, RegistryTypeOK
<1>3. Forward
  BY <1>0 DEF Forward
<1>4. AuditAccounts'
  BY <1>0 DEF RegistryInv, AuditAccounts, StateOf
<1>5. EntriesAreOfKnown' /\ SanctionsAreAudited' /\ ProfilesKeepUpdates'
  BY <1>0 DEF RegistryInv, EntriesAreOfKnown, SanctionsAreAudited, ProfilesKeepUpdates
<1>6. RepliesHold' /\ SnapshotsKnowNoMore'
  BY <1>0, <1>3, ForwardKeepsReplies, ForwardKeepsSnapshots DEF RegistryInv
<1>7. QED
  BY <1>2, <1>4, <1>5, <1>6 DEF RegistryInv

LEMMA CommitPaymentInv ==
    ASSUME RegistryAssumption, RegistryInv, NEW r \in Requests, CommitPayment(r)
    PROVE  RegistryInv'
<1>0. /\ RegistryTypes /\ Done(r) /\ Op[r].kind = "commit" /\ On(r) \in Payments
      /\ payment[On(r)] = "open" /\ On(r) \notin Participants /\ On(r) \notin Codes
  BY OpIsTyped, ReadIsPresent DEF CommitPayment, Running, RegistryInv, RegistryAssumption
<1>1. /\ UNCHANGED <<status, profile, equivalent, lines, checkpoints, audit, silent, updates>>
      /\ payment' = [payment EXCEPT ![On(r)] = "COMMITTED"]
  BY DEF CommitPayment
<1>2. RegistryTypes'
  BY <1>0, <1>1, DoneFacts DEF RegistryTypes, RegistryTypeOK
<1>3. /\ \A t \in Payments : t # On(r) => payment'[t] = payment[t]
      /\ payment'[On(r)] = "COMMITTED"
  BY <1>0, <1>1 DEF RegistryTypes, RegistryTypeOK
<1>4. Forward
  BY <1>0, <1>1, <1>3 DEF Forward
<1>5. \A i \in DOMAIN audit : audit[i].on \in Objects /\ audit[i].on # On(r)
  <2>1. \A i \in DOMAIN audit : audit[i] \in Entries
    BY <1>0 DEF RegistryTypes
  <2>2. QED
    BY <1>0, <2>1 DEF Entries, RegistryInv, EntriesAreOfKnown
<1>6. AuditAccounts'
  <2>1. \A i \in DOMAIN audit : StateOf(audit[i].on)' = StateOf(audit[i].on)
    BY <1>1, <1>3, <1>5 DEF StateOf, Objects
  <2>2. QED
    BY <1>1, <2>1, SilenceKeepsAudit DEF RegistryInv
<1>7. EntriesAreOfKnown' /\ SanctionsAreAudited'
  BY <1>0, <1>1, <1>3, <1>5 DEF RegistryInv, EntriesAreOfKnown, SanctionsAreAudited
<1>8. ProfilesKeepUpdates'
  BY <1>1 DEF RegistryInv, ProfilesKeepUpdates
<1>9. RepliesHold' /\ SnapshotsKnowNoMore'
  BY <1>0, <1>3, <1>4, ForwardKeepsReplies, ForwardKeepsSnapshots DEF RegistryInv
<1>10. QED
  BY <1>2, <1>6, <1>7, <1>8, <1>9 DEF RegistryInv

LEMMA AbortPaymentInv ==
    ASSUME RegistryAssumption, RegistryInv, NEW r \in Requests, AbortPayment(r)
    PROVE  RegistryInv'
<1>0. /\ RegistryTypes /\ Done(r) /\ Op[r].kind = "abort" /\ On(r) \in Payments /\ On(r) \in Objects
      /\ payment[On(r)] # "COMMITTED" /\ On(r) \notin Participants /\ On(r) \notin Codes
      /\ "ABORTED" \in States
  BY OpIsTyped, ReadIsPresent DEF AbortPayment, Running, RegistryInv, Objects, States, RegistryAssumption
<1>1. /\ UNCHANGED <<status, profile, equivalent, lines, checkpoints, updates>>
      /\ payment' = [payment EXCEPT ![On(r)] = "ABORTED"] /\ Record(r, "ABORTED") /\ silent' = silent \ {On(r)}
  BY DEF AbortPayment
<1>2. RegistryTypes'
  BY <1>0, <1>1, DoneFacts, RecordFacts DEF RegistryTypes, RegistryTypeOK
<1>3. /\ \A t \in Payments : t # On(r) => payment'[t] = payment[t]
      /\ payment'[On(r)] = "ABORTED" /\ payment[On(r)] \in {"open", "COMMITTED", "ABORTED"}
  BY <1>0, <1>1 DEF RegistryTypes, RegistryTypeOK
<1>4. Forward
  BY <1>0, <1>1, <1>3 DEF Forward
<1>5. AuditAccounts'
  <2> DEFINE e == [on |-> On(r), after |-> "ABORTED"]
  <2>1. e \in Entries /\ audit' = Append(audit, e) /\ e.on = On(r) /\ e.after = "ABORTED"
    BY <1>0, <1>1, RecordFacts
  <2> HIDE DEF e
  <2>2. e.after = StateOf(e.on)' /\ \A o \in Objects : o # e.on => StateOf(o)' = StateOf(o) /\ (o \in silent => o \in silent')
    BY <1>0, <1>1, <1>3, <2>1 DEF StateOf, Objects
  <2>3. QED
    BY <1>0, <2>1, <2>2, RecordKeepsAudit DEF RegistryInv
<1>6. EntriesAreOfKnown' /\ SanctionsAreAudited'
  <2>1. /\ \A i \in DOMAIN audit : i \in DOMAIN audit' /\ audit'[i] = audit[i]
        /\ \A i \in DOMAIN audit' : i \in DOMAIN audit \/ audit'[i].on = On(r)
        /\ \E i \in DOMAIN audit' : audit'[i].on = On(r)
    BY <1>0, <1>1, RecordFacts
  <2>2. EntriesAreOfKnown'
    BY <1>0, <1>1, <1>3, <2>1 DEF RegistryInv, EntriesAreOfKnown
  <2>3. SanctionsAreAudited'
    BY <1>0, <1>1, <1>3, <2>1 DEF RegistryInv, SanctionsAreAudited
  <2>4. QED
    BY <2>2, <2>3
<1>7. ProfilesKeepUpdates'
  BY <1>1 DEF RegistryInv, ProfilesKeepUpdates
<1>8. RepliesHold' /\ SnapshotsKnowNoMore'
  BY <1>0, <1>3, <1>4, ForwardKeepsReplies, ForwardKeepsSnapshots DEF RegistryInv
<1>9. QED
  BY <1>2, <1>5, <1>6, <1>7, <1>8 DEF RegistryInv

\* A scenario freezes a participant, without an entry.
LEMMA FreezeInv ==
    ASSUME RegistryAssumption, RegistryInv, NEW r \in Requests, FreezeInScenario(r)
    PROVE  RegistryInv'
<1>0. /\ RegistryTypes /\ Done(r) /\ Op[r].kind = "freeze" /\ On(r) \in Participants
      /\ status[On(r)] # "none" /\ On(r) \notin Codes /\ On(r) \notin Payments
  BY OpIsTyped, ReadIsPresent DEF FreezeInScenario, Running, RegistryInv, RegistryAssumption
<1>1. /\ UNCHANGED <<profile, equivalent, lines, checkpoints, payment, audit, updates>>
      /\ status' = [status EXCEPT ![On(r)] = "suspended"] /\ silent' = silent \cup {On(r)}
  BY DEF FreezeInScenario
<1>2. RegistryTypes'
  BY <1>0, <1>1, DoneFacts DEF RegistryTypes, RegistryTypeOK
<1>3. /\ \A p \in Participants : p # On(r) => status'[p] = status[p]
      /\ status'[On(r)] = "suspended"
  BY <1>0, <1>1 DEF RegistryTypes, RegistryTypeOK
<1>4. Forward
  BY <1>0, <1>1, <1>3 DEF Forward
<1>5. AuditAccounts'
  <2>1. \A i \in DOMAIN audit : audit[i].on # On(r) => StateOf(audit[i].on)' = StateOf(audit[i].on)
    BY <1>0, <1>1, <1>3 DEF StateOf
  <2>2. On(r) \in silent' \cap Participants /\ silent \subseteq silent' /\ audit' = audit
    BY <1>0, <1>1
  <2>3. QED
    BY <2>1, <2>2, SilenceKeepsAudit DEF RegistryInv
<1>6. EntriesAreOfKnown' /\ SanctionsAreAudited'
  BY <1>0, <1>1, <1>3, <1>4 DEF RegistryInv, EntriesAreOfKnown, SanctionsAreAudited, Forward
<1>7. ProfilesKeepUpdates'
  BY <1>1 DEF RegistryInv, ProfilesKeepUpdates
<1>8. RepliesHold' /\ SnapshotsKnowNoMore'
  BY <1>0, <1>4, ForwardKeepsReplies, ForwardKeepsSnapshots DEF RegistryInv
<1>9. QED
  BY <1>2, <1>5, <1>6, <1>7, <1>8 DEF RegistryInv

\* The engine aborts a payment, without an entry.
LEMMA LapseInv ==
    ASSUME RegistryAssumption, RegistryInv, NEW r \in Requests, LapsePayment(r)
    PROVE  RegistryInv'
<1>0. /\ RegistryTypes /\ Done(r) /\ Op[r].kind = "lapse" /\ On(r) \in Payments
      /\ payment[On(r)] = "open" /\ On(r) \notin Participants /\ On(r) \notin Codes
  BY OpIsTyped, ReadIsPresent DEF LapsePayment, Running, RegistryInv, RegistryAssumption
<1>1. /\ UNCHANGED <<status, profile, equivalent, lines, checkpoints, audit, updates>>
      /\ payment' = [payment EXCEPT ![On(r)] = "ABORTED"] /\ silent' = silent \cup {On(r)}
  BY DEF LapsePayment
<1>2. RegistryTypes'
  BY <1>0, <1>1, DoneFacts DEF RegistryTypes, RegistryTypeOK
<1>3. /\ \A t \in Payments : t # On(r) => payment'[t] = payment[t]
      /\ payment'[On(r)] = "ABORTED"
  BY <1>0, <1>1 DEF RegistryTypes, RegistryTypeOK
<1>4. Forward
  BY <1>0, <1>1, <1>3 DEF Forward
<1>5. \A i \in DOMAIN audit : audit[i].on \in Objects /\ audit[i].on # On(r)
  <2>1. \A i \in DOMAIN audit : audit[i] \in Entries
    BY <1>0 DEF RegistryTypes
  <2>2. QED
    BY <1>0, <2>1 DEF Entries, RegistryInv, EntriesAreOfKnown
<1>6. AuditAccounts'
  <2>1. \A i \in DOMAIN audit : StateOf(audit[i].on)' = StateOf(audit[i].on)
    BY <1>1, <1>3, <1>5 DEF StateOf, Objects
  <2>2. QED
    BY <1>1, <2>1, SilenceKeepsAudit DEF RegistryInv
<1>7. EntriesAreOfKnown' /\ SanctionsAreAudited'
  BY <1>0, <1>1, <1>3, <1>5 DEF RegistryInv, EntriesAreOfKnown, SanctionsAreAudited
<1>8. ProfilesKeepUpdates'
  BY <1>1 DEF RegistryInv, ProfilesKeepUpdates
<1>9. RepliesHold' /\ SnapshotsKnowNoMore'
  BY <1>0, <1>3, <1>4, ForwardKeepsReplies, ForwardKeepsSnapshots DEF RegistryInv
<1>10. QED
  BY <1>2, <1>6, <1>7, <1>8, <1>9 DEF RegistryInv

LEMMA RegistryNextInv ==
    ASSUME RegistryAssumption, RegistryInv, [RegistryNext]_registryVars
    PROVE  RegistryInv'
<1>1. CASE UNCHANGED registryVars
  <2>1. UNCHANGED <<status, profile, equivalent, lines, checkpoints, payment, audit, silent, updates, pc, snap, reply, acksLost>>
    BY <1>1 DEF registryVars, rowVars
  <2>2. RegistryTypes' /\ AuditAccounts'
    BY <2>1 DEF RegistryInv, RegistryTypes, RegistryTypeOK, AuditAccounts, StateOf
  <2>3. EntriesAreOfKnown' /\ SnapshotsKnowNoMore' /\ SanctionsAreAudited' /\ ProfilesKeepUpdates' /\ RepliesHold'
    BY <2>1 DEF RegistryInv, EntriesAreOfKnown, SnapshotsKnowNoMore, SanctionsAreAudited,
                ProfilesKeepUpdates, RepliesHold, On
  <2>4. QED
    BY <2>2, <2>3 DEF RegistryInv
<1>2. QED
  BY <1>1, BeginInv, AnswersInv, RegisterInv, UpdateProfileInv, SetStatusInv, EquivalentInv,
     ReferenceInv, CommitPaymentInv, AbortPaymentInv, FreezeInv, LapseInv DEF RegistryNext, Answers

\* A deletion based on the present state finds no line.
LEMMA DeletionFindsNoLine ==
    ASSUME RegistryAssumption, RegistryInv, [RegistryNext]_registryVars
    PROVE  NoLineIsCascaded
<1>1. lines \in [Codes -> SUBSET Requests]
  BY DEF RegistryInv, RegistryTypes
<1>2. ASSUME NEW r \in Requests, DeleteEquivalent(r)
      PROVE  NoLineIsCascaded
  <2>1. On(r) \in Codes /\ lines[On(r)] = {} /\ lines' = [lines EXCEPT ![On(r)] = {}]
    BY <1>2, OpIsTyped, ReadIsPresent DEF DeleteEquivalent, Running, InUse
  <2>2. QED
    BY <1>1, <2>1 DEF NoLineIsCascaded
<1>3. ASSUME NEW r \in Requests, CreateLine(r)
      PROVE  NoLineIsCascaded
  <2>1. lines' = [lines EXCEPT ![On(r)] = @ \cup {r}]
    BY <1>3 DEF CreateLine
  <2>2. QED
    BY <1>1, <2>1 DEF NoLineIsCascaded
<1>4. CASE lines' = lines
  BY <1>4 DEF NoLineIsCascaded
<1>5. QED
  BY <1>2, <1>3, <1>4
  DEF RegistryNext, registryVars, rowVars, Begin, Fail, Refuse, Register, RegisterConflict, UpdateProfile,
      SetStatus, NoSuchParticipant, CreateEquivalent, UpdateEquivalent, DeleteRefused, NoSuchEquivalent,
      StoreCheckpoints, CommitPayment, AbortPayment, PaymentOver, Answer, FreezeInScenario, FreezeSkipped,
      LapsePayment

\* admin.py, participants/service.py: the audit log accounts for what administrators
\* did to every object, sanctions are in it unless a scenario or the engine itself
\* imposed them, overlapping updates of a profile lose no
\* field, and answers are true.
THEOREM RegistryIsAccountedFor ==
    ASSUME RegistryAssumption
    PROVE  RegistrySpec => [](/\ RegistryTypeOK /\ AuditAccounts /\ SanctionsAreAudited
                              /\ ProfilesKeepUpdates /\ RepliesHold)
<1>1. RegistryInit => RegistryInv
  BY RegistryInitInv
<1>2. RegistryInv /\ [RegistryNext]_registryVars => RegistryInv'
  BY RegistryNextInv
<1>3. RegistryInv => RegistryTypeOK /\ AuditAccounts /\ SanctionsAreAudited /\ ProfilesKeepUpdates /\ RepliesHold
  BY DEF RegistryInv, RegistryTypes
<1>4. QED
  BY <1>1, <1>2, <1>3, PTL DEF RegistrySpec

\* The deletion of an equivalent that was found unused takes no trust line with it.
THEOREM DeletionCascadesNothing ==
    ASSUME RegistryAssumption
    PROVE  RegistrySpec => [][NoLineIsCascaded]_registryVars
<1>1. RegistryInit => RegistryInv
  BY RegistryInitInv
<1>2. RegistryInv /\ [RegistryNext]_registryVars => RegistryInv'
  BY RegistryNextInv
<1>3. RegistryInv /\ [RegistryNext]_registryVars => [NoLineIsCascaded]_registryVars
  BY DeletionFindsNoLine
<1>4. QED
  BY <1>1, <1>2, <1>3, PTL DEF RegistrySpec
=============================================================================
