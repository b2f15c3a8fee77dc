------------------------------- MODULE Registry -------------------------------
(***************************************************************************)
(* Participants, equivalents and what administrators do to them:           *)
(* app/core/participants/service.py and the mutating endpoints of          *)
(* app/api/v1/admin.py (status of a participant, equivalents, abort of a   *)
(* payment), against the transactions they compete with.  Each request is  *)
(* one database transaction: it reads a snapshot, decides, and commits its *)
(* rows together with its audit entry, or rolls back.                      *)
(*                                                                         *)
(* A transaction that overlaps with a commit that changed what it read is  *)
(* refused.  SERIALIZABLE refuses fewer, but what else it lets through is  *)
(* equal to some order of whole transactions.                              *)
(***************************************************************************)
EXTENDS Integers, Sequences

CONSTANTS
    Participants,   \* public keys, each with the pid derived from it
    Codes,          \* codes of equivalents
    Payments,
    Fields, Values, \* of a participant's profile
    Requests,
    Op,             \* request -> what it asks for
    MaxAcksLost     \* bound: commits that take effect unanswered

Patch == UNION {[F -> Values] : F \in SUBSET Fields}
NoProfile == [f \in {} |-> 0]

Ops ==
    [kind : {"register"}, on : Participants]
      \cup [kind : {"profile"}, on : Participants, patch : Patch]
      \cup [kind : {"status"}, on : Participants, to : {"active", "suspended", "deleted"}]
      \cup [kind : {"create", "delete", "line"}, on : Codes]
      \cup [kind : {"update"}, on : Codes, to : {"active", "inactive"}]
      \cup [kind : {"freeze"}, on : Participants]
      \cup [kind : {"commit", "abort", "lapse"}, on : Payments]
      \cup [kind : {"checkpoint"}, on : {"all"}]

\* What the constants must satisfy; every instance assumes it.
RegistryAssumption ==
    /\ Op \in [Requests -> Ops] /\ MaxAcksLost \in Nat
    /\ Participants \cap Codes = {} /\ Participants \cap Payments = {} /\ Codes \cap Payments = {}

VARIABLES
    status,         \* of participants; "none": not registered
    profile,
    equivalent,     \* "none", "active" or "inactive"
    lines,          \* equivalent -> requests that created trust lines in it
    checkpoints,    \* equivalent -> it has integrity checkpoints
    payment,        \* "open", "COMMITTED" or "ABORTED"
    audit,          \* entries: object and its state afterwards
    silent,         \* history: objects whose latest change wrote no audit entry
    updates,        \* history: committed profile updates of each participant
    pc,             \* "idle", "running" or "done"
    snap,           \* what each running request sees
    reply,
    acksLost

rows == [status |-> status, profile |-> profile, equivalent |-> equivalent,
         lines |-> lines, checkpoints |-> checkpoints, payment |-> payment]
rowVars == <<status, profile, equivalent, lines, checkpoints, payment>>
registryVars == <<rowVars, audit, silent, updates, pc, snap, reply, acksLost>>

\* A scenario of the simulator may have seeded participants, suspended ones too.
RegistryInit ==
    /\ status \in [Participants -> {"none", "suspended"}]
    /\ silent = {p \in Participants : status[p] = "suspended"}
    /\ profile = [p \in Participants |-> NoProfile]
    /\ equivalent \in [Codes -> {"none", "active", "inactive"}]
    /\ lines = [c \in Codes |-> {}]
    /\ checkpoints = [c \in Codes |-> FALSE]
    /\ payment = [t \in Payments |-> "open"]
    /\ audit = <<>>
    /\ updates = [p \in Participants |-> <<>>]
    /\ pc = [r \in Requests |-> "idle"]
    /\ snap = [r \in Requests |-> <<>>]
    /\ reply = [r \in Requests |-> "none"]
    /\ acksLost = 0

----------------------------------------------------------------------------
On(r) == Op[r].on
Running(r, kind) == pc[r] = "running" /\ Op[r].kind = kind

\* The rows of db on which request r bases its decision.
Read(r, db) ==
    CASE Op[r].kind \in {"register", "status", "freeze"} -> db.status[On(r)]
      [] Op[r].kind = "profile"  -> <<db.status[On(r)], db.profile[On(r)]>>
      [] Op[r].kind = "delete"   -> <<db.equivalent[On(r)], db.lines[On(r)], db.checkpoints[On(r)]>>
      [] Op[r].kind \in {"create", "update", "line"} -> db.equivalent[On(r)]
      [] Op[r].kind \in {"commit", "abort", "lapse"} -> db.payment[On(r)]
      [] Op[r].kind = "checkpoint" -> [c \in Codes |-> db.equivalent[c] # "none"]

Unchanged(r) == Read(r, snap[r]) = Read(r, rows)

Begin(r) ==
    /\ pc[r] = "idle"
    /\ pc'   = [pc EXCEPT ![r] = "running"]
    /\ snap' = [snap EXCEPT ![r] = rows]
    /\ UNCHANGED <<rowVars, audit, silent, updates, reply, acksLost>>

\* The commit has taken effect; its answer may get lost.
Done(r) ==
    /\ pc'   = [pc EXCEPT ![r] = "done"]
    /\ snap' = [snap EXCEPT ![r] = <<>>]
    /\ \/ reply' = [reply EXCEPT ![r] = "ok"] /\ acksLost' = acksLost
       \/ reply' = [reply EXCEPT ![r] = "error"] /\ acksLost < MaxAcksLost /\ acksLost' = acksLost + 1

Answer(r, why) ==
    /\ pc'    = [pc EXCEPT ![r] = "done"]
    /\ snap'  = [snap EXCEPT ![r] = <<>>]
    /\ reply' = [reply EXCEPT ![r] = why]
    /\ UNCHANGED <<rowVars, audit, silent, updates, acksLost>>

\* A failing statement, a refused commit or a cancellation.
Fail(r) == pc[r] = "running" /\ Answer(r, "error")

\* A signature that does not fit, nothing to change, a malformed code, or a row
\* of an earlier version that has to be repaired first.
Refuse(r) ==
    /\ pc[r] = "running" /\ Op[r].kind \in {"register", "profile", "update", "delete", "line"}
    /\ Answer(r, "refused")

Record(r, after) == audit' = Append(audit, [on |-> On(r), after |-> after])

----------------------------------------------------------------------------
(* Participants. *)

\* create_participant: the key is new to the snapshot.
Register(r) ==
    /\ Running(r, "register") /\ snap[r].status[On(r)] = "none"
    /\ Unchanged(r)
    /\ status' = [status EXCEPT ![On(r)] = "active"]
    /\ Done(r)
    /\ UNCHANGED <<profile, equivalent, lines, checkpoints, payment, audit, updates, silent>>

\* The key exists, or another request has inserted it since.
RegisterConflict(r) ==
    /\ Running(r, "register")
    /\ snap[r].status[On(r)] # "none" \/ status[On(r)] # "none"
    /\ Answer(r, "conflict")

Merge(old, patch) ==
    [f \in DOMAIN old \cup DOMAIN patch |-> IF f \in DOMAIN patch THEN patch[f] ELSE old[f]]

\* Mutant: the profile as it was read is written back whatever happened since.
UpdateProfileStale(r) ==
    /\ Running(r, "profile") /\ snap[r].status[On(r)] # "none"
    /\ profile' = [profile EXCEPT ![On(r)] = Merge(snap[r].profile[On(r)], Op[r].patch)]
    /\ updates' = [updates EXCEPT ![On(r)] = Append(@, Op[r].patch)]
    /\ Done(r)
    /\ UNCHANGED <<status, equivalent, lines, checkpoints, payment, audit, silent>>

\* update_participant: fields that are not sent keep their values.
UpdateProfile(r) ==
    /\ Running(r, "profile") /\ snap[r].status[On(r)] # "none"
    /\ Unchanged(r)
    /\ profile' = [profile EXCEPT ![On(r)] = Merge(snap[r].profile[On(r)], Op[r].patch)]
    /\ updates' = [updates EXCEPT ![On(r)] = Append(@, Op[r].patch)]
    /\ Done(r)
    /\ UNCHANGED <<status, equivalent, lines, checkpoints, payment, audit, silent>>

\* _set_participant_status: freeze, unfreeze, ban and unban.
SetStatus(r) ==
    /\ Running(r, "status") /\ snap[r].status[On(r)] # "none"
    /\ Unchanged(r)
    /\ status' = [status EXCEPT ![On(r)] = Op[r].to]
    /\ Record(r, Op[r].to)
    /\ Done(r)
    /\ silent' = silent \ {On(r)}
    /\ UNCHANGED <<profile, equivalent, lines, checkpoints, payment, updates>>

\* freeze_participant of a scenario's event writes no audit entry.
FreezeInScenario(r) ==
    /\ Running(r, "freeze") /\ snap[r].status[On(r)] \notin {"none", "suspended"}
    /\ Unchanged(r)
    /\ status' = [status EXCEPT ![On(r)] = "suspended"]
    /\ silent' = silent \cup {On(r)}
    /\ Done(r)
    /\ UNCHANGED <<profile, equivalent, lines, checkpoints, payment, audit, updates>>

FreezeSkipped(r) ==
    /\ Running(r, "freeze") /\ snap[r].status[On(r)] \in {"none", "suspended"}
    /\ Answer(r, "refused")

NoSuchParticipant(r) ==
    /\ pc[r] = "running" /\ Op[r].kind \in {"profile", "status"}
    /\ snap[r].status[On(r)] = "none"
    /\ Answer(r, "not_found")

----------------------------------------------------------------------------
(* Equivalents, and the transactions that refer to them. *)

Exists(r) == snap[r].equivalent[On(r)] # "none"

\* The code is unique: a second row with it fails (Fail).
CreateEquivalent(r) ==
    /\ Running(r, "create") /\ ~Exists(r)
    /\ Unchanged(r)
    /\ equivalent' = [equivalent EXCEPT ![On(r)] = "active"]
    /\ Record(r, "active")
    /\ Done(r)
    /\ UNCHANGED <<status, profile, lines, checkpoints, payment, updates, silent>>

UpdateEquivalent(r) ==
    /\ Running(r, "update") /\ Exists(r)
    /\ Unchanged(r)
    /\ equivalent' = [equivalent EXCEPT ![On(r)] = Op[r].to]
    /\ Record(r, Op[r].to)
    /\ Done(r)
    /\ UNCHANGED <<status, profile, lines, checkpoints, payment, updates, silent>>

InUse(r) == snap[r].lines[On(r)] # {} \/ snap[r].checkpoints[On(r)]

\* Rows that refer to the equivalent go with it (ON DELETE CASCADE).
DeleteEquivalent(r) ==
    /\ Running(r, "delete") /\ snap[r].equivalent[On(r)] = "inactive" /\ ~InUse(r)
    /\ Unchanged(r)
    /\ equivalent'  = [equivalent EXCEPT ![On(r)] = "none"]
    /\ lines'       = [lines EXCEPT ![On(r)] = {}]
    /\ checkpoints' = [checkpoints EXCEPT ![On(r)] = FALSE]
    /\ Record(r, "none")
    /\ Done(r)
    /\ UNCHANGED <<status, profile, payment, updates, silent>>

DeleteRefused(r) ==
    /\ Running(r, "delete") /\ Exists(r)
    /\ snap[r].equivalent[On(r)] = "active" \/ InUse(r)
    /\ Answer(r, "conflict")

\* TrustLineService.create asks for the equivalent's row, not for its activity.
CreateLine(r) ==
    /\ Running(r, "line") /\ Exists(r)
    /\ Unchanged(r)
    /\ lines' = [lines EXCEPT ![On(r)] = @ \cup {r}]
    /\ Done(r)
    /\ UNCHANGED <<status, profile, equivalent, checkpoints, payment, audit, updates, silent>>

NoSuchEquivalent(r) ==
    /\ pc[r] = "running" /\ Op[r].kind \in {"update", "delete", "line"}
    /\ ~Exists(r)
    /\ Answer(r, "not_found")

\* A pass of the integrity job: all equivalents or none.
StoreCheckpoints(r) ==
    /\ Running(r, "checkpoint")
    /\ Unchanged(r)
    /\ checkpoints' = [c \in Codes |-> checkpoints[c] \/ snap[r].equivalent[c] # "none"]
    /\ Done(r)
    /\ UNCHANGED <<status, profile, equivalent, lines, payment, audit, updates, silent>>

----------------------------------------------------------------------------
(* Abort of a payment by an administrator. *)

\* The payment's own commit (PaymentEngine).
CommitPayment(r) ==
    /\ Running(r, "commit") /\ snap[r].payment[On(r)] = "open"
    /\ Unchanged(r)
    /\ payment' = [payment EXCEPT ![On(r)] = "COMMITTED"]
    /\ Done(r)
    /\ UNCHANGED <<status, profile, equivalent, lines, checkpoints, audit, updates, silent>>

\* abort_transaction: the engine's abort is staged, the entry says what it left.
AbortPayment(r) ==
    /\ Running(r, "abort") /\ snap[r].payment[On(r)] # "COMMITTED"
    /\ Unchanged(r)
    /\ payment' = [payment EXCEPT ![On(r)] = "ABORTED"]
    /\ Record(r, "ABORTED")
    /\ Done(r)
    /\ silent' = silent \ {On(r)}
    /\ UNCHANGED <<status, profile, equivalent, lines, checkpoints, updates>>

\* The engine's own abort (a timeout of the payment, the recovery loop) is not
\* an administrator's: no audit entry.
LapsePayment(r) ==
    /\ Running(r, "lapse") /\ snap[r].payment[On(r)] = "open"
    /\ Unchanged(r)
    /\ payment' = [payment EXCEPT ![On(r)] = "ABORTED"]
    /\ silent' = silent \cup {On(r)}
    /\ Done(r)
    /\ UNCHANGED <<status, profile, equivalent, lines, checkpoints, audit, updates>>

PaymentOver(r) ==
    /\ \/ Running(r, "abort") /\ snap[r].payment[On(r)] = "COMMITTED"
       \/ (Running(r, "commit") \/ Running(r, "lapse")) /\ snap[r].payment[On(r)] # "open"
    /\ Answer(r, "conflict")

RegistryNext ==
    \E r \in Requests :
        \/ Begin(r) \/ Fail(r) \/ Refuse(r)
        \/ Register(r) \/ RegisterConflict(r) \/ UpdateProfile(r) \/ SetStatus(r) \/ NoSuchParticipant(r)
        \/ FreezeInScenario(r) \/ FreezeSkipped(r)
        \/ CreateEquivalent(r) \/ UpdateEquivalent(r) \/ DeleteEquivalent(r) \/ DeleteRefused(r)
        \/ CreateLine(r) \/ NoSuchEquivalent(r) \/ StoreCheckpoints(r)
        \/ CommitPayment(r) \/ AbortPayment(r) \/ LapsePayment(r) \/ PaymentOver(r)

RegistrySpec == RegistryInit /\ [][RegistryNext]_registryVars

----------------------------------------------------------------------------
\* Type invariant; nothing refers to an equivalent that does not exist.
RegistryTypeOK ==
    /\ status \in [Participants -> {"none", "active", "suspended", "deleted"}]
    /\ profile \in [Participants -> Patch]
    /\ equivalent \in [Codes -> {"none", "active", "inactive"}]
    /\ \A c \in Codes : equivalent[c] = "none" => lines[c] = {} /\ ~checkpoints[c]
    /\ payment \in [Payments -> {"open", "COMMITTED", "ABORTED"}]
    /\ pc \in [Requests -> {"idle", "running", "done"}]
    /\ reply \in [Requests -> {"none", "ok", "conflict", "not_found", "refused", "error"}]
    /\ silent \subseteq Participants \cup Payments
    /\ acksLost \in 0..MaxAcksLost

\* The deletion of an equivalent that was unused when it was looked at takes no
\* trust line with it: the cascade of the schema finds nothing to delete.
NoLineIsCascaded == \A c \in Codes : lines[c] \subseteq lines'[c]

\* The state of a participant, an equivalent or a payment.
StateOf(o) ==
    IF o \in Participants THEN status[o] ELSE IF o \in Codes THEN equivalent[o] ELSE payment[o]

\* The audit log accounts for what administrators did: the state of an object is
\* the one its latest entry gives, over commits whose answer was lost, unless a
\* scenario froze the participant afterwards.
AuditAccounts ==
    \A i \in DOMAIN audit :
        (\A j \in DOMAIN audit : j > i => audit[j].on # audit[i].on) =>
            audit[i].after = StateOf(audit[i].on) \/ audit[i].on \in silent \cap Participants

\* What is suspended, banned or aborted has an entry, unless that was the doing
\* of a scenario or of the engine itself, which write none.
SanctionsAreAudited ==
    /\ \A p \in Participants \ silent :
         status[p] \in {"suspended", "deleted"} => \E i \in DOMAIN audit : audit[i].on = p
    /\ \A t \in Payments \ silent :
         payment[t] = "ABORTED" => \E i \in DOMAIN audit : audit[i].on = t

\* No profile update is lost: each field has the value of the last committed
\* update that sent it, though updates and a change of status overlap.
ProfilesKeepUpdates ==
    \A p \in Participants, f \in Fields :
        /\ f \in DOMAIN profile[p] => \E i \in DOMAIN updates[p] : f \in DOMAIN updates[p][i]
        /\ \A i \in DOMAIN updates[p] :
             /\ f \in DOMAIN updates[p][i]
             /\ \A j \in DOMAIN updates[p] : j > i => f \notin DOMAIN updates[p][j]
             => f \in DOMAIN profile[p] /\ profile[p][f] = updates[p][i][f]

\* Answers are true: one registration of a key succeeds, a conflict names a key
\* that is there, and "aborted" is never said of a payment that was committed.
RepliesHold ==
    /\ \A r, s \in Requests :
         r # s /\ Op[r].kind = "register" /\ Op[r] = Op[s] => {reply[r], reply[s]} # {"ok"}
    /\ \A r \in Requests :
         /\ Op[r].kind = "register" /\ reply[r] \in {"ok", "conflict"} => status[On(r)] # "none"
         /\ Op[r].kind = "abort" /\ reply[r] = "ok" => payment[On(r)] = "ABORTED"
         /\ Op[r].kind = "commit" /\ reply[r] = "ok" => payment[On(r)] = "COMMITTED"
===============================================================================
