----------------------------- MODULE MCServices -----------------------------
(***************************************************************************)
(* A small instance of the services around the hub.                        *)
(***************************************************************************)
EXTENDS Services, TLC

CONSTANTS p1, p2, p3

\* Six requests about one equivalent ...
SomeAboutEquivalents ==
    <<[kind |-> "delete", on |-> "usd"], [kind |-> "line", on |-> "usd"],
      [kind |-> "update", on |-> "usd", to |-> "inactive"],
      [kind |-> "create", on |-> "usd"], [kind |-> "checkpoint", on |-> "all"],
      [kind |-> "delete", on |-> "usd"]>>

\* ... six about a participant, one of them a scenario's ...
SomeAboutPeople ==
    <<[kind |-> "register", on |-> "alice"], [kind |-> "register", on |-> "alice"],
      [kind |-> "profile", on |-> "alice", patch |-> [name |-> 1]],
      [kind |-> "profile", on |-> "alice", patch |-> [name |-> 2, bio |-> 2]],
      [kind |-> "status", on |-> "alice", to |-> "suspended"],
      [kind |-> "freeze", on |-> "alice"]>>

\* ... and six about a payment that an administrator aborts while it is committed
\* or the engine gives it up, and a participant who is banned and unbanned.
SomeAboutPayments ==
    <<[kind |-> "abort", on |-> "pay"], [kind |-> "lapse", on |-> "pay"],
      [kind |-> "commit", on |-> "pay"], [kind |-> "freeze", on |-> "alice"],
      [kind |-> "status", on |-> "alice", to |-> "deleted"],
      [kind |-> "status", on |-> "alice", to |-> "active"]>>

AllFlagsOff == [k \in SettingKeys |-> FALSE]

ProcSymmetry == Permutations({p1, p2})
=============================================================================
