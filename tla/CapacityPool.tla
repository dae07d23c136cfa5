----------------------------- MODULE CapacityPool -----------------------------
(***************************************************************************)
(* What `max_parallel` promises, with none of the machinery that keeps the *)
(* promise: a pool of slots with one limit over all runs and one limit per *)
(* role.  A run takes a slot only while both limits leave room, a run of   *)
(* the orchestrator role is held to the global limit only, and a slot that *)
(* was given back may be taken by another run.                             *)
(*                                                                         *)
(* Module Delegation implements this specification: Pool!Spec there.       *)
(***************************************************************************)
EXTENDS Naturals, FiniteSets

CONSTANTS
  Runs,          \* run directories
  Roles,         \* configured role names
  Orchestrator,  \* the role that has no limit of its own
  NoRole,        \* "no slot"
  MaxParallel,   \* config["max_parallel"]
  RoleLimit      \* config["roles"][role]["max_parallel"]

VARIABLE slot    \* the role a run holds a slot for, or NoRole

Holders == {r \in Runs : slot[r] # NoRole}
HoldersOf(ro) == {r \in Runs : slot[r] = ro}

Init == slot = [r \in Runs |-> NoRole]

Take(r, ro) ==
  /\ slot[r] = NoRole
  /\ Cardinality(Holders) < MaxParallel
  /\ ro # Orchestrator => Cardinality(HoldersOf(ro)) < RoleLimit[ro]
  /\ slot' = [slot EXCEPT ![r] = ro]

Give(r) ==
  /\ slot[r] # NoRole
  /\ slot' = [slot EXCEPT ![r] = NoRole]

Next == \E r \in Runs : Give(r) \/ \E ro \in Roles : Take(r, ro)

Spec == Init /\ [][Next]_slot
===============================================================================
