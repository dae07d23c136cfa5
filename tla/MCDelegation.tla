----------------------------- MODULE MCDelegation -----------------------------
(***************************************************************************)
(* Instances of Delegation for TLC.                                        *)
(***************************************************************************)
EXTENDS Delegation, TLC

CONSTANTS orchestrator, implementer

MCRoles == {orchestrator, implementer}

(* One implementer at a time, two runs in all: with three runs each of the *)
(* two limits is reached while the other still has room.                   *)
MCRoleLimit == [ro \in Roles |-> 1]

(* Runs started the same way and awaited alike are interchangeable.        *)
Symmetric ==
  UNION {Permutations(S) : S \in {Detached \ Waited, Detached \cap Waited,
                                  Runs \ (Detached \cup Waited), Waited \ Detached}}
===============================================================================
