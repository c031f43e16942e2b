---------------------------- MODULE ExclusiveApp ----------------------------
(***************************************************************************)
(* What the replacement of a sandboxd VM promises: the VMs of one app      *)
(* identity take turns.  A VM may come up only when no other copy is up,   *)
(* whatever happened before; a copy may go down at any time.  An operator  *)
(* may force a VM up out of turn, and then the promise is off until one    *)
(* copy was found to be up alone.                                          *)
(***************************************************************************)
CONSTANT VMs

VARIABLES
    up,      \* the VMs that may be presenting the app identity
    forced   \* a VM was forced up out of turn

vars == <<up, forced>>

Init == up = {} /\ forced = FALSE

(* A VM comes up, or is asked to while it is up already.                   *)
Boot(v) ==
    /\ forced \/ up \subseteq {v}
    /\ up' = up \cup {v} /\ UNCHANGED forced

(* A VM goes down: stopped, crashed or exited.                             *)
Halt(v) == v \in up /\ up' = up \ {v} /\ UNCHANGED forced

(* The operator forces a VM up; a later check finds v up alone.            *)
Force == forced' = TRUE /\ UNCHANGED up
Alone(v) == up = {v} /\ forced' = FALSE /\ UNCHANGED up

Next == Force \/ \E v \in VMs: Boot(v) \/ Halt(v) \/ Alone(v)

Spec == Init /\ [][Next]_vars
=============================================================================
