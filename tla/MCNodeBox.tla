----------------------------- MODULE MCNodeBox -----------------------------
(* One node of every helper: the helpers that behave alike coincide.       *)
EXTENDS NodeBox, TLC

MCScripts == AllScripts
Symmetry == Permutations(VMs) \cup Permutations(Sources)
=============================================================================
