-------------------------- MODULE MCCskLifecycle --------------------------
(***************************************************************************)
(* Instances of CskLifecycle for TLC.                                      *)
(***************************************************************************)
EXTENDS CskLifecycle, TLC

CONSTANTS n1, n2, n3

\* The nodes that differ in nothing: neither faulty nor retired.
MCSymmetry == Permutations(Nodes \ (Faulty \cup Retired))
=============================================================================
