------------------------- MODULE MCClusterDiamond -------------------------
(***************************************************************************)
(* Instances of ClusterDiamond for TLC.                                    *)
(***************************************************************************)
EXTENDS ClusterDiamond, TLC

CONSTANTS e1, h1, safe1, safe2, c1, c2, k1, w1, w2, root

MCSymmetry == Permutations(Contracts) \cup Permutations(WgKeys)
=============================================================================
