------------------------ MODULE MCIndexerDelivery ------------------------
(***************************************************************************)
(* Instances of IndexerDelivery for TLC.                                   *)
(***************************************************************************)
EXTENDS IndexerDelivery, TLC

CONSTANTS m1, m2, s1, s2

MCRegBlock == [m \in Members |-> 0]

\* Every sidecar but m1's keeps reading its stream.
SlowPeerSpec == Spec /\ ServerFairness /\ \A m \in Members \ {m1} : ClientFairness(m)

SessionSymmetry == Permutations(Sessions)
=============================================================================
