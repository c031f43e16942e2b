------------------------ MODULE MCClusterDiscovery ------------------------
(***************************************************************************)
(* Instances of ClusterDiscovery for TLC.                                  *)
(***************************************************************************)
EXTENDS ClusterDiscovery
=============================================================================
