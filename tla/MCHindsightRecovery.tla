------------------------ MODULE MCHindsightRecovery -------------------------
(* Three approved documents, two of them in the stage and one waiting.  The  *)
(* phase command sets a stage back to ready, or disarms one that runs.       *)
EXTENDS HindsightRecovery

CONSTANTS d1, d2, d3

MCRank == [d \in Docs |-> CASE d = d1 -> 1 [] d = d2 -> 2 [] d = d3 -> 3]

MCHands == {[name |-> "ready", armed |-> FALSE], [name |-> "running", armed |-> FALSE]}
=============================================================================
