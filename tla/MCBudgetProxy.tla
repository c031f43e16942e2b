--------------------------- MODULE MCBudgetProxy ---------------------------
(***************************************************************************)
(* Instances of BudgetProxy for TLC.                                       *)
(***************************************************************************)
EXTENDS BudgetProxy

CONSTANTS r1, r2, r3

\* Two chat requests, the second twice as dear, and an embedding.
MCEndpoint == [r \in Requests |-> IF r = r3 THEN "embeddings" ELSE "chat"]
MCCost == [r \in Requests |-> IF r = r2 THEN 2 ELSE 1]

\* Both chat requests fit the backfill, either one a month.
MCScopeLimit == [s \in Scopes |-> CASE s = "hindsight_backfill" -> 3
                                    [] s = "hindsight_monthly" -> 2
                                    [] s = "qwen_monthly" -> 1]
=============================================================================
