---------------------------- MODULE MCFuguRouter ----------------------------
(* Instances of FuguRouter: two accounts, and requests of one session, one  *)
(* of them streamed.                                                        *)
EXTENDS FuguRouter

CONSTANTS q1, q2, s1, a1, a2

MCSessionOf == [r \in Requests |-> s1]
MCStreamed == {q2}
MCPriority == [a \in Accounts |-> IF a = a1 THEN 1 ELSE 2]
=============================================================================
