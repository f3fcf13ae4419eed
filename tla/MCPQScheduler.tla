--------------------------- MODULE MCPQScheduler ---------------------------
(* A small instance of PQScheduler: a request of low priority and an urgent *)
(* one, for one model.                                                      *)
EXTENDS PQScheduler

CONSTANTS r1, r2, m1

MCRequests == {r1, r2}
MCModels == {m1}
MCPriority == [r \in Requests |-> IF r = r2 THEN 2 ELSE 1]
MCModelOf == [r \in Requests |-> m1]
=============================================================================
