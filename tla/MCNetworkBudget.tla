--------------------------- MODULE MCNetworkBudget ---------------------------
(* One agent with two external jobs and a home-room request.                 *)
EXTENDS NetworkBudget

CONSTANTS a1, x1, x2, h1

AllHis == [w \in Works |-> a1]
=============================================================================
