---------------------------- MODULE MCControlPlane ----------------------------
(* Small instances of ControlPlane. Two owners are alike, and so are the ids  *)
(* and the requests. With limits of two, one owner can fill his own share and *)
(* two owners the host. At most one agent has been removed.                   *)
EXTENDS ControlPlane, TLC

CONSTANTS o1, o2, i1, i2, i3, c1, q1, q2

GoneIds == { a \in AgentIds : agents[a].state = "removed" }

MCSpec == Init /\ [][Next /\ Cardinality(GoneIds') <= 1]_vars

Alike == Permutations({o1, o2}) \cup Permutations({i1, i2, i3}) \cup Permutations({q1, q2})
=============================================================================
