---------------------------- MODULE MCNetworkScan ----------------------------
(* Two agents; two messages of one stranger, outside and in the home room. A *)
(* behaviour has at most MaxEvents works and maintenance checks together and *)
(* at most MaxFaults changes, crashes and settings of the clock.             *)
EXTENDS NetworkScan, TLC, FiniteSets

CONSTANTS a1, a2, m1, m2, stranger, MaxEvents, MaxFaults

OneOut == [m \in Msgs |-> IF m = m1 THEN "out" ELSE "home"]
OneSender == [m \in Msgs |-> stranger]
ScanSymmetry == Permutations(Agents)

Few ==
  /\ Len(checks) + Cardinality({ k \in DOMAIN row : row[k] # NoRow }) <= MaxEvents
  /\ changes + crashes + setbacks <= MaxFaults

MCSpec == Init /\ [][Next /\ Few']_vars
=============================================================================
