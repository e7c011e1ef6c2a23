-------------------------- MODULE MCNetworkDelivery --------------------------
(* An instance of NetworkDelivery: one agent with an outside and a home-room  *)
(* request, under every policy: a change of the owner's or a crash, not both  *)
(* in one behaviour.                                                          *)
EXTENDS NetworkDelivery

CONSTANTS a1, w1, w2

MCAgents == {a1}
MCWorks == {w1, w2}

SameAgent == [w \in Works |-> a1]
AwayAndHome == [w \in Works |-> IF w = w1 THEN "away" ELSE "home"]

MCSpec == Init /\ [][Next /\ crashes' + revision'[a1] <= 1]_vars /\ Fairness
=============================================================================
