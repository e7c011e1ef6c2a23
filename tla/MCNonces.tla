-------------------------------- MODULE MCNonces --------------------------------
(* An agent's DID on the server and an owner's in a browser. DIDs share nothing *)
(* but the clock, so that in one behaviour one of them signs.                    *)
EXTENDS Nonces

CONSTANTS a1, o1

Signs(d) == counter[d] # 0 \/ signed[d] # <<>>

MCSpec == Init /\ [][Next /\ (\A d, e \in Dids : d = e \/ ~(Signs(d)' /\ Signs(e)'))]_vars
=============================================================================
