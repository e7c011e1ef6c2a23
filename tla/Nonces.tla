--------------------------------- MODULE Nonces ---------------------------------
(***************************************************************************)
(* The nonces of signed room messages. A DID signs room|nonce|text, and    *)
(* Technocore wants the nonces of a DID in a room to increase              *)
(* (ExternalAgent.tsx): a message that comes with one no greater than the  *)
(* last is turned down, and what was refused is not sent again.            *)
(*                                                                         *)
(* An agent's DID signs on the server, where the task worker               *)
(* (technocore.mjs publish) and the network worker (makeEnvelope) draw     *)
(* from one row of runtime_state, and a saved envelope may be POSTed much  *)
(* later, even after a restart. An owner's DID signs in a browser tab      *)
(* (App.tsx nextNonce), whose counter is gone when the page is loaded      *)
(* anew. POSTs of one DID may overtake each other: a worker that timed out *)
(* goes on while its request is still on the way.                          *)
(***************************************************************************)
EXTENDS Integers, Sequences

CONSTANTS
  Dids,
  Hosted,       \* the agents' DIDs, which sign on the server
  MaxTime,      \* bound on the clocks
  MaxMessages,  \* bound on the messages of a DID
  MaxNonce,     \* bound on the nonces drawn
  MaxSetBacks   \* bound on the times the clocks are set back

ASSUME NoncesAssumption ==
  /\ Hosted \subseteq Dids
  /\ MaxTime \in Nat /\ MaxMessages \in Nat /\ MaxNonce \in Nat /\ MaxSetBacks \in Nat

VARIABLES
  clock,     \* Date.now(), of the server and of the browsers
  counter,   \* nonce:<did>:<room>, or lastNonce of the page
  drawn,     \* a nonce drawn and not yet signed with; 0 is none
  signed,    \* [Dids -> Seq(Nat)], the nonces signed, in order
  saved,     \* signed, not yet POSTed
  flight,    \* POSTs on their way
  last,      \* the room's last nonce of a DID
  accepted, refused,  \* what the room took and turned down
  setbacks

vars == <<clock, counter, drawn, signed, saved, flight, last, accepted, refused, setbacks>>

Sets == [Dids -> SUBSET (Nat \ {0})]

\* Every variable keeps its type, and a message is in one place only.
TypeOK ==
  /\ clock \in Nat \ {0}
  /\ counter \in [Dids -> Nat] /\ drawn \in [Dids -> Nat] /\ last \in [Dids -> Nat]
  /\ signed \in [Dids -> Seq(Nat)]
  /\ saved \in Sets /\ flight \in Sets /\ accepted \in Sets /\ refused \in Sets
  /\ \A d \in Dids :
       /\ saved[d] \cup flight[d] \cup accepted[d] \cup refused[d] \subseteq 1 .. Len(signed[d])
       /\ saved[d] \cap (flight[d] \cup accepted[d] \cup refused[d]) = {}
       /\ flight[d] \cap (accepted[d] \cup refused[d]) = {}
       /\ accepted[d] \cap refused[d] = {}
  /\ setbacks \in Nat

Init ==
  /\ clock = 1
  /\ counter = [d \in Dids |-> 0] /\ drawn = [d \in Dids |-> 0] /\ last = [d \in Dids |-> 0]
  /\ signed = [d \in Dids |-> <<>>]
  /\ saved = [d \in Dids |-> {}] /\ flight = [d \in Dids |-> {}]
  /\ accepted = [d \in Dids |-> {}] /\ refused = [d \in Dids |-> {}]
  /\ setbacks = 0

-----------------------------------------------------------------------------

\* Mutant of NextNonce: the clock alone.
NextNonceClock(prior) == clock

NextNonce(prior) == IF clock > prior THEN clock ELSE prior + 1

\* The counter is moved first; on the server it is durable before anything is signed.
Draw(d) ==
  /\ drawn[d] = 0 /\ Len(signed[d]) < MaxMessages /\ NextNonce(counter[d]) <= MaxNonce
  /\ counter' = [counter EXCEPT ![d] = NextNonce(counter[d])]
  /\ drawn' = [drawn EXCEPT ![d] = NextNonce(counter[d])]
  /\ UNCHANGED <<clock, signed, saved, flight, last, accepted, refused, setbacks>>

\* The browser signs in an await; on the server only a crash can come in between.
Sign(d) ==
  /\ drawn[d] # 0
  /\ signed' = [signed EXCEPT ![d] = Append(@, drawn[d])]
  /\ saved' = [saved EXCEPT ![d] = @ \cup {Len(signed[d]) + 1}]
  /\ drawn' = [drawn EXCEPT ![d] = 0]
  /\ UNCHANGED <<clock, counter, flight, last, accepted, refused, setbacks>>

\* By the task worker and the browser at once, by deliver() in its own time.
Post(d, i) ==
  /\ i \in saved[d]
  /\ saved' = [saved EXCEPT ![d] = @ \ {i}]
  /\ flight' = [flight EXCEPT ![d] = @ \cup {i}]
  /\ UNCHANGED <<clock, counter, drawn, signed, last, accepted, refused, setbacks>>

\* The room takes the POST or turns it down.
Arrive(d, i) ==
  /\ i \in flight[d]
  /\ flight' = [flight EXCEPT ![d] = @ \ {i}]
  /\ \/ /\ signed[d][i] > last[d]
        /\ last' = [last EXCEPT ![d] = signed[d][i]]
        /\ accepted' = [accepted EXCEPT ![d] = @ \cup {i}]
        /\ UNCHANGED refused
     \/ /\ signed[d][i] <= last[d]
        /\ refused' = [refused EXCEPT ![d] = @ \cup {i}]
        /\ UNCHANGED <<last, accepted>>
  /\ UNCHANGED <<clock, counter, drawn, signed, saved, setbacks>>

\* A POST is lost, or a signed message is never sent: the task worker keeps none.
Lose(d, i) ==
  /\ i \in saved[d] \cup flight[d]
  /\ saved' = [saved EXCEPT ![d] = @ \ {i}]
  /\ flight' = [flight EXCEPT ![d] = @ \ {i}]
  /\ UNCHANGED <<clock, counter, drawn, signed, last, accepted, refused, setbacks>>

\* Mutant of Crash: the counters of the server are kept in the process.
CrashForgets ==
  /\ drawn' = [d \in Dids |-> IF d \in Hosted THEN 0 ELSE drawn[d]]
  /\ counter' = [d \in Dids |-> IF d \in Hosted THEN 0 ELSE counter[d]]
  /\ UNCHANGED <<clock, signed, saved, flight, last, accepted, refused, setbacks>>

\* The server ends and starts again: the counters and the saved envelopes are there.
Crash ==
  /\ drawn' = [d \in Dids |-> IF d \in Hosted THEN 0 ELSE drawn[d]]
  /\ UNCHANGED <<clock, counter, signed, saved, flight, last, accepted, refused, setbacks>>

\* The owner loads the page anew, which takes longer than the clock's tick.
Reload(d) ==
  /\ d \in Dids \ Hosted /\ counter[d] < clock
  /\ counter' = [counter EXCEPT ![d] = 0] /\ drawn' = [drawn EXCEPT ![d] = 0]
  /\ saved' = [saved EXCEPT ![d] = {}]
  /\ UNCHANGED <<clock, signed, flight, last, accepted, refused, setbacks>>

Tick ==
  /\ clock < MaxTime /\ clock' = clock + 1
  /\ UNCHANGED <<counter, drawn, signed, saved, flight, last, accepted, refused, setbacks>>

SetBack ==
  /\ clock > 1 /\ setbacks < MaxSetBacks
  /\ clock' = clock - 1 /\ setbacks' = setbacks + 1
  /\ UNCHANGED <<counter, drawn, signed, saved, flight, last, accepted, refused>>

Next ==
  \/ \E d \in Dids : Draw(d) \/ Sign(d) \/ Reload(d)
  \/ \E d \in Dids : \E i \in 1 .. Len(signed[d]) : Post(d, i) \/ Arrive(d, i) \/ Lose(d, i)
  \/ Crash \/ Tick \/ SetBack

Spec == Init /\ [][Next]_vars

-----------------------------------------------------------------------------

\* What the code promises about an owner's DID, it promises while the browser's clock
\* is not set back; for an agent's DID, always.
Sound(d) == d \in Hosted \/ setbacks = 0

\* A DID signs with ever greater nonces, across crashes, page loads and bursts within
\* a tick of the clock: no signature can stand for another message.
NoncesIncrease ==
  \A d \in Dids : Sound(d) =>
    \A i, j \in 1 .. Len(signed[d]) : i < j => signed[d][i] < signed[d][j]

\* The room refuses a message only when one that was signed later overtook it: no
\* clock and no restart can get a DID shut out of its room.
RefusedWasOvertaken ==
  \A d \in Dids : Sound(d) =>
    \A i \in refused[d] : \E j \in accepted[d] : i < j
=============================================================================
