----------------------------- MODULE NoncesProofs -----------------------------
(***************************************************************************)
(* Theorems of Nonces: the nonces of a DID increase and the room refuses   *)
(* only what a later message overtook, for any number of DIDs, messages,   *)
(* restarts and page loads, and for any order in which POSTs arrive.       *)
(***************************************************************************)
EXTENDS Nonces, TLAPS

-----------------------------------------------------------------------------
\* The inductive invariant.

\* Every nonce is a positive number, which sets it apart from "none" and "nothing yet".
Positive == \A d \in Dids : \A i \in 1 .. Len(signed[d]) : signed[d][i] \in Nat \ {0}

\* The next draw exceeds what was signed: the counter remembers it or, after a page
\* was loaded anew, the clock has gone past it. A nonce in hand is ahead of them all.
Ahead ==
  \A d \in Dids : Sound(d) =>
    \A i \in 1 .. Len(signed[d]) :
      /\ signed[d][i] <= counter[d] \/ (d \notin Hosted /\ signed[d][i] < clock)
      /\ drawn[d] # 0 => signed[d][i] < drawn[d]

\* A nonce in hand is the last one drawn.
InHand == \A d \in Dids : drawn[d] # 0 => drawn[d] = counter[d]

\* The room's last nonce is that of a message it took.
LastTaken ==
  \A d \in Dids : last[d] # 0 => \E j \in accepted[d] : signed[d][j] = last[d]

NoncesInv == TypeOK /\ Positive /\ InHand /\ Ahead /\ NoncesIncrease

IInv == NoncesInv /\ LastTaken /\ RefusedWasOvertaken

-----------------------------------------------------------------------------
\* Type correctness.

LEMMA InitTypeOK == Init => TypeOK
  BY DEF Init, TypeOK, Sets

LEMMA NextNonceGrows ==
  ASSUME NEW prior \in Nat, clock \in Nat \ {0}
  PROVE  NextNonce(prior) \in Nat \ {0} /\ NextNonce(prior) > prior /\ NextNonce(prior) >= clock
  BY DEF NextNonce

LEMMA TypeStep ==
  ASSUME TypeOK, [Next]_vars
  PROVE  TypeOK'
<1> USE DEF TypeOK, Sets
<1>1. ASSUME NEW d \in Dids, Draw(d) PROVE TypeOK'
  BY <1>1, NextNonceGrows DEF Draw
<1>2. ASSUME NEW d \in Dids, Sign(d) PROVE TypeOK'
  <2> DEFINE n == Len(signed[d]) + 1
  <2>1. signed' \in [Dids -> Seq(Nat)] /\ n \in Nat \ {0}
    BY <1>2 DEF Sign
  <2>2. \A e \in Dids : Len(signed'[e]) = IF e = d THEN n ELSE Len(signed[e])
    BY <1>2 DEF Sign
  <2>3. saved' \in [Dids -> SUBSET (Nat \ {0})]
    BY <1>2, <2>1 DEF Sign
  <2>4. ASSUME NEW e \in Dids
        PROVE  /\ saved'[e] \cup flight'[e] \cup accepted'[e] \cup refused'[e] \subseteq 1 .. Len(signed'[e])
               /\ saved'[e] \cap (flight'[e] \cup accepted'[e] \cup refused'[e]) = {}
    <3>1. CASE e = d
      <4>1. n \notin flight[d] \cup accepted[d] \cup refused[d] /\ 1 .. Len(signed[d]) \subseteq 1 .. n
        BY <2>1
      <4>2. saved'[d] = saved[d] \cup {n} /\ Len(signed'[d]) = n
        BY <1>2, <2>2 DEF Sign
      <4>3. UNCHANGED <<flight, accepted, refused>>
        BY <1>2 DEF Sign
      <4> QED BY <3>1, <4>1, <4>2, <4>3, <2>1
    <3>2. CASE e # d
      BY <3>2, <1>2 DEF Sign
    <3> QED BY <3>1, <3>2
  <2> QED BY <1>2, <2>1, <2>3, <2>4 DEF Sign
<1>3. ASSUME NEW d \in Dids, Reload(d) PROVE TypeOK'
  BY <1>3 DEF Reload
<1>4. ASSUME NEW d \in Dids, NEW i \in 1 .. Len(signed[d]), Post(d, i) PROVE TypeOK'
  BY <1>4 DEF Post
<1>5. ASSUME NEW d \in Dids, NEW i \in 1 .. Len(signed[d]), Arrive(d, i) PROVE TypeOK'
  <2>1. signed[d][i] \in Nat /\ last[d] \in Nat /\ i \in Nat \ {0}
    OBVIOUS
  <2>2. i \notin saved[d] \cup accepted[d] \cup refused[d]
    BY <1>5 DEF Arrive
  <2>3. CASE signed[d][i] > last[d]
    <3>1. /\ flight' = [flight EXCEPT ![d] = @ \ {i}] /\ accepted' = [accepted EXCEPT ![d] = @ \cup {i}]
          /\ last' = [last EXCEPT ![d] = signed[d][i]] /\ refused' = refused
      BY <1>5, <2>1, <2>3 DEF Arrive
    <3>2. last' \in [Dids -> Nat] /\ flight' \in Sets /\ accepted' \in Sets
      BY <3>1, <2>1
    <3> QED BY <1>5, <2>2, <3>1, <3>2 DEF Arrive
  <2>4. CASE signed[d][i] <= last[d]
    <3>1. /\ flight' = [flight EXCEPT ![d] = @ \ {i}] /\ refused' = [refused EXCEPT ![d] = @ \cup {i}]
          /\ last' = last /\ accepted' = accepted
      BY <1>5, <2>1, <2>4 DEF Arrive
    <3>2. flight' \in Sets /\ refused' \in Sets
      BY <3>1, <2>1
    <3> QED BY <1>5, <2>2, <3>1, <3>2 DEF Arrive
  <2>5. signed[d][i] > last[d] \/ signed[d][i] <= last[d]
    BY <2>1
  <2> QED BY <2>5, <2>3, <2>4, Zenon
<1>6. ASSUME NEW d \in Dids, NEW i \in 1 .. Len(signed[d]), Lose(d, i) PROVE TypeOK'
  BY <1>6 DEF Lose
<1>7. CASE Crash
  BY <1>7 DEF Crash
<1>8. CASE Tick
  BY <1>8 DEF Tick
<1>9. CASE SetBack
  BY <1>9 DEF SetBack
<1>10. CASE UNCHANGED vars
  BY <1>10 DEF vars
<1> QED
  BY <1>1, <1>2, <1>3, <1>4, <1>5, <1>6, <1>7, <1>8, <1>9, <1>10 DEF Next

\* Every variable keeps its type and a message is in one place only: what was refused
\* or taken is never under way again.
THEOREM TypeCorrect == Spec => []TypeOK
<1>1. Init => TypeOK
  BY InitTypeOK
<1>2. TypeOK /\ [Next]_vars => TypeOK'
  BY TypeStep
<1> QED BY <1>1, <1>2, PTL DEF Spec

-----------------------------------------------------------------------------
\* What is signed only grows, and a sound DID was sound before.

LEMMA SoundBefore ==
  ASSUME [Next]_vars, TypeOK, NEW d \in Dids, Sound(d)'
  PROVE  Sound(d)
<1>1. setbacks' = 0 => setbacks = 0
  BY DEF Next, vars, Draw, Sign, Reload, Post, Arrive, Lose, Crash, Tick, SetBack, TypeOK
<1> QED BY <1>1 DEF Sound

\* A step that signs nothing, draws nothing and moves no counter back.
LEMMA QuietStep ==
  ASSUME TypeOK, [Next]_vars, Positive, InHand, Ahead, NoncesIncrease,
         signed' = signed, counter' = counter, clock' >= clock \/ setbacks' # 0,
         \A d \in Dids : drawn'[d] \in {0, drawn[d]}
  PROVE  (Positive /\ InHand /\ Ahead /\ NoncesIncrease)'
<1> USE DEF TypeOK
<1>1. Positive' /\ InHand'
  BY DEF Positive, InHand
<1>2. NoncesIncrease'
  BY SoundBefore DEF NoncesIncrease
<1>3. Ahead'
  <2> SUFFICES ASSUME NEW d \in Dids, Sound(d)', NEW i \in 1 .. Len(signed[d])
               PROVE  /\ signed[d][i] <= counter[d] \/ (d \notin Hosted /\ signed[d][i] < clock')
                      /\ drawn'[d] # 0 => signed[d][i] < drawn'[d]
    BY DEF Ahead
  <2>1. Sound(d) /\ (d \in Hosted \/ clock' >= clock)
    BY SoundBefore DEF Sound
  <2>2. /\ signed[d][i] <= counter[d] \/ (d \notin Hosted /\ signed[d][i] < clock)
        /\ drawn[d] # 0 => signed[d][i] < drawn[d]
    BY <2>1 DEF Ahead
  <2>3. clock \in Nat /\ clock' \in Nat /\ signed[d][i] \in Nat
    BY TypeStep
  <2> QED BY <2>1, <2>2, <2>3
<1> QED BY <1>1, <1>2, <1>3

LEMMA NoncesStep ==
  ASSUME NoncesInv, [Next]_vars
  PROVE  NoncesInv'
<1> USE DEF NoncesInv
<1>0. TypeOK'
  BY TypeStep
<1>1. ASSUME NEW d \in Dids, Draw(d) PROVE (Positive /\ InHand /\ Ahead /\ NoncesIncrease)'
  <2> DEFINE n == NextNonce(counter[d])
  <2>1. /\ n \in Nat \ {0} /\ n > counter[d] /\ n >= clock
    BY NextNonceGrows DEF TypeOK
  <2>2. /\ counter' = [counter EXCEPT ![d] = n] /\ drawn' = [drawn EXCEPT ![d] = n]
        /\ UNCHANGED <<clock, signed, setbacks>> /\ drawn[d] = 0
    BY <1>1 DEF Draw
  <2> HIDE DEF n
  <2>3. Positive' /\ NoncesIncrease'
    BY <2>2 DEF Positive, NoncesIncrease, Sound
  <2>4. InHand'
    BY <2>2 DEF InHand, TypeOK
  <2>5. Ahead'
    <3> SUFFICES ASSUME NEW e \in Dids, Sound(e), NEW i \in 1 .. Len(signed[e])
                 PROVE  /\ signed[e][i] <= counter'[e] \/ (e \notin Hosted /\ signed[e][i] < clock)
                        /\ drawn'[e] # 0 => signed[e][i] < drawn'[e]
      BY <2>2 DEF Ahead, Sound
    <3>1. /\ signed[e][i] <= counter[e] \/ (e \notin Hosted /\ signed[e][i] < clock)
          /\ drawn[e] # 0 => signed[e][i] < drawn[e]
          /\ signed[e][i] \in Nat /\ clock \in Nat /\ counter[e] \in Nat
      BY DEF Ahead, TypeOK
    <3>2. CASE e = d
      <4>1. counter'[e] = n /\ drawn'[e] = n
        BY <3>2, <2>2 DEF TypeOK
      <4> QED BY <4>1, <3>1, <3>2, <2>1
    <3>3. CASE e # d
      BY <3>3, <3>1, <2>2 DEF TypeOK
    <3> QED BY <3>2, <3>3
  <2> QED BY <2>3, <2>4, <2>5
<1>2. ASSUME NEW d \in Dids, Sign(d) PROVE (Positive /\ InHand /\ Ahead /\ NoncesIncrease)'
  <2>1. /\ drawn[d] # 0 /\ signed' = [signed EXCEPT ![d] = Append(@, drawn[d])]
        /\ drawn' = [drawn EXCEPT ![d] = 0] /\ UNCHANGED <<clock, counter, setbacks>>
    BY <1>2 DEF Sign
  <2>2. drawn[d] = counter[d] /\ drawn[d] \in Nat \ {0}
    BY <2>1 DEF InHand, TypeOK
  <2>3. \A e \in Dids : e # d => signed'[e] = signed[e]
    BY <2>1 DEF TypeOK
  <2>4. /\ Len(signed'[d]) = Len(signed[d]) + 1
        /\ \A i \in 1 .. Len(signed[d]) : signed'[d][i] = signed[d][i]
        /\ signed'[d][Len(signed[d]) + 1] = drawn[d]
        /\ Len(signed[d]) \in Nat
    BY <2>1, <2>2 DEF TypeOK
  <2>5. Positive'
    <3>1. ASSUME NEW e \in Dids, NEW i \in 1 .. Len(signed'[e]) PROVE signed'[e][i] \in Nat \ {0}
      <4>1. CASE e = d
        <5>1. i \in 1 .. Len(signed[d]) \/ i = Len(signed[d]) + 1
          BY <4>1, <2>4
        <5> QED BY <4>1, <5>1, <2>2, <2>4 DEF Positive
      <4>2. CASE e # d
        BY <4>2, <2>3 DEF Positive
      <4> QED BY <4>1, <4>2
    <3> QED BY <3>1 DEF Positive
  <2>6. InHand'
    BY <2>1 DEF InHand, TypeOK
  <2>7. \A i \in 1 .. Len(signed[d]) : signed[d][i] \in Nat
    BY DEF TypeOK
  <2>8. Ahead'
    <3>1. ASSUME NEW e \in Dids, Sound(e), NEW i \in 1 .. Len(signed'[e])
          PROVE  /\ signed'[e][i] <= counter[e] \/ (e \notin Hosted /\ signed'[e][i] < clock)
                 /\ drawn'[e] # 0 => signed'[e][i] < drawn'[e]
      <4>1. CASE e = d
        <5>1. drawn'[d] = 0
          BY <2>1 DEF TypeOK
        <5>2. CASE i = Len(signed[d]) + 1
          BY <4>1, <5>1, <5>2, <2>2, <2>4
        <5>3. CASE i \in 1 .. Len(signed[d])
          BY <4>1, <5>1, <5>3, <2>4, <3>1 DEF Ahead
        <5> QED BY <4>1, <5>2, <5>3, <2>4
      <4>2. CASE e # d
        BY <4>2, <2>1, <2>3, <3>1 DEF Ahead, TypeOK
      <4> QED BY <4>1, <4>2
    <3> QED BY <3>1, <2>1 DEF Ahead, Sound
  <2>9. NoncesIncrease'
    <3>1. ASSUME NEW e \in Dids, Sound(e),
                 NEW i \in 1 .. Len(signed'[e]), NEW j \in 1 .. Len(signed'[e]), i < j
          PROVE  signed'[e][i] < signed'[e][j]
      <4>1. CASE e = d /\ j = Len(signed[d]) + 1
        <5>1. i \in 1 .. Len(signed[d])
          BY <4>1, <3>1, <2>4
        <5>2. signed[d][i] < drawn[d]
          BY <4>1, <5>1, <3>1, <2>1 DEF Ahead
        <5> QED BY <4>1, <5>1, <5>2, <2>4
      <4>2. CASE e = d /\ j # Len(signed[d]) + 1
        <5>1. i \in 1 .. Len(signed[d]) /\ j \in 1 .. Len(signed[d])
          BY <4>2, <3>1, <2>4
        <5> QED BY <4>2, <5>1, <3>1, <2>4 DEF NoncesIncrease
      <4>3. CASE e # d
        BY <4>3, <2>3, <3>1 DEF NoncesIncrease
      <4> QED BY <4>1, <4>2, <4>3
    <3> QED BY <3>1, <2>1 DEF NoncesIncrease, Sound
  <2> QED BY <2>5, <2>6, <2>8, <2>9
<1>3. ASSUME NEW d \in Dids, Reload(d) PROVE (Positive /\ InHand /\ Ahead /\ NoncesIncrease)'
  <2>1. /\ d \notin Hosted /\ counter[d] < clock
        /\ counter' = [counter EXCEPT ![d] = 0] /\ drawn' = [drawn EXCEPT ![d] = 0]
        /\ UNCHANGED <<clock, signed, setbacks>>
    BY <1>3 DEF Reload
  <2>2. Positive' /\ NoncesIncrease' /\ InHand'
    BY <2>1 DEF Positive, NoncesIncrease, InHand, Sound, TypeOK
  <2>3. ASSUME NEW e \in Dids, Sound(e), NEW i \in 1 .. Len(signed[e])
        PROVE  /\ signed[e][i] <= counter'[e] \/ (e \notin Hosted /\ signed[e][i] < clock)
               /\ drawn'[e] # 0 => signed[e][i] < drawn'[e]
    <3>1. /\ signed[e][i] <= counter[e] \/ (e \notin Hosted /\ signed[e][i] < clock)
          /\ drawn[e] # 0 => signed[e][i] < drawn[e]
          /\ signed[e][i] \in Nat /\ clock \in Nat /\ counter[e] \in Nat
      BY <2>3 DEF Ahead, TypeOK
    <3>2. CASE e = d
      <4>1. signed[d][i] < clock
        BY <3>1, <3>2, <2>1
      <4> QED BY <4>1, <3>2, <2>1 DEF TypeOK
    <3>3. CASE e # d
      BY <3>1, <3>3, <2>1 DEF TypeOK
    <3> QED BY <3>2, <3>3
  <2> QED BY <2>1, <2>2, <2>3 DEF Ahead, Sound
<1>4. ASSUME NEW d \in Dids, NEW i \in 1 .. Len(signed[d]), Post(d, i) \/ Arrive(d, i) \/ Lose(d, i)
      PROVE  (Positive /\ InHand /\ Ahead /\ NoncesIncrease)'
  <2>1. UNCHANGED <<signed, counter, clock, drawn>>
    BY <1>4 DEF Post, Arrive, Lose
  <2> QED BY <2>1, QuietStep DEF TypeOK
<1>5. CASE Crash
  BY <1>5, QuietStep DEF Crash, TypeOK
<1>6. CASE Tick
  BY <1>6, QuietStep DEF Tick, TypeOK
<1>7. CASE SetBack
  BY <1>7, QuietStep DEF SetBack, TypeOK
<1>8. CASE UNCHANGED vars
  BY <1>8, QuietStep DEF vars, TypeOK
<1> QED
  BY <1>0, <1>1, <1>2, <1>3, <1>4, <1>5, <1>6, <1>7, <1>8 DEF Next

LEMMA InitNonces == Init => NoncesInv
  BY InitTypeOK DEF Init, NoncesInv, Positive, InHand, Ahead, NoncesIncrease

\* A DID signs with ever greater nonces, whatever crashes, reloads and clocks do (an
\* owner's as long as the clock is not set back).
THEOREM Increasing == Spec => []NoncesIncrease
<1>1. Init => NoncesInv
  BY InitNonces
<1>2. NoncesInv /\ [Next]_vars => NoncesInv'
  BY NoncesStep
<1>3. NoncesInv => NoncesIncrease
  BY DEF NoncesInv
<1> QED BY <1>1, <1>2, <1>3, PTL DEF Spec

-----------------------------------------------------------------------------
\* What the room took and turned down.

LEMMA SignedStays ==
  ASSUME TypeOK, [Next]_vars, NEW d \in Dids, NEW i \in 1 .. Len(signed[d])
  PROVE  signed'[d][i] = signed[d][i]
<1>1. ASSUME NEW e \in Dids, Sign(e) PROVE signed'[d][i] = signed[d][i]
  <2>1. signed' = [signed EXCEPT ![e] = Append(@, drawn[e])] /\ drawn[e] \in Nat
    BY <1>1 DEF Sign, TypeOK
  <2> QED BY <2>1 DEF TypeOK
<1>2. CASE UNCHANGED signed
  BY <1>2
<1> QED
  BY <1>1, <1>2 DEF Next, vars, Draw, Reload, Post, Arrive, Lose, Crash, Tick, SetBack

\* The room's memory follows what it takes, and what it turns down is older than that.
LEMMA RoomStep ==
  ASSUME IInv, [Next]_vars
  PROVE  (LastTaken /\ RefusedWasOvertaken)'
<1> USE DEF IInv, NoncesInv
<1>1. CASE UNCHANGED <<last, accepted, refused>>
  <2>1. LastTaken'
    <3> SUFFICES ASSUME NEW d \in Dids, last[d] # 0
                 PROVE  \E j \in accepted[d] : signed'[d][j] = last[d]
      BY <1>1 DEF LastTaken
    <3>1. PICK j \in accepted[d] : signed[d][j] = last[d]
      BY DEF LastTaken
    <3>2. j \in 1 .. Len(signed[d])
      BY DEF TypeOK
    <3> QED BY <3>1, <3>2, SignedStays
  <2>2. RefusedWasOvertaken'
    BY <1>1, SoundBefore DEF RefusedWasOvertaken
  <2> QED BY <2>1, <2>2
<1>2. ASSUME NEW d \in Dids, NEW i \in 1 .. Len(signed[d]), Arrive(d, i)
      PROVE  (LastTaken /\ RefusedWasOvertaken)'
  <2>0. /\ UNCHANGED <<signed, setbacks>> /\ i \in flight[d]
        /\ signed[d][i] \in Nat \ {0} /\ last[d] \in Nat
    BY <1>2 DEF Arrive, Positive, TypeOK
  <2>1. CASE signed[d][i] > last[d]
    <3>1. /\ last' = [last EXCEPT ![d] = signed[d][i]]
          /\ accepted' = [accepted EXCEPT ![d] = @ \cup {i}] /\ refused' = refused
      BY <1>2, <2>0, <2>1 DEF Arrive
    <3>2. LastTaken'
      BY <2>0, <3>1 DEF LastTaken, TypeOK, Sets
    <3>3. \A e \in Dids : accepted[e] \subseteq accepted'[e]
      BY <3>1 DEF TypeOK, Sets
    <3>4. RefusedWasOvertaken'
      <4> SUFFICES ASSUME NEW e \in Dids, Sound(e), NEW k \in refused[e]
                   PROVE  \E j \in accepted'[e] : k < j
        BY <2>0, <3>1 DEF RefusedWasOvertaken, Sound
      <4> QED BY <3>3 DEF RefusedWasOvertaken
    <3> QED BY <3>2, <3>4
  <2>2. CASE signed[d][i] <= last[d]
    <3>1. /\ last' = last /\ accepted' = accepted
          /\ refused' = [refused EXCEPT ![d] = @ \cup {i}]
      BY <1>2, <2>0, <2>2 DEF Arrive
    <3>2. LastTaken'
      BY <2>0, <3>1 DEF LastTaken
    <3>3. PICK j \in accepted[d] : signed[d][j] = last[d]
      BY <2>0, <2>2 DEF LastTaken
    <3>4. j \in 1 .. Len(signed[d]) /\ j # i
      BY <2>0 DEF TypeOK
    <3>5. Sound(d) => i < j
      BY <2>0, <2>2, <3>3, <3>4 DEF NoncesIncrease
    <3>6. RefusedWasOvertaken'
      <4> SUFFICES ASSUME NEW e \in Dids, Sound(e), NEW k \in refused'[e]
                   PROVE  \E n \in accepted[e] : k < n
        BY <2>0, <3>1 DEF RefusedWasOvertaken, Sound
      <4>1. CASE k \in refused[e]
        BY <4>1 DEF RefusedWasOvertaken
      <4>2. CASE k \notin refused[e]
        <5>1. e = d /\ k = i
          BY <4>2, <3>1 DEF TypeOK, Sets
        <5> QED BY <5>1, <3>5
      <4> QED BY <4>1, <4>2
    <3> QED BY <3>2, <3>6
  <2> QED BY <2>0, <2>1, <2>2
<1> QED
  BY <1>1, <1>2 DEF Next, vars, Draw, Sign, Reload, Post, Lose, Crash, Tick, SetBack

\* The room turns down only what a message signed later has overtaken: no restart, no
\* burst and no clock shuts a DID out of its room.
THEOREM Overtaken == Spec => []RefusedWasOvertaken
<1>1. Init => IInv
  BY InitNonces DEF Init, IInv, LastTaken, RefusedWasOvertaken
<1>2. IInv /\ [Next]_vars => IInv'
  BY NoncesStep, RoomStep DEF IInv
<1>3. IInv => RefusedWasOvertaken
  BY DEF IInv
<1> QED BY <1>1, <1>2, <1>3, PTL DEF Spec
=============================================================================
