-------------------------- MODULE ControlPlaneProofs --------------------------
(***************************************************************************)
(* Theorems of ControlPlane: what its API keeps, for any number of owners, *)
(* agents, overlapping requests and restarts.                              *)
(***************************************************************************)
EXTENDS ControlPlane, FiniteSetTheorems, TLAPS

\* A challenge has its id for itself.
ChallengeIds == \A c, d \in challenges : c.id = d.id => c = d

\* A request that waits for its body was made by an owner who is still admitted, and
\* an agent that is to be changed exists.
RequestInv ==
  \A q \in Slots :
    /\ requests[q].kind = "create" => requests[q].owner \in admitted
    /\ requests[q].kind = "patch" =>
         /\ agents[requests[q].agent].state # "none"
         /\ agents[requests[q].agent].owner \in admitted

-----------------------------------------------------------------------------

\* Only three operations write the agents table.
LEMMA AgentWrites ==
  ASSUME Next
  PROVE  \/ UNCHANGED agents
         \/ \E q \in Slots, a \in AgentIds, c \in Configs, trusting \in BOOLEAN :
              EndCreate(q, a, c, trusting)
         \/ \E q \in Slots, c \in Configs \cup {Keep}, trusting, on \in BOOLEAN \cup {Keep} :
              EndPatch(q, c, trusting, on)
         \/ \E a \in AgentIds : Remove(a)
BY DEF Next, CreateChallenge, Verify, Logout, Purge, BeginCreate, BeginPatch, Refuse,
       Tick, Restart

\* What a waiting request read before is typed.
LEMMA RequestFields ==
  ASSUME TypeOK, NEW q \in Slots
  PROVE  /\ requests[q].kind = "create" => requests[q].owner \in Owners
         /\ requests[q].kind = "patch" =>
              requests[q].agent \in AgentIds /\ requests[q].seen \in Agent
<1>1. requests[q] \in Request
  BY DEF TypeOK
<1> QED BY <1>1 DEF Request

\* What a change writes is typed, and switches nothing on that trusts nobody.
LEMMA PatchWrites ==
  ASSUME TypeOK, NEW q \in Slots, NEW c \in Configs \cup {Keep},
         NEW trusting \in BOOLEAN \cup {Keep}, NEW on \in BOOLEAN \cup {Keep},
         EndPatch(q, c, trusting, on)
  PROVE  \E a \in AgentIds : \E new \in Agent :
           /\ a = requests[q].agent
           /\ agents[a].state = "live" /\ new.state = "live"
           /\ new.owner = agents[a].owner
           /\ ~agents[a].enabled /\ new.enabled => new.trusting
           /\ agents' = [agents EXCEPT ![a] = new]
<1> DEFINE a == requests[q].agent
           seen == requests[q].seen
           new == [agents[a] EXCEPT !.config = Given(c, @),
                                    !.trusting = Given(trusting, seen.trusting),
                                    !.enabled = Given(on, @)]
<1>1. a \in AgentIds /\ seen \in Agent
  BY RequestFields DEF EndPatch
<1>2. agents \in [AgentIds -> Agent] /\ agents[a] \in Agent
  BY <1>1 DEF TypeOK
<1>3. agents' = [agents EXCEPT ![a] = new]
  BY <1>1, <1>2 DEF EndPatch
<1>4. agents[a].state = "live"
  BY DEF EndPatch
<1>5. /\ Given(c, agents[a].config) \in Configs \cup {Gone}
      /\ Given(trusting, seen.trusting) \in BOOLEAN
      /\ Given(on, agents[a].enabled) \in BOOLEAN
  BY <1>1, <1>2 DEF Agent, Given
<1>6. /\ new \in Agent
      /\ new.state = agents[a].state /\ new.owner = agents[a].owner
      /\ new.enabled = Given(on, agents[a].enabled)
      /\ new.trusting = Given(trusting, seen.trusting)
  BY <1>2, <1>5 DEF Agent
<1>7. ASSUME ~agents[a].enabled, Given(on, agents[a].enabled)
      PROVE  Given(trusting, seen.trusting)
  <2>1. Acceptable(seen, c, trusting, on)
    BY DEF EndPatch
  <2>2. on = TRUE
    BY <1>7 DEF Given
  <2> QED BY <2>1, <2>2 DEF Acceptable
<1> HIDE DEF new
<1> QED BY <1>1, <1>3, <1>4, <1>6, <1>7

-----------------------------------------------------------------------------

LEMMA TypeInit == Init => TypeOK
BY ControlAssumption DEF Init, TypeOK, NoAgent, Agent, Request

LEMMA AgentsTyped ==
  ASSUME TypeOK, Next
  PROVE  agents' \in [AgentIds -> Agent]
<1>0. agents \in [AgentIds -> Agent]
  BY DEF TypeOK
<1>1. CASE UNCHANGED agents
  BY <1>0, <1>1
<1>2. ASSUME NEW q \in Slots, NEW a \in AgentIds, NEW c \in Configs, NEW trusting \in BOOLEAN,
             EndCreate(q, a, c, trusting)
      PROVE  agents' \in [AgentIds -> Agent]
  <2>1. requests[q].owner \in Owners
    BY <1>2, RequestFields DEF EndCreate, NewAgent
  <2> QED BY <1>0, <1>2, <2>1 DEF EndCreate, Agent, NewAgent
<1>3. ASSUME NEW q \in Slots, NEW c \in Configs \cup {Keep},
             NEW trusting \in BOOLEAN \cup {Keep}, NEW on \in BOOLEAN \cup {Keep},
             EndPatch(q, c, trusting, on)
      PROVE  agents' \in [AgentIds -> Agent]
  BY <1>0, <1>3, PatchWrites
<1>4. ASSUME NEW a \in AgentIds, Remove(a)
      PROVE  agents' \in [AgentIds -> Agent]
  BY <1>0, <1>4 DEF Remove, Agent, AskedByOwner, Removed
<1> QED BY <1>1, <1>2, <1>3, <1>4, AgentWrites

LEMMA TypeNext == TypeOK /\ [Next]_vars => TypeOK'
<1> SUFFICES ASSUME TypeOK, [Next]_vars PROVE TypeOK'
  OBVIOUS
<1>1. CASE UNCHANGED vars
  BY <1>1 DEF vars, auth, TypeOK
<1>2. CASE Next
  <2>1. agents' \in [AgentIds -> Agent]
    BY <1>2, AgentsTyped
  <2> DEFINE Rest == /\ admitted' \subseteq Owners
                     /\ challenges' \subseteq
                          [id : 1 .. issued', owner : Owners, expires : Nat, used : BOOLEAN]
                     /\ sessions' \subseteq [challenge : 1 .. issued', owner : Owners, expires : Nat]
                     /\ requests' \in [Slots -> Request]
                     /\ issued' \in 0 .. MaxChallenges /\ restarts' \in 0 .. MaxRestarts
                     /\ now' \in 0 .. MaxTime
  <2> USE ControlAssumption DEF TypeOK
  <2>2. ASSUME NEW o \in Owners, CreateChallenge(o) PROVE Rest
    <3>1. issued' \in 0 .. MaxChallenges /\ issued' = issued + 1 /\ issued \in Nat
      BY <2>2 DEF CreateChallenge
    <3>2. now + ChallengeLife \in Nat
      OBVIOUS
    <3>3. challenges' \subseteq [id : 1 .. issued', owner : Owners, expires : Nat, used : BOOLEAN]
      <4> DEFINE c == NewChallenge(o)
      <4>1. c \in [id : 1 .. issued', owner : Owners, expires : Nat, used : BOOLEAN]
        BY <3>1, <3>2 DEF NewChallenge
      <4>2. 1 .. issued \subseteq 1 .. issued'
        BY <3>1
      <4>3. challenges \subseteq [id : 1 .. issued', owner : Owners, expires : Nat, used : BOOLEAN]
        BY <4>2
      <4>4. challenges' = challenges \cup {c}
        BY <2>2 DEF CreateChallenge
      <4> QED BY <4>1, <4>3, <4>4
    <3>4. sessions' \subseteq [challenge : 1 .. issued', owner : Owners, expires : Nat]
      BY <2>2, <3>1 DEF CreateChallenge
    <3> QED BY <2>2, <3>1, <3>3, <3>4 DEF CreateChallenge
  <2>3. ASSUME NEW c \in challenges, Verify(c) PROVE Rest
    <3>1. c \in [id : 1 .. issued, owner : Owners, expires : Nat, used : BOOLEAN]
      OBVIOUS
    <3>2. Consumed(c) \in [id : 1 .. issued, owner : Owners, expires : Nat, used : BOOLEAN]
      BY <3>1 DEF Consumed
    <3>3. NewSession(c) \in [challenge : 1 .. issued, owner : Owners, expires : Nat]
      BY <3>1 DEF NewSession
    <3> QED BY <2>3, <3>2, <3>3 DEF Verify
  <2>4. ASSUME NEW s \in sessions, Logout(s) PROVE Rest
    BY <2>4 DEF Logout
  <2>5. CASE Purge
    BY <2>5 DEF Purge
  <2>6. ASSUME NEW q \in Slots, NEW o \in Owners, BeginCreate(q, o) PROVE Rest
    BY <2>6 DEF BeginCreate, auth, Request
  <2>7. ASSUME NEW q \in Slots, NEW a \in AgentIds, NEW c \in Configs, NEW trusting \in BOOLEAN,
               EndCreate(q, a, c, trusting)
        PROVE  Rest
    BY <2>7 DEF EndCreate, Done, auth, Request, NewAgent
  <2>8. ASSUME NEW q \in Slots, NEW a \in AgentIds, BeginPatch(q, a) PROVE Rest
    BY <2>8 DEF BeginPatch, auth, Request, AskedByOwner
  <2>9. ASSUME NEW q \in Slots, NEW c \in Configs \cup {Keep},
               NEW trusting \in BOOLEAN \cup {Keep}, NEW on \in BOOLEAN \cup {Keep},
               EndPatch(q, c, trusting, on)
        PROVE  Rest
    BY <2>9 DEF EndPatch, Done, auth, Request
  <2>10. ASSUME NEW q \in Slots, Refuse(q) PROVE Rest
    BY <2>10 DEF Refuse, Done, auth, Request
  <2>11. ASSUME NEW a \in AgentIds, Remove(a) PROVE Rest
    BY <2>11 DEF Remove, auth, AskedByOwner, Removed
  <2>12. CASE Tick
    BY <2>12 DEF Tick, auth
  <2>13. ASSUME NEW listed \in SUBSET Owners, Restart(listed) PROVE Rest
    BY <2>13 DEF Restart, auth, Request
  <2>14. Rest
    BY <1>2, <2>2, <2>3, <2>4, <2>5, <2>6, <2>7, <2>8, <2>9, <2>10, <2>11, <2>12, <2>13 DEF Next
  <2> QED BY <2>1, <2>14
<1> QED BY <1>1, <1>2

\* The tables keep their types.
THEOREM ControlTypeCorrect == Spec => []TypeOK
BY TypeInit, TypeNext, PTL DEF Spec

-----------------------------------------------------------------------------

\* A removed agent is never switched on and gets no key again.
THEOREM RemovalIsFinal == Spec => []RemovedForGood
<1>1. Init => RemovedForGood
  BY DEF Init, RemovedForGood, NoAgent
<1>2. TypeOK /\ RemovedForGood /\ [Next]_vars => RemovedForGood'
  <2> SUFFICES ASSUME TypeOK, RemovedForGood, Next PROVE RemovedForGood'
    BY DEF vars, RemovedForGood
  <2>0. agents \in [AgentIds -> Agent]
    BY DEF TypeOK
  <2>1. CASE UNCHANGED agents
    BY <2>1 DEF RemovedForGood
  <2>2. ASSUME NEW q \in Slots, NEW a \in AgentIds, NEW c \in Configs,
               NEW trusting \in BOOLEAN, EndCreate(q, a, c, trusting)
        PROVE  RemovedForGood'
    BY <2>0, <2>2 DEF EndCreate, RemovedForGood, NewAgent
  <2>3. ASSUME NEW q \in Slots, NEW c \in Configs \cup {Keep},
               NEW trusting \in BOOLEAN \cup {Keep}, NEW on \in BOOLEAN \cup {Keep},
               EndPatch(q, c, trusting, on)
        PROVE  RemovedForGood'
    BY <2>0, <2>3, PatchWrites DEF RemovedForGood
  <2>4. ASSUME NEW a \in AgentIds, Remove(a) PROVE RemovedForGood'
    BY <2>0, <2>4 DEF Remove, RemovedForGood, Agent, AskedByOwner, Removed
  <2> QED BY <2>1, <2>2, <2>3, <2>4, AgentWrites
<1> QED BY ControlTypeCorrect, <1>1, <1>2, PTL DEF Spec

\* Below a limit there is room for one more.
LEMMA OneMore ==
  ASSUME NEW S, NEW x, NEW limit \in Nat, IsFiniteSet(S), Cardinality(S) < limit
  PROVE  Cardinality(S \cup {x}) <= limit
<1>1. Cardinality(S) \in Nat
  BY FS_CardinalityType
<1>2. Cardinality(S \cup {x}) = IF x \in S THEN Cardinality(S) ELSE Cardinality(S) + 1
  BY FS_AddElement
<1> QED BY <1>1, <1>2

\* Overlapping creates stay within both limits.
THEOREM CapacityIsKept == Spec => []CapacityKept
<1>1. Init => CapacityKept
  <2> SUFFICES ASSUME Init PROVE CapacityKept
    OBVIOUS
  <2>1. AllLive = {} /\ \A o \in Owners : Live(o) = {}
    BY DEF Init, AllLive, Live, NoAgent
  <2> QED BY <2>1, FS_EmptySet, ControlAssumption DEF CapacityKept
<1>2. TypeOK /\ CapacityKept /\ [Next]_vars => CapacityKept'
  <2> SUFFICES ASSUME TypeOK, CapacityKept, Next PROVE CapacityKept'
    BY DEF vars, CapacityKept, AllLive, Live
  <2>0. agents \in [AgentIds -> Agent]
    BY DEF TypeOK
  <2>1. /\ IsFiniteSet(AllLive) /\ Cardinality(AllLive) \in Nat
        /\ \A o \in Owners : IsFiniteSet(Live(o)) /\ Cardinality(Live(o)) \in Nat
    <3>1. AllLive \in SUBSET AgentIds /\ \A o \in Owners : Live(o) \in SUBSET AgentIds
      BY DEF AllLive, Live
    <3> QED BY <3>1, FS_Subset, FS_CardinalityType, ControlAssumption
  <2>2. ASSUME AllLive' \subseteq AllLive, \A o \in Owners : Live(o)' \subseteq Live(o)
        PROVE  CapacityKept'
    <3>1. Cardinality(AllLive)' <= Cardinality(AllLive) /\ Cardinality(AllLive)' \in Nat
      BY <2>1, <2>2, FS_Subset, FS_CardinalityType
    <3>2. ASSUME NEW o \in Owners
          PROVE  Cardinality(Live(o))' <= Cardinality(Live(o)) /\ Cardinality(Live(o))' \in Nat
      BY <2>1, <2>2, FS_Subset, FS_CardinalityType
    <3> QED BY <2>1, <3>1, <3>2, ControlAssumption DEF CapacityKept
  <2>3. CASE UNCHANGED agents
    BY <2>2, <2>3 DEF AllLive, Live
  <2>4. ASSUME NEW q \in Slots, NEW a \in AgentIds, NEW c \in Configs,
               NEW trusting \in BOOLEAN, EndCreate(q, a, c, trusting)
        PROVE  CapacityKept'
    <3>0. PICK owner \in Owners : owner = requests[q].owner
      BY <2>4, RequestFields DEF EndCreate, NewAgent
    <3>1. AllLive' = AllLive \cup {a}
      BY <2>0, <2>4 DEF EndCreate, AllLive, NewAgent
    <3>2. ASSUME NEW o \in Owners, o # owner PROVE Live(o)' = Live(o)
      BY <2>0, <2>4, <3>0, <3>2 DEF EndCreate, Live, NewAgent
    <3>3. Live(owner)' = Live(owner) \cup {a}
      BY <2>0, <2>4, <3>0 DEF EndCreate, Live, NewAgent
    <3>4. Cardinality(Live(owner)) < OwnerLimit /\ Cardinality(AllLive) < HostLimit
      BY <2>4, <3>0 DEF EndCreate, NewAgent
    <3>5. Cardinality(AllLive)' <= HostLimit
      BY <2>1, <3>1, <3>4, OneMore, ControlAssumption
    <3>6. Cardinality(Live(owner))' <= OwnerLimit
      BY <2>1, <3>3, <3>4, OneMore, ControlAssumption
    <3>7. ASSUME NEW o \in Owners PROVE Cardinality(Live(o))' <= OwnerLimit
      <4>1. CASE o = owner
        BY <3>6, <4>1
      <4>2. CASE o # owner
        BY <3>2, <4>2 DEF CapacityKept
      <4> QED BY <4>1, <4>2
    <3> QED BY <3>5, <3>7 DEF CapacityKept
  <2>5. ASSUME NEW q \in Slots, NEW c \in Configs \cup {Keep},
               NEW trusting \in BOOLEAN \cup {Keep}, NEW on \in BOOLEAN \cup {Keep},
               EndPatch(q, c, trusting, on)
        PROVE  CapacityKept'
    <3>1. AllLive' \subseteq AllLive /\ \A o \in Owners : Live(o)' \subseteq Live(o)
      BY <2>0, <2>5, PatchWrites DEF AllLive, Live
    <3> QED BY <2>2, <3>1
  <2>6. ASSUME NEW a \in AgentIds, Remove(a) PROVE CapacityKept'
    <3>1. AllLive' \subseteq AllLive /\ \A o \in Owners : Live(o)' \subseteq Live(o)
      BY <2>0, <2>6 DEF Remove, AllLive, Live, AskedByOwner, Removed
    <3> QED BY <2>2, <3>1
  <2> QED BY <2>3, <2>4, <2>5, <2>6, AgentWrites
<1> QED BY ControlTypeCorrect, <1>1, <1>2, PTL DEF Spec

-----------------------------------------------------------------------------

\* One signed challenge gives one session: a session's challenge is consumed, and ids
\* are never issued again.
THEOREM ChallengesAreSpent == Spec => []OneSessionPerChallenge
<1> DEFINE Inv == ChallengeIds /\ OneSessionPerChallenge
<1>1. Init => Inv
  BY DEF Init, ChallengeIds, OneSessionPerChallenge
<1>2. TypeOK /\ Inv /\ [Next]_vars => Inv'
  <2> SUFFICES ASSUME TypeOK, Inv, [Next]_vars PROVE Inv'
    OBVIOUS
  <2> USE DEF ChallengeIds, OneSessionPerChallenge
  <2>1. /\ issued \in Nat
        /\ \A c \in challenges : c.id \in 1 .. issued
        /\ \A s \in sessions : s.challenge \in 1 .. issued
    BY DEF TypeOK
  <2>2. ASSUME NEW o \in Owners, CreateChallenge(o) PROVE Inv'
    <3>1. /\ \A c \in challenges : c.id # issued + 1
          /\ \A s \in sessions : s.challenge # issued + 1
      BY <2>1
    <3> DEFINE new == NewChallenge(o)
    <3>2. new.id = issued + 1
      BY DEF NewChallenge
    <3>3. challenges' = challenges \cup {new} /\ sessions' = sessions
      BY <2>2 DEF CreateChallenge
    <3> HIDE DEF new
    <3> QED BY <3>1, <3>2, <3>3
  <2>3. ASSUME NEW c \in challenges, Verify(c) PROVE Inv'
    <3> DEFINE spent == Consumed(c)
               s == NewSession(c)
    <3>1. c \in [id : 1 .. issued, owner : Owners, expires : Nat, used : BOOLEAN]
      BY DEF TypeOK
    <3>2. spent.id = c.id /\ spent.used /\ s.challenge = c.id
      BY <3>1 DEF Consumed, NewSession
    <3>3. challenges' = (challenges \ {c}) \cup {spent} /\ sessions' = sessions \cup {s} /\ ~c.used
      BY <2>3 DEF Verify
    <3> HIDE DEF spent, s
    <3>4. \A t \in sessions : t.challenge # c.id
      BY <3>3
    <3>5. \A d \in challenges \ {c} : d.id # c.id
      OBVIOUS
    <3> QED BY <3>2, <3>3, <3>4, <3>5
  <2>4. ASSUME challenges' \subseteq challenges, sessions' \subseteq sessions PROVE Inv'
    BY <2>4
  <2>5. CASE UNCHANGED auth
    BY <2>4, <2>5 DEF auth
  <2>6. CASE Purge \/ \E s \in sessions : Logout(s)
    BY <2>4, <2>6 DEF Purge, Logout
  <2>7. CASE UNCHANGED vars
    BY <2>5, <2>7 DEF vars
  <2>8. \/ UNCHANGED auth
        \/ Purge \/ \E s \in sessions : Logout(s)
        \/ \E o \in Owners : CreateChallenge(o)
        \/ \E c \in challenges : Verify(c)
    BY <2>7 DEF Next, BeginCreate, EndCreate, BeginPatch, EndPatch, Refuse, Remove,
                Tick, Restart, vars
  <2> QED BY <2>2, <2>3, <2>5, <2>6, <2>8
<1> QED BY ControlTypeCorrect, <1>1, <1>2, PTL DEF Spec

-----------------------------------------------------------------------------

LEMMA RequestsInvariant == Spec => []RequestInv
<1>1. Init => RequestInv
  BY DEF Init, RequestInv
<1>2. TypeOK /\ RequestInv /\ [Next]_vars => RequestInv'
  <2> SUFFICES ASSUME TypeOK, RequestInv, [Next]_vars PROVE RequestInv'
    OBVIOUS
  <2>0. agents \in [AgentIds -> Agent] /\ requests \in [Slots -> Request]
    BY DEF TypeOK
  <2>1. ASSUME \A q \in Slots : requests'[q] = requests[q] \/ requests'[q] = [kind |-> "none"],
               admitted' = admitted,
               \A a \in AgentIds : agents[a].state # "none" =>
                 agents'[a].state # "none" /\ agents'[a].owner = agents[a].owner
        PROVE  RequestInv'
    BY <2>1, RequestFields DEF RequestInv
  <2>2. CASE UNCHANGED <<admitted, agents, requests>>
    BY <2>1, <2>2
  <2>3. ASSUME NEW q \in Slots, NEW o \in Owners, BeginCreate(q, o) PROVE RequestInv'
    BY <2>0, <2>3 DEF BeginCreate, Authenticated, RequestInv, RegistrationAllowed
  <2>4. ASSUME NEW q \in Slots, NEW a \in AgentIds, BeginPatch(q, a) PROVE RequestInv'
    BY <2>0, <2>4 DEF BeginPatch, Authenticated, RequestInv, AskedByOwner, RegistrationAllowed
  <2>5. ASSUME NEW q \in Slots, NEW a \in AgentIds, NEW c \in Configs,
               NEW trusting \in BOOLEAN, EndCreate(q, a, c, trusting)
        PROVE  RequestInv'
    BY <2>0, <2>1, <2>5 DEF EndCreate, Done, NewAgent
  <2>6. ASSUME NEW q \in Slots, NEW c \in Configs \cup {Keep},
               NEW trusting \in BOOLEAN \cup {Keep}, NEW on \in BOOLEAN \cup {Keep},
               EndPatch(q, c, trusting, on)
        PROVE  RequestInv'
    <3>1. \A a \in AgentIds : agents[a].state # "none" =>
            agents'[a].state # "none" /\ agents'[a].owner = agents[a].owner
      BY <2>0, <2>6, PatchWrites
    <3>2. requests' = [requests EXCEPT ![q] = [kind |-> "none"]] /\ admitted' = admitted
      BY <2>6 DEF EndPatch, Done
    <3> QED BY <2>0, <2>1, <3>1, <3>2
  <2>7. ASSUME NEW q \in Slots, Refuse(q) PROVE RequestInv'
    BY <2>0, <2>1, <2>7 DEF Refuse, Done
  <2>8. ASSUME NEW a \in AgentIds, Remove(a) PROVE RequestInv'
    BY <2>0, <2>1, <2>8 DEF Remove, Agent, AskedByOwner, Removed
  <2>9. ASSUME NEW listed \in SUBSET Owners, Restart(listed) PROVE RequestInv'
    BY <2>9 DEF Restart, RequestInv
  <2>10. \/ UNCHANGED <<admitted, agents, requests>>
         \/ \E q \in Slots, o \in Owners : BeginCreate(q, o)
         \/ \E q \in Slots, a \in AgentIds : BeginPatch(q, a)
         \/ \E q \in Slots, a \in AgentIds, c \in Configs, trusting \in BOOLEAN :
              EndCreate(q, a, c, trusting)
         \/ \E q \in Slots, c \in Configs \cup {Keep}, trusting, on \in BOOLEAN \cup {Keep} :
              EndPatch(q, c, trusting, on)
         \/ \E q \in Slots : Refuse(q)
         \/ \E a \in AgentIds : Remove(a)
         \/ \E listed \in SUBSET Owners : Restart(listed)
    BY DEF Next, CreateChallenge, Verify, Logout, Purge, Tick, vars
  <2> QED BY <2>2, <2>3, <2>4, <2>5, <2>6, <2>7, <2>8, <2>9, <2>10
<1> QED BY ControlTypeCorrect, <1>1, <1>2, PTL DEF Spec

\* Nobody's agents change but an admitted owner's: a request under way cannot outlive
\* the admission it was checked against, for a restart ends both.
THEOREM AdmissionHolds == Spec => AdmittedOnly
<1>1. TypeOK /\ RequestInv /\ [Next]_vars =>
        [\A a \in AgentIds : agents'[a] # agents[a] => agents'[a].owner \in admitted]_vars
  <2> SUFFICES ASSUME TypeOK, RequestInv, Next, NEW a \in AgentIds, agents'[a] # agents[a]
               PROVE  agents'[a].owner \in admitted
    OBVIOUS
  <2>0. agents \in [AgentIds -> Agent]
    BY DEF TypeOK
  <2>1. ASSUME NEW q \in Slots, NEW b \in AgentIds, NEW c \in Configs,
               NEW trusting \in BOOLEAN, EndCreate(q, b, c, trusting)
        PROVE  agents'[a].owner \in admitted
    BY <2>0, <2>1 DEF EndCreate, RequestInv, NewAgent
  <2>2. ASSUME NEW q \in Slots, NEW c \in Configs \cup {Keep},
               NEW trusting \in BOOLEAN \cup {Keep}, NEW on \in BOOLEAN \cup {Keep},
               EndPatch(q, c, trusting, on)
        PROVE  agents'[a].owner \in admitted
    <3>1. requests[q].kind = "patch"
      BY <2>2 DEF EndPatch
    <3> QED BY <2>0, <2>2, <3>1, PatchWrites DEF RequestInv
  <2>3. ASSUME NEW b \in AgentIds, Remove(b) PROVE agents'[a].owner \in admitted
    BY <2>0, <2>3 DEF Remove, Authenticated, Agent, AskedByOwner, Removed, RegistrationAllowed
  <2> QED BY <2>1, <2>2, <2>3, AgentWrites
<1> QED BY ControlTypeCorrect, RequestsInvariant, <1>1, PTL DEF Spec, AdmittedOnly

\* Nothing is switched on that trusts no requester, whatever overlapping changes did
\* to the policy since the request began: the policy is written with the switch.
THEOREM SwitchedOnWithTrust == Spec => EnabledWithTrust
<1>1. TypeOK /\ [Next]_vars =>
        [\A a \in AgentIds : ~agents[a].enabled /\ agents'[a].enabled => agents'[a].trusting]_vars
  <2> SUFFICES ASSUME TypeOK, Next, NEW a \in AgentIds,
                      ~agents[a].enabled, agents'[a].enabled
               PROVE  agents'[a].trusting
    OBVIOUS
  <2>0. agents \in [AgentIds -> Agent]
    BY DEF TypeOK
  <2>1. ASSUME NEW q \in Slots, NEW b \in AgentIds, NEW c \in Configs,
               NEW trusting \in BOOLEAN, EndCreate(q, b, c, trusting)
        PROVE  FALSE
    BY <2>0, <2>1 DEF EndCreate, NewAgent
  <2>2. ASSUME NEW q \in Slots, NEW c \in Configs \cup {Keep},
               NEW trusting \in BOOLEAN \cup {Keep}, NEW on \in BOOLEAN \cup {Keep},
               EndPatch(q, c, trusting, on)
        PROVE  agents'[a].trusting
    BY <2>0, <2>2, PatchWrites
  <2>3. ASSUME NEW b \in AgentIds, Remove(b) PROVE FALSE
    BY <2>0, <2>3 DEF Remove, Agent, AskedByOwner, Removed
  <2> QED BY <2>1, <2>2, <2>3, AgentWrites
<1> QED BY ControlTypeCorrect, <1>1, PTL DEF Spec, EnabledWithTrust
=============================================================================
