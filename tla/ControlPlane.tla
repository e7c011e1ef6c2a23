----------------------------- MODULE ControlPlane -----------------------------
(***************************************************************************)
(* The owner's control API: login by signed challenge, sessions, and the   *)
(* create, change and remove operations on hosted agents                   *)
(* (runtime/src/http-api.mjs over the tables of runtime/src/db.mjs).       *)
(*                                                                         *)
(* A handler runs without a break except where it awaits the body of its   *)
(* request. Login and verification await it first, so that each is one     *)
(* step; creating and changing an agent await it AFTER the session and the *)
(* agent's row were read, so that each is two steps with anything in       *)
(* between. Logout and removal await nothing.                              *)
(*                                                                         *)
(* Signatures verify only for the owner who asks. Provider, model and API  *)
(* key are one value ("config"), and all a policy tells here is whether it *)
(* trusts any requester. Network policies are in NetworkDelivery.          *)
(***************************************************************************)
EXTENDS Integers, FiniteSets

CONSTANTS
  Owners,
  AgentIds,       \* ids that agents may get
  Configs,        \* provider, model and API key
  Keep,           \* a field the body leaves out
  Gone,           \* the config of no agent
  Slots,          \* bound on the requests under way
  OwnerLimit,     \* maxAgentsPerOwner
  HostLimit,      \* maxHostedAgents
  ChallengeLife, SessionLife,
  MaxChallenges,  \* bound on the challenges issued
  MaxRestarts,    \* bound on restarts
  MaxTime         \* bound on the clock

ASSUME ControlAssumption ==
  /\ OwnerLimit \in Nat \ {0} /\ HostLimit \in Nat \ {0}
  /\ ChallengeLife \in Nat \ {0} /\ SessionLife \in Nat \ {0}
  /\ Keep \notin Configs \cup BOOLEAN /\ Gone \notin Configs
  /\ MaxChallenges \in Nat /\ MaxRestarts \in Nat /\ MaxTime \in Nat
  /\ IsFiniteSet(AgentIds)

VARIABLES
  admitted,    \* owners the configuration lets register
  challenges,  \* the auth_challenges table
  sessions,    \* the sessions table
  agents,      \* the agents table
  requests,    \* what a request waiting for its body read before
  issued,      \* challenges issued so far, which number them
  restarts, now

auth == <<challenges, sessions, issued>>
vars == <<admitted, auth, agents, requests, restarts, now>>

Agent ==
  [state : {"none", "live", "removed"}, owner : Owners \cup {Gone},
   enabled : BOOLEAN, config : Configs \cup {Gone}, trusting : BOOLEAN]

NoAgent ==
  [state |-> "none", owner |-> Gone, enabled |-> FALSE, config |-> Gone, trusting |-> FALSE]

Request ==
  [kind : {"none"}] \cup [kind : {"create"}, owner : Owners]
  \cup [kind : {"patch"}, agent : AgentIds, seen : Agent]

\* Every variable keeps its type: no column ever takes a value that is no value.
TypeOK ==
  /\ admitted \subseteq Owners
  /\ challenges \subseteq [id : 1 .. issued, owner : Owners, expires : Nat, used : BOOLEAN]
  /\ sessions \subseteq [challenge : 1 .. issued, owner : Owners, expires : Nat]
  /\ agents \in [AgentIds -> Agent]
  /\ requests \in [Slots -> Request]
  /\ issued \in 0 .. MaxChallenges /\ restarts \in 0 .. MaxRestarts /\ now \in 0 .. MaxTime

Init ==
  /\ admitted = Owners
  /\ challenges = {} /\ sessions = {} /\ issued = 0
  /\ agents = [a \in AgentIds |-> NoAgent]
  /\ requests = [q \in Slots |-> [kind |-> "none"]]
  /\ restarts = 0 /\ now = 0

-----------------------------------------------------------------------------
\* Login.

\* Registration is open or the owner is on the list.
RegistrationAllowed(o) == o \in admitted

NewChallenge(o) ==
  [id |-> issued + 1, owner |-> o, expires |-> now + ChallengeLife, used |-> FALSE]

Consumed(c) == [c EXCEPT !.used = TRUE]

\* A token is as good as fresh; the challenge that gave it names it here.
NewSession(c) == [challenge |-> c.id, owner |-> c.owner, expires |-> now + SessionLife]

\* session(): an expired row is as good as none, purged or not.
InForce(s) == s.expires > now

CreateChallenge(o) ==
  /\ RegistrationAllowed(o) /\ issued < MaxChallenges
  /\ issued' = issued + 1
  /\ challenges' = challenges \cup {NewChallenge(o)}
  /\ UNCHANGED <<admitted, sessions, agents, requests, restarts, now>>

\* Mutant of Verify: an answered challenge may be answered again.
VerifyAgain(c) ==
  /\ c.expires > now /\ RegistrationAllowed(c.owner)
  /\ challenges' = (challenges \ {c}) \cup {Consumed(c)}
  /\ sessions' = sessions \cup {NewSession(c)}
  /\ UNCHANGED <<admitted, issued, agents, requests, restarts, now>>

\* The signature verifies: the challenge is consumed and a session made.
Verify(c) ==
  /\ ~c.used /\ c.expires > now /\ RegistrationAllowed(c.owner)
  /\ challenges' = (challenges \ {c}) \cup {Consumed(c)}
  /\ sessions' = sessions \cup {NewSession(c)}
  /\ UNCHANGED <<admitted, issued, agents, requests, restarts, now>>

\* Mutant of Authenticated: admission is checked at login only.
AuthenticatedAtLogin(o) ==
  \E s \in sessions : s.owner = o /\ InForce(s)

Authenticated(o) ==
  /\ \E s \in sessions : s.owner = o /\ InForce(s)
  /\ RegistrationAllowed(o)

Logout(s) ==
  /\ InForce(s) /\ RegistrationAllowed(s.owner)
  /\ sessions' = sessions \ {s}
  /\ UNCHANGED <<admitted, challenges, issued, agents, requests, restarts, now>>

\* purgeExpired(), once a minute.
Purge ==
  /\ sessions' = { s \in sessions : InForce(s) }
  /\ challenges' = { c \in challenges : c.expires > now }
  /\ <<sessions, challenges>>' # <<sessions, challenges>>
  /\ UNCHANGED <<admitted, issued, agents, requests, restarts, now>>

-----------------------------------------------------------------------------
\* Agents.

Free(q) == requests[q].kind = "none"

Done(q) == requests' = [requests EXCEPT ![q] = [kind |-> "none"]]

Live(o) == { a \in AgentIds : agents[a].state = "live" /\ agents[a].owner = o }

AllLive == { a \in AgentIds : agents[a].state = "live" }

BeginCreate(q, o) ==
  /\ Free(q) /\ Authenticated(o)
  /\ requests' = [requests EXCEPT ![q] = [kind |-> "create", owner |-> o]]
  /\ UNCHANGED <<admitted, auth, agents, restarts, now>>

\* An agent begins paused, with what the body gives it.
NewAgent(o, c, trusting) ==
  [state |-> "live", owner |-> o, enabled |-> FALSE, config |-> c, trusting |-> trusting]

\* Mutant of EndCreate: the limit may be passed by one.
EndCreateOneMore(q, a, c, trusting) ==
  /\ requests[q].kind = "create" /\ agents[a].state = "none"
  /\ Cardinality(Live(requests[q].owner)) <= OwnerLimit
  /\ Cardinality(AllLive) <= HostLimit
  /\ agents' = [agents EXCEPT ![a] = NewAgent(requests[q].owner, c, trusting)]
  /\ Done(q)
  /\ UNCHANGED <<admitted, auth, restarts, now>>

\* The body is there: count and insert in one go.
EndCreate(q, a, c, trusting) ==
  /\ requests[q].kind = "create" /\ agents[a].state = "none"
  /\ Cardinality(Live(requests[q].owner)) < OwnerLimit
  /\ Cardinality(AllLive) < HostLimit
  /\ agents' = [agents EXCEPT ![a] = NewAgent(requests[q].owner, c, trusting)]
  /\ Done(q)
  /\ UNCHANGED <<admitted, auth, restarts, now>>

\* agentForOwner(): a live agent of the owner who asks.
AskedByOwner(a) == agents[a].state = "live" /\ Authenticated(agents[a].owner)

BeginPatch(q, a) ==
  /\ Free(q) /\ AskedByOwner(a)
  /\ requests' = [requests EXCEPT ![q] = [kind |-> "patch", agent |-> a, seen |-> agents[a]]]
  /\ UNCHANGED <<admitted, auth, agents, restarts, now>>

Given(new, old) == IF new = Keep THEN old ELSE new

\* What the handler demands of the body, by the row it read before the body came.
Acceptable(seen, config, trusting, on) ==
  /\ seen.enabled => config = Keep /\ trusting = Keep
  /\ on = TRUE => Given(trusting, seen.trusting)

\* Mutants of EndPatch: the row is not looked for again; the policy is written only
\* when the body has one.
EndPatchUnasked(q, config, trusting, on) ==
  /\ requests[q].kind = "patch"
  /\ LET a == requests[q].agent
         seen == requests[q].seen
     IN /\ Acceptable(seen, config, trusting, on)
        /\ agents' = [agents EXCEPT ![a].config = Given(config, seen.config),
                                    ![a].trusting = Given(trusting, seen.trusting),
                                    ![a].enabled = Given(on, @)]
  /\ Done(q)
  /\ UNCHANGED <<admitted, auth, restarts, now>>

EndPatchSparing(q, config, trusting, on) ==
  /\ requests[q].kind = "patch"
  /\ LET a == requests[q].agent
         seen == requests[q].seen
     IN /\ Acceptable(seen, config, trusting, on)
        /\ agents[a].state = "live"
        /\ agents' = [agents EXCEPT ![a].config = Given(config, @),
                                    ![a].trusting = Given(trusting, @),
                                    ![a].enabled = Given(on, @)]
  /\ Done(q)
  /\ UNCHANGED <<admitted, auth, restarts, now>>

\* The body is there: updateAgent() reads the row again and merges. What the body
\* leaves out stays as it is NOW, except the policy, which is written as it was
\* when the request began.
EndPatch(q, config, trusting, on) ==
  /\ requests[q].kind = "patch"
  /\ LET a == requests[q].agent
         seen == requests[q].seen
     IN /\ Acceptable(seen, config, trusting, on)
        /\ agents[a].state = "live"
        /\ agents' = [agents EXCEPT ![a].config = Given(config, @),
                                    ![a].trusting = Given(trusting, seen.trusting),
                                    ![a].enabled = Given(on, @)]
  /\ Done(q)
  /\ UNCHANGED <<admitted, auth, restarts, now>>

\* A body that is refused, malformed or never comes, or an agent removed meanwhile.
Refuse(q) ==
  /\ ~Free(q)
  /\ Done(q)
  /\ UNCHANGED <<admitted, auth, agents, restarts, now>>

\* deleteAgent(): the row stays, without its keys.
Removed(row) == [row EXCEPT !.state = "removed", !.enabled = FALSE, !.config = Gone]

\* DELETE: no await, and only while paused.
Remove(a) ==
  /\ AskedByOwner(a) /\ ~agents[a].enabled
  /\ agents' = [agents EXCEPT ![a] = Removed(@)]
  /\ UNCHANGED <<admitted, auth, requests, restarts, now>>

-----------------------------------------------------------------------------

Tick ==
  /\ now < MaxTime
  /\ now' = now + 1
  /\ UNCHANGED <<admitted, auth, agents, requests, restarts>>

\* A restart reads a new configuration and forgets the requests; tables remain.
Restart(listed) ==
  /\ restarts < MaxRestarts
  /\ restarts' = restarts + 1
  /\ admitted' = listed
  /\ requests' = [q \in Slots |-> [kind |-> "none"]]
  /\ UNCHANGED <<auth, agents, now>>

Next ==
  \/ \E o \in Owners : CreateChallenge(o)
  \/ \E c \in challenges : Verify(c)
  \/ \E s \in sessions : Logout(s)
  \/ Purge
  \/ \E q \in Slots, o \in Owners : BeginCreate(q, o)
  \/ \E q \in Slots, a \in AgentIds, c \in Configs, trusting \in BOOLEAN :
       EndCreate(q, a, c, trusting)
  \/ \E q \in Slots, a \in AgentIds : BeginPatch(q, a)
  \/ \E q \in Slots, c \in Configs \cup {Keep}, trusting, on \in BOOLEAN \cup {Keep} :
       EndPatch(q, c, trusting, on)
  \/ \E q \in Slots : Refuse(q)
  \/ \E a \in AgentIds : Remove(a)
  \/ Tick
  \/ \E listed \in SUBSET Owners : Restart(listed)

Spec == Init /\ [][Next]_vars

-----------------------------------------------------------------------------

\* Creates that overlap never exceed the limits of an owner or of the host
\* ("concurrent creates cannot exceed capacity", http-api.mjs).
CapacityKept ==
  /\ \A o \in Owners : Cardinality(Live(o)) <= OwnerLimit
  /\ Cardinality(AllLive) <= HostLimit

\* A removed agent never runs again and never gets a provider key again, although
\* a change of it may have been waiting for its body while it was removed.
RemovedForGood ==
  \A a \in AgentIds : agents[a].state = "removed" =>
    ~agents[a].enabled /\ agents[a].config = Gone

\* Whenever an agent is switched on, its policy as stored then trusts a requester,
\* whatever other changes were under way ("Add at least one trusted requester DID
\* before enabling autonomous work.").
EnabledWithTrust ==
  [][\A a \in AgentIds : ~agents[a].enabled /\ agents'[a].enabled => agents'[a].trusting]_vars

\* One signed challenge gives one session, ever.
OneSessionPerChallenge ==
  /\ \A s, t \in sessions : s.challenge = t.challenge => s = t
  /\ \A s \in sessions, c \in challenges : s.challenge = c.id => c.used

\* Only an admitted owner's agents change, whatever sessions survive from a time
\* when the owner was admitted (docs/HOSTED_REGISTRATION.md, "Admission is checked
\* at challenge issuance, signature verification and on authenticated requests").
AdmittedOnly ==
  [][\A a \in AgentIds : agents'[a] # agents[a] => agents'[a].owner \in admitted]_vars
=============================================================================
