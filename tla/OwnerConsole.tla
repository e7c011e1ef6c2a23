----------------------------- MODULE OwnerConsole -----------------------------
(***************************************************************************)
(* The browser side of owner control (frontend/src/App.tsx and the save of *)
(* NetworkWork.tsx): the tabs of one browser, which share the vault in     *)
(* localStorage, each with its own unlocked identity, session and list of  *)
(* agents, talking to the control API over requests that may be refused,   *)
(* lost, answered late or given up while they are still to be executed.    *)
(*                                                                         *)
(* The API is the part of it that a tab can tell apart (ControlPlane has   *)
(* its handlers): sessions, agents with an owner and a switch. The two     *)
(* requests of a login are one. Form fields, notices, the task list (which *)
(* syncNetwork reads and nothing here uses) and the wording are left out.  *)
(***************************************************************************)
EXTENDS Naturals, FiniteSets

CONSTANTS
  Tabs,
  Dids,        \* owners' identities
  None,
  Polls,       \* list requests a tab may have under way, besides the login's
  MaxTokens,   \* bound on logins
  MaxAgents,   \* bound on agents created
  OwnerLimit,  \* maxAgentsPerOwner
  MaxPresses   \* bound on what the owner does

ASSUME ConsoleAssumption ==
  /\ Dids \cap {None, "unused", "ended"} = {}
  /\ Polls \subseteq Nat \ {0}
  /\ MaxTokens \in Nat \ {0} /\ MaxAgents \in Nat \ {0} /\ OwnerLimit \in Nat /\ MaxPresses \in Nat

VARIABLES
  stored,    \* localStorage: the DID of the vault
  tab,       \* what a tab has in memory, and its sessionStorage; a ghost, stray
  poll,      \* loadAgents() under way, 0 being the login's
  served,    \* the agents table: rows
  minted,    \* how many agents were ever created
  sess,      \* sessions: whose each token is
  late,      \* requests that no tab waits for any more
  exported,  \* agents whose recovery vault was downloaded
  started,   \* ghost: agents the owner started with START AGENT
  presses

console == <<stored, tab, poll, exported, started>>
server == <<served, minted, sess>>
vars == <<console, server, late, presses>>

AgentIds == 1 .. MaxAgents
Tokens == 1 .. MaxTokens
NoToken == 0
NoAgent == 0

Row == [id : AgentIds, owner : Dids, on : BOOLEAN]

\* What a press set going and the tab, busy, awaits.
Idle == [kind |-> "idle", phase |-> "local", agent |-> NoAgent, editing |-> NoAgent,
         token |-> NoToken, did |-> None]
Busy(t) == tab[t].op # Idle

LocalKinds == {"vault", "unlock", "load", "export"}
RemoteKinds == {"login", "create", "enable", "start", "pause", "edit", "remove", "logout"}

NoPoll == [phase |-> "none", token |-> NoToken, owner |-> None, rows |-> {}]

\* Every variable keeps its type; an agent has one row, in the table and on the page,
\* and what awaits a local step was not sent.
TypeOK ==
  /\ stored \in Dids \cup {None}
  /\ \A t \in Tabs :
       /\ {tab[t].vault, tab[t].identity} \subseteq Dids \cup {None}
       /\ tab[t].token \in Tokens \cup {NoToken}
       /\ tab[t].shown \subseteq Row
       /\ \A r, s \in tab[t].shown : r.id = s.id => r = s
       /\ tab[t].setup \in BOOLEAN /\ tab[t].stray \subseteq AgentIds
       /\ {tab[t].editing, tab[t].confirm} \subseteq AgentIds \cup {NoAgent}
       /\ tab[t].op.kind \in {"idle"} \cup LocalKinds \cup RemoteKinds
       /\ tab[t].op.phase \in {"local", "sent", "ok", "bad"}
       /\ tab[t].save.token \in Tokens \cup {NoToken}
       /\ tab[t].op.phase = "local" <=> tab[t].op.kind \in {"idle"} \cup LocalKinds
       /\ \A k \in Polls \cup {0} :
            /\ poll[t][k].phase \in {"none", "asked", "answered"}
            /\ poll[t][k].rows \subseteq Row
  /\ served \subseteq Row /\ minted \in 0 .. MaxAgents
  /\ \A r, s \in served : r.id = s.id => r = s
  /\ sess \in [Tokens -> Dids \cup {"unused", "ended"}]
  /\ exported \subseteq AgentIds /\ started \subseteq AgentIds
  /\ presses \in 0 .. MaxPresses

Press == presses < MaxPresses /\ presses' = presses + 1

Fresh(did, token) ==
  [vault |-> did, identity |-> None, token |-> token, shown |-> {}, setup |-> FALSE,
   editing |-> NoAgent, confirm |-> NoAgent, op |-> Idle, save |-> [agent |-> NoAgent, token |-> NoToken],
   stray |-> {}]

\* Every tab has just been opened, in a browser that holds a vault or none, one of
\* them with a session that lasts from before, of that vault or of one it replaced; an
\* agent may be there from before.
Init ==
  /\ stored \in Dids \cup {None}
  /\ served \in {{}} \cup { {r} : r \in [id : {1}, owner : Dids \cap {stored}, on : BOOLEAN] }
  /\ minted = Cardinality(served)
  /\ \E open \in { o \in [Tabs -> {NoToken, 1}] : Cardinality({ t \in Tabs : o[t] = 1 }) <= 1 },
        owner \in Dids :
       /\ stored = None => \A t \in Tabs : open[t] = NoToken
       /\ tab = [t \in Tabs |-> Fresh(stored, open[t])]
       /\ sess = [k \in Tokens |-> IF \E t \in Tabs : open[t] = k THEN owner ELSE "unused"]
  /\ poll = [t \in Tabs |-> [k \in Polls \cup {0} |-> NoPoll]]
  /\ late = {} /\ started = {}
  /\ exported = { r.id : r \in served }
  /\ presses = 0

-----------------------------------------------------------------------------
\* The API.

Session(k) == IF k \in Tokens /\ sess[k] \in Dids THEN sess[k] ELSE None

OwnedBy(did) == { r \in served : r.owner = did }

\* What a request does when it is executed, and the agent and token of its answer.
Carry(req, a, k) ==
  \/ /\ req.kind = "login" /\ a = NoAgent
     /\ k = Cardinality({ j \in Tokens : sess[j] # "unused" }) + 1 /\ k \in Tokens
     /\ sess' = [sess EXCEPT ![k] = req.did]
     /\ UNCHANGED <<served, minted>>
  \/ /\ req.kind = "logout" /\ a = NoAgent /\ k = req.token
     /\ Session(k) # None
     /\ sess' = [sess EXCEPT ![k] = "ended"]
     /\ UNCHANGED <<served, minted>>
  \/ /\ req.kind = "create" /\ k = req.token
     /\ Session(k) # None
     /\ Cardinality(OwnedBy(Session(k))) < OwnerLimit
     /\ a = minted + 1 /\ a \in AgentIds
     /\ served' = served \cup {[id |-> a, owner |-> Session(k), on |-> FALSE]}
     /\ minted' = a /\ UNCHANGED sess
  \/ /\ req.kind \in {"enable", "start", "pause", "edit", "remove"}
     /\ a = req.agent /\ k = req.token
     /\ \E r \in OwnedBy(Session(k)) :
          /\ r.id = a
          /\ \/ /\ req.kind \in {"enable", "start", "pause"}
                /\ served' = (served \ {r}) \cup {[r EXCEPT !.on = req.kind # "pause"]}
             \/ req.kind = "edit" /\ ~r.on /\ UNCHANGED served
             \/ req.kind = "remove" /\ ~r.on /\ served' = served \ {r}
     /\ UNCHANGED <<minted, sess>>

\* The request a tab awaits is executed, or turned down (a limit, a failure).
Serve(t) ==
  /\ tab[t].op.phase = "sent"
  /\ \/ \E a \in AgentIds \cup {NoAgent}, k \in Tokens \cup {NoToken} :
          /\ Carry(tab[t].op, a, k)
          /\ tab' = [tab EXCEPT ![t].op.phase = "ok", ![t].op.agent = a, ![t].op.token = k,
                                ![t].op.did = Session(k)']
     \/ tab' = [tab EXCEPT ![t].op.phase = "bad"] /\ UNCHANGED server
  /\ UNCHANGED <<stored, poll, late, exported, started, presses>>

\* A request nobody waits for is executed, or turned down, or never came.
ServeLate(req) ==
  /\ req \in late
  /\ late' = late \ {req}
  /\ \/ \E a \in AgentIds \cup {NoAgent}, k \in Tokens \cup {NoToken} : Carry(req, a, k)
     \/ UNCHANGED server
  /\ UNCHANGED <<console, presses>>

Expire(k) ==
  /\ sess[k] \in Dids
  /\ sess' = [sess EXCEPT ![k] = "ended"]
  /\ UNCHANGED <<console, served, minted, late, presses>>

\* Meanwhile, in a tab or on a device that is not modelled, an owner makes or imports
\* a vault, or starts, pauses or removes an agent.
Elsewhere ==
  /\ Press
  /\ \/ stored' \in Dids /\ UNCHANGED <<served, started>>
     \/ \E r \in served :
          /\ UNCHANGED stored
          /\ \/ /\ served' = (served \ {r}) \cup {[r EXCEPT !.on = ~r.on]}
                /\ started' = IF r.on THEN started ELSE started \cup {r.id}
             \/ ~r.on /\ served' = served \ {r} /\ UNCHANGED started
  /\ UNCHANGED <<tab, poll, minted, sess, late, exported>>

\* GET /v1/agents.
ServePoll(t, k) ==
  /\ poll[t][k].phase = "asked"
  /\ LET did == Session(poll[t][k].token)
     IN poll' = [poll EXCEPT ![t][k].phase = "answered", ![t][k].owner = did,
                             ![t][k].rows = OwnedBy(did)]
  /\ UNCHANGED <<stored, tab, server, late, exported, started, presses>>

-----------------------------------------------------------------------------
\* The tab. A dialog that is open keeps the rest of the page from being pressed.

Modal(t) ==
  /\ tab[t].token # NoToken
  /\ \/ tab[t].setup
     \/ \E r \in tab[t].shown : r.id = tab[t].save.agent

\* A button of the page that is disabled while the tab is busy.
Button(t) == Press /\ ~Busy(t) /\ ~Modal(t)

Begin(t, op) == tab' = [tab EXCEPT ![t].op = op]

LocalOp(kind, did) == [Idle EXCEPT !.kind = kind, !.did = did]

Request(t, kind, a) ==
  [Idle EXCEPT !.kind = kind, !.phase = "sent", !.agent = a, !.token = tab[t].token]

\* createDid or importDid: a vault for a fresh key, or for that of a file.
BeginVault(t, did) ==
  /\ Button(t)
  /\ Begin(t, LocalOp("vault", did))
  /\ UNCHANGED <<stored, poll, server, late, exported, started>>

\* disconnectControl: the session is dropped here, and there if the request arrives.
Disconnected(t) ==
  [tab[t] EXCEPT !.token = NoToken, !.shown = {}, !.setup = FALSE, !.editing = NoAgent,
                 !.confirm = NoAgent, !.stray = {}]

Logout(t) ==
  IF tab[t].token = NoToken THEN {}
  ELSE {[Idle EXCEPT !.kind = "logout", !.phase = "sent", !.token = tab[t].token]}

\* Mutant of EndVault: the old session and its agents stay.
EndVaultOnly(t) ==
  /\ tab[t].op.kind = "vault"
  /\ LET did == tab[t].op.did
     IN /\ stored' = did
        /\ tab' = [tab EXCEPT ![t].vault = did, ![t].identity = did, ![t].op = Idle]
  /\ UNCHANGED <<poll, server, late, exported, started, presses>>

EndVault(t) ==
  /\ tab[t].op.kind = "vault"
  /\ LET did == tab[t].op.did
     IN /\ stored' = did
        /\ tab' = [tab EXCEPT ![t] =
              [Disconnected(t) EXCEPT !.vault = did, !.identity = did, !.op = Idle]]
  /\ late' = late \cup Logout(t)
  /\ UNCHANGED <<poll, server, exported, started, presses>>

BeginUnlock(t) ==
  /\ Button(t) /\ tab[t].vault # None
  /\ Begin(t, LocalOp("unlock", tab[t].vault))
  /\ UNCHANGED <<stored, poll, server, late, exported, started>>

EndUnlock(t) ==
  /\ tab[t].op.kind = "unlock"
  /\ tab' = [tab EXCEPT ![t].identity = tab[t].op.did, ![t].op = Idle]
  /\ UNCHANGED <<stored, poll, server, late, exported, started, presses>>

BeginConnect(t) ==
  /\ Button(t) /\ tab[t].identity # None /\ tab[t].token = NoToken
  /\ Begin(t, [Request(t, "login", NoAgent) EXCEPT !.did = tab[t].identity])
  /\ UNCHANGED <<stored, poll, server, late, exported, started>>

\* The session is kept and its agents are asked for, while the tab stays busy.
Connected(t) ==
  /\ tab[t].op.kind = "login" /\ tab[t].op.phase = "ok"
  /\ tab' = [tab EXCEPT ![t].token = tab[t].op.token, ![t].op = LocalOp("load", None)]
  /\ poll' = [poll EXCEPT ![t][0] = [NoPoll EXCEPT !.phase = "asked", !.token = tab[t].op.token]]
  /\ UNCHANGED <<stored, server, late, exported, started, presses>>

Disconnect(t) ==
  /\ Button(t) /\ tab[t].token # NoToken
  /\ tab' = [tab EXCEPT ![t] = Disconnected(t)]
  /\ late' = late \cup Logout(t)
  /\ UNCHANGED <<stored, poll, server, exported, started>>

\* Its memory gone, the tab starts from the vault and the session it kept.
Reload(t) ==
  /\ Press
  /\ tab' = [tab EXCEPT ![t] = Fresh(stored, tab[t].token)]
  /\ poll' = [poll EXCEPT ![t] = [k \in Polls \cup {0} |-> NoPoll]]
  /\ late' = late \cup { op \in {tab[t].op} : op.phase = "sent" }
  /\ UNCHANGED <<stored, server, exported, started>>

-----------------------------------------------------------------------------
\* loadAgents.

\* Mutant of StartPoll: only until something is shown.
StartPollOnce(t, k) ==
  /\ k \in Polls /\ poll[t][k].phase = "none" /\ tab[t].token # NoToken
  /\ tab[t].shown = {}
  /\ poll' = [poll EXCEPT ![t][k] = [NoPoll EXCEPT !.phase = "asked", !.token = tab[t].token]]
  /\ UNCHANGED <<stored, tab, server, late, exported, started, presses>>

\* Every ten seconds, and when a session is there.
StartPoll(t, k) ==
  /\ k \in Polls /\ poll[t][k].phase = "none" /\ tab[t].token # NoToken
  /\ poll' = [poll EXCEPT ![t][k] = [NoPoll EXCEPT !.phase = "asked", !.token = tab[t].token]]
  /\ UNCHANGED <<stored, tab, server, late, exported, started, presses>>

EndPoll(t, k) == poll' = [poll EXCEPT ![t][k] = NoPoll]

AfterPoll(t, k) == IF k = 0 THEN Idle ELSE tab[t].op

\* The request fails, or its answer does not come.
PollFails(t, k) ==
  /\ poll[t][k].phase = "asked" \/ (poll[t][k].phase = "answered" /\ poll[t][k].owner = None)
  /\ EndPoll(t, k)
  /\ tab' = [tab EXCEPT ![t].op = AfterPoll(t, k)]
  /\ UNCHANGED <<stored, server, late, exported, started, presses>>

\* Mutant of Loaded: whatever comes is shown.
LoadedAny(t, k) ==
  /\ poll[t][k].phase = "answered" /\ poll[t][k].owner # None
  /\ EndPoll(t, k)
  /\ tab' = [tab EXCEPT ![t].shown = poll[t][k].rows, ![t].op = AfterPoll(t, k)]
  /\ UNCHANGED <<stored, server, late, exported, started, presses>>

\* An answer to an earlier session is dropped; a session that is not the stored
\* vault's is given up; else the list is shown.
Loaded(t, k) ==
  /\ poll[t][k].phase = "answered" /\ poll[t][k].owner # None
  /\ EndPoll(t, k)
  /\ LET mine == tab[t].token = poll[t][k].token
         known == stored = poll[t][k].owner
     IN tab' = [tab EXCEPT
           ![t].shown = IF ~mine THEN @ ELSE IF known THEN poll[t][k].rows ELSE {},
           ![t].token = IF mine /\ ~known THEN NoToken ELSE @,
           ![t].stray = IF mine THEN {} ELSE @,
           ![t].op = AfterPoll(t, k)]
  /\ UNCHANGED <<stored, server, late, exported, started, presses>>

-----------------------------------------------------------------------------
\* Agents.

\* START AGENT or PAUSE AGENT: the button says, and does, what the row shows.
Toggle(t, r) ==
  /\ Button(t) /\ tab[t].token # NoToken /\ r \in tab[t].shown
  /\ Begin(t, Request(t, IF r.on THEN "pause" ELSE "start", r.id))
  /\ started' = IF r.on THEN started ELSE started \cup {r.id}
  /\ UNCHANGED <<stored, poll, server, late, exported>>

\* openNewAgentSetup, which may be pressed while the tab is busy.
OpenNew(t) ==
  /\ Press /\ ~Modal(t) /\ tab[t].token # NoToken
  /\ \A r \in tab[t].shown : ~r.on
  /\ tab' = [tab EXCEPT ![t].editing = NoAgent, ![t].confirm = NoAgent, ![t].setup = TRUE]
  /\ UNCHANGED <<stored, poll, server, late, exported, started>>

OpenEdit(t, r) ==
  /\ Button(t) /\ tab[t].token # NoToken /\ r \in tab[t].shown /\ ~r.on
  /\ tab' = [tab EXCEPT ![t].editing = r.id, ![t].confirm = NoAgent, ![t].setup = TRUE]
  /\ UNCHANGED <<stored, poll, server, late, exported, started>>

Dialog(t) == tab[t].token # NoToken /\ tab[t].setup /\ ~Busy(t)

CloseSetup(t) ==
  /\ Press /\ Dialog(t)
  /\ tab' = [tab EXCEPT ![t].setup = FALSE]
  /\ UNCHANGED <<stored, poll, server, late, exported, started>>

\* createHostedAgent, for a new agent or the one that is edited.
Submit(t) ==
  /\ Press /\ Dialog(t) /\ tab[t].identity # None
  /\ Begin(t, Request(t, IF tab[t].editing = NoAgent THEN "create" ELSE "edit", tab[t].editing))
  /\ UNCHANGED <<stored, poll, server, late, exported, started>>

\* The first press asks, the second removes.
AskRemove(t, r) ==
  /\ Button(t) /\ tab[t].token # NoToken /\ r \in tab[t].shown /\ ~r.on
  /\ tab[t].confirm # r.id
  /\ tab' = [tab EXCEPT ![t].confirm = r.id]
  /\ UNCHANGED <<stored, poll, server, late, exported, started>>

CancelRemove(t) ==
  /\ Button(t) /\ tab[t].token # NoToken /\ \E r \in tab[t].shown : r.id = tab[t].confirm
  /\ tab' = [tab EXCEPT ![t].confirm = NoAgent]
  /\ UNCHANGED <<stored, poll, server, late, exported, started>>

Remove(t, r) ==
  /\ Button(t) /\ tab[t].token # NoToken /\ r \in tab[t].shown /\ ~r.on
  /\ tab[t].confirm = r.id
  /\ Begin(t, [Request(t, "remove", r.id) EXCEPT !.editing = tab[t].editing])
  /\ UNCHANGED <<stored, poll, server, late, exported, started>>

-----------------------------------------------------------------------------
\* What follows an answer. (The list read again at the end changes nothing here.)

Answered(t, kinds) == tab[t].op.kind \in kinds /\ tab[t].op.phase = "ok"

AnswerRow(t) ==
  [id |-> tab[t].op.agent, owner |-> tab[t].op.did, on |-> tab[t].op.kind \in {"enable", "start"}]

Others(t) == { r \in tab[t].shown : r.id # tab[t].op.agent }

\* Mutant of Replaced: the answer's row is added.
ReplacedNot(t) == tab[t].shown \cup {AnswerRow(t)}

Replaced(t) == Others(t) \cup { AnswerRow(t) : r \in tab[t].shown \ Others(t) }

Toggled(t) ==
  /\ Answered(t, {"start", "pause"})
  /\ tab' = [tab EXCEPT ![t].shown = Replaced(t), ![t].op = Idle]
  /\ UNCHANGED <<stored, poll, server, late, exported, started, presses>>

Edited(t) ==
  /\ Answered(t, {"edit"})
  /\ tab' = [tab EXCEPT ![t].shown = Replaced(t), ![t].editing = NoAgent, ![t].setup = FALSE,
                        ![t].op = Idle]
  /\ UNCHANGED <<stored, poll, server, late, exported, started, presses>>

Removed(t) ==
  /\ Answered(t, {"remove"})
  /\ LET edited == tab[t].op.editing = tab[t].op.agent
     IN tab' = [tab EXCEPT ![t].shown = Others(t), ![t].confirm = NoAgent, ![t].op = Idle,
                           ![t].editing = IF edited THEN NoAgent ELSE @,
                           ![t].setup = IF edited THEN FALSE ELSE @]
  /\ UNCHANGED <<stored, poll, server, late, exported, started, presses>>

\* Mutant of Created: the agent is started before its vault is downloaded.
CreatedStarting(t) ==
  /\ Answered(t, {"create"})
  /\ tab' = [tab EXCEPT ![t].op.kind = "enable", ![t].op.phase = "sent"]
  /\ UNCHANGED <<stored, poll, server, late, exported, started, presses>>

\* The key came with the answer; its vault is made, downloaded, and the agent started.
Created(t) ==
  /\ Answered(t, {"create"})
  /\ tab' = [tab EXCEPT ![t].op.kind = "export", ![t].op.phase = "local"]
  /\ UNCHANGED <<stored, poll, server, late, exported, started, presses>>

Export(t) ==
  /\ tab[t].op.kind = "export"
  /\ exported' = exported \cup {tab[t].op.agent}
  /\ tab' = [tab EXCEPT ![t].op.kind = "enable", ![t].op.phase = "sent"]
  /\ UNCHANGED <<stored, poll, server, late, started, presses>>

\* The row is added, also when the session it belongs to was dropped meanwhile: stray.
Enabled(t) ==
  /\ Answered(t, {"enable"})
  /\ tab' = [tab EXCEPT ![t].shown = {AnswerRow(t)} \cup Others(t), ![t].setup = FALSE,
           ![t].stray = IF tab[t].token = tab[t].op.token THEN @ ELSE @ \cup {tab[t].op.agent},
           ![t].op = Idle]
  /\ UNCHANGED <<stored, poll, server, late, exported, started, presses>>

\* Turned down, given up after the timeout, or a local step failed.
Fails(t) ==
  /\ tab[t].op.kind \notin {"idle", "load"}
  /\ Begin(t, Idle)
  /\ late' = late \cup { op \in {tab[t].op} : op.phase = "sent" }
  /\ UNCHANGED <<stored, poll, server, exported, started, presses>>

-----------------------------------------------------------------------------
\* NetworkControls.save, which has a busy flag of its own.

BeginSave(t, r) ==
  /\ Press /\ ~Modal(t) /\ tab[t].token # NoToken /\ r \in tab[t].shown
  /\ tab[t].save.token = NoToken
  /\ tab' = [tab EXCEPT ![t].save = [agent |-> r.id, token |-> tab[t].token]]
  /\ UNCHANGED <<stored, poll, server, late, exported, started>>

\* onUpdate() loads the agents with the session the dialog was opened under.
EndSave(t) ==
  /\ tab[t].save.token # NoToken
  /\ \/ UNCHANGED poll
     \/ \E k \in Polls :
          /\ poll[t][k].phase = "none"
          /\ poll' = [poll EXCEPT ![t][k] =
                [NoPoll EXCEPT !.phase = "asked", !.token = tab[t].save.token]]
  /\ tab' = [tab EXCEPT ![t].save = [agent |-> NoAgent, token |-> NoToken]]
  /\ UNCHANGED <<stored, server, late, exported, started, presses>>

-----------------------------------------------------------------------------

Owner(t) ==
  \/ \E did \in Dids : BeginVault(t, did)
  \/ BeginUnlock(t) \/ BeginConnect(t) \/ Disconnect(t) \/ Reload(t)
  \/ OpenNew(t) \/ CloseSetup(t) \/ Submit(t) \/ CancelRemove(t)
  \/ \E r \in tab[t].shown :
       Toggle(t, r) \/ OpenEdit(t, r) \/ AskRemove(t, r) \/ Remove(t, r) \/ BeginSave(t, r)

Tab(t) ==
  \/ EndVault(t) \/ EndUnlock(t) \/ Connected(t) \/ Toggled(t) \/ Edited(t) \/ Removed(t)
  \/ Created(t) \/ Export(t) \/ Enabled(t) \/ Fails(t) \/ EndSave(t)
  \/ \E k \in Polls \cup {0} : StartPoll(t, k) \/ Loaded(t, k) \/ PollFails(t, k)

Api ==
  \/ \E t \in Tabs : Serve(t) \/ \E k \in Polls \cup {0} : ServePoll(t, k)
  \/ \E req \in late : ServeLate(req)
  \/ \E k \in Tokens : Expire(k)
  \/ Elsewhere

Next == Api \/ \E t \in Tabs : Owner(t) \/ Tab(t)

Spec == Init /\ [][Next]_vars

\* A request is answered or given up, a local step ends; the list is asked for again
\* and again, and the API answers again and again.
Fairness ==
  /\ \A t \in Tabs :
       /\ WF_vars(Fails(t)) /\ WF_vars(EndSave(t))
       /\ \A k \in Polls \cup {0} :
            /\ WF_vars(StartPoll(t, k)) /\ WF_vars(PollFails(t, k))
            /\ SF_vars(ServePoll(t, k)) /\ WF_vars(Loaded(t, k))
  /\ WF_vars(\E req \in late : ServeLate(req))

FairSpec == Spec /\ Fairness

-----------------------------------------------------------------------------

\* The agents listed under a session are its owner's: not those of a session that
\* ended, of an answer that came late or of another tab's owner, although lists,
\* presses, logins and a change of the vault cross each other. Not so an agent whose
\* creation ended after its session was dropped: it stays on the page until a list comes.
ShownAreMine ==
  \A t \in Tabs : \A r \in tab[t].shown :
    tab[t].token # NoToken /\ r.id \notin tab[t].stray => sess[tab[t].token] \in {r.owner, "ended"}

\* No agent runs whose recovery key the owner was never given, unless the owner
\* pressed START AGENT: an agent whose creation stopped half way stays paused.
RunsWithRecovery ==
  \A r \in served : r.on => r.id \in exported \cup started

Settled(t) ==
  LET did == Session(tab[t].token)
  IN did # None => did = stored /\ tab[t].shown = OwnedBy(did)

\* Once owners rest, a tab whose session lives comes to show what the API holds for
\* the stored vault's owner, whatever was lost, late, given up or changed elsewhere.
ViewSettles == \A t \in Tabs : <>[]Settled(t)
=============================================================================
