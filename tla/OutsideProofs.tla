---------------------------- MODULE OutsideProofs ----------------------------
(***************************************************************************)
(* Theorems about the two programs outside the runtime's process, the      *)
(* owner's page (OwnerConsole) and the updater (Updater), for any tabs,    *)
(* owners, list requests and runs of the script, and any bounds. They      *)
(* share no state; each has its own inductive invariant, ConsoleInv and    *)
(* UpdaterInv, and its own specification.                                  *)
(***************************************************************************)
EXTENDS OwnerConsole, Updater, FiniteSetTheorems, TLAPS

-----------------------------------------------------------------------------
\* OwnerConsole: the records and how its parts hang together.

Ops ==
  [kind : {"idle"} \cup LocalKinds \cup RemoteKinds, phase : {"local", "sent", "ok", "bad"},
   agent : AgentIds \cup {NoAgent}, editing : AgentIds \cup {NoAgent},
   token : Tokens \cup {NoToken}, did : Dids \cup {None}]

Saves == [agent : AgentIds \cup {NoAgent}, token : Tokens \cup {NoToken}]

TabStates ==
  [vault : Dids \cup {None}, identity : Dids \cup {None}, token : Tokens \cup {NoToken},
   shown : SUBSET Row, setup : BOOLEAN,
   editing : AgentIds \cup {NoAgent}, confirm : AgentIds \cup {NoAgent}, op : Ops,
   save : Saves,
   stray : SUBSET AgentIds]

PollStates ==
  [phase : {"none", "asked", "answered"}, token : Tokens \cup {NoToken},
   owner : Dids \cup {None}, rows : SUBSET Row]

ConsoleTypes ==
  /\ stored \in Dids \cup {None}
  /\ tab \in [Tabs -> TabStates]
  /\ poll \in [Tabs -> [Polls \cup {0} -> PollStates]]
  /\ served \in SUBSET Row /\ minted \in 0 .. MaxAgents
  /\ sess \in [Tokens -> Dids \cup {"unused", "ended"}]
  /\ late \in SUBSET Ops
  /\ exported \in SUBSET AgentIds /\ started \in SUBSET AgentIds
  /\ presses \in 0 .. MaxPresses

OneRowEach(rows) == \A r, s \in rows : r.id = s.id => r = s

\* A request, in a tab or left behind, that may start an agent is one whose recovery
\* vault is out or whose START was pressed; one that logs in has an identity.
Asks(op) ==
  /\ op.kind = "enable" => op.agent \in exported
  /\ op.kind = "start" => op.agent \in started
  /\ op.kind = "login" /\ op.phase = "sent" => op.did \in Dids

AgentKinds == {"create", "enable", "start", "pause", "edit", "remove"}

\* What a tab is busy with: an answer names the session that asked, and an agent.
Works(op) ==
  /\ op.phase = "local" <=> op.kind \in {"idle"} \cup LocalKinds
  /\ op.kind # "logout"
  /\ op.kind = "vault" => op.did \in Dids
  /\ op.kind = "export" => op.agent \in AgentIds
  /\ op.phase = "ok" =>
       /\ op.did \in Dids /\ op.token \in Tokens /\ sess[op.token] \in {op.did, "ended"}
       /\ op.kind \in AgentKinds => op.agent \in AgentIds

\* What a tab shows is its session's, or stray; a login has no session yet.
Shows(s) ==
  /\ OneRowEach(s.shown)
  /\ s.token = NoToken => \A r \in s.shown : r.id \in s.stray
  /\ s.token # NoToken =>
       \A r \in s.shown : r.id \notin s.stray => sess[s.token] \in {r.owner, "ended"}
  /\ s.op.kind = "login" => s.token = NoToken

\* A list that was answered is its session's owner's.
Lists(p) ==
  /\ OneRowEach(p.rows)
  /\ p.phase = "answered" /\ p.owner # None =>
       /\ p.owner \in Dids /\ p.token \in Tokens /\ sess[p.token] \in {p.owner, "ended"}
       /\ \A r \in p.rows : r.owner = p.owner

\* Wherever an agent is seen it has the same owner, and it was created.
RowsOf(f, rows) == \A r \in rows : r.id <= minted /\ r.owner = f[r.id]

AnswerOf(f, op) ==
  op.phase = "ok" /\ op.kind \in AgentKinds => op.agent <= minted /\ op.did = f[op.agent]

Owners(f) ==
  /\ RowsOf(f, served)
  /\ \A t \in Tabs :
       /\ RowsOf(f, tab[t].shown) /\ AnswerOf(f, tab[t].op)
       /\ \A k \in Polls \cup {0} : RowsOf(f, poll[t][k].rows)

\* Tokens are given out in order.
SessionsInOrder == \E n \in 0 .. MaxTokens : \A k \in Tokens : sess[k] # "unused" <=> k <= n

\* The inductive invariant.
ConsoleInv ==
  /\ ConsoleTypes
  /\ OneRowEach(served) /\ RunsWithRecovery
  /\ \A req \in late : Asks(req) /\ req.phase = "sent"
  /\ \A t \in Tabs :
       /\ Asks(tab[t].op) /\ Works(tab[t].op) /\ Shows(tab[t])
       /\ \A k \in Polls \cup {0} : Lists(poll[t][k])
  /\ \E f \in [AgentIds -> Dids \cup {None}] : Owners(f)
  /\ SessionsInOrder

\* What follows from the bounds of ids.
LEMMA Ids ==
  /\ AgentIds \subseteq Nat /\ 1 \in AgentIds /\ NoAgent \notin AgentIds
  /\ Tokens \subseteq Nat /\ 1 \in Tokens /\ NoToken \notin Tokens
  /\ \A i \in AgentIds : i <= MaxAgents
  /\ \A k \in Tokens : 1 <= k /\ k <= MaxTokens
  BY ConsoleAssumption DEF AgentIds, Tokens, NoAgent, NoToken

\* A session is opened for a token never used before, and once open can only end.
SessionsKept == \A k \in Tokens : sess[k] # "unused" => sess'[k] \in {sess[k], "ended"}

LEMMA WorksKept ==
  ASSUME SessionsKept, NEW op, Works(op)
  PROVE  Works(op)'
<1>1. op.phase = "ok" => sess'[op.token] \in {op.did, "ended"}
  BY ConsoleAssumption DEF Works, SessionsKept
<1> QED BY <1>1 DEF Works

LEMMA ShowsKept ==
  ASSUME SessionsKept, NEW s \in TabStates, Shows(s)
  PROVE  Shows(s)'
<1>1. ASSUME s.token # NoToken, NEW r \in s.shown, r.id \notin s.stray
      PROVE  sess'[s.token] \in {r.owner, "ended"}
  <2>1. s.token \in Tokens /\ r.owner \in Dids
    BY <1>1 DEF TabStates, Row
  <2>2. sess[s.token] \in {r.owner, "ended"}
    BY <1>1 DEF Shows
  <2> QED BY <2>1, <2>2, ConsoleAssumption DEF SessionsKept
<1> QED BY <1>1 DEF Shows

LEMMA ListsKept ==
  ASSUME SessionsKept, NEW p, Lists(p)
  PROVE  Lists(p)'
<1>1. p.phase = "answered" /\ p.owner # None => sess'[p.token] \in {p.owner, "ended"}
  BY ConsoleAssumption DEF Lists, SessionsKept
<1> QED BY <1>1 DEF Lists

LEMMA Pressed == ConsoleTypes /\ Press => presses' \in 0 .. MaxPresses
  BY ConsoleAssumption DEF ConsoleTypes, Press

LEMMA ConsoleInitially == Init => ConsoleInv
<1> SUFFICES ASSUME Init PROVE ConsoleInv
  OBVIOUS
<1>1. PICK open \in [Tabs -> {NoToken, 1}], owner \in Dids :
        /\ stored = None => \A t \in Tabs : open[t] = NoToken
        /\ tab = [t \in Tabs |-> Fresh(stored, open[t])]
        /\ sess = [k \in Tokens |-> IF \E t \in Tabs : open[t] = k THEN owner ELSE "unused"]
  BY DEF Init
<1>2. /\ poll = [t \in Tabs |-> [k \in Polls \cup {0} |-> NoPoll]]
      /\ late = {} /\ started = {} /\ presses = 0 /\ exported = { r.id : r \in served }
      /\ stored \in Dids \cup {None}
  BY DEF Init
<1>3. /\ served \in SUBSET Row /\ OneRowEach(served)
      /\ minted \in 0 .. MaxAgents
      /\ \A r \in served : r.id <= minted /\ r.owner = stored
  <2>1. CASE served = {}
    <3>1. minted = 0
      BY <2>1, FS_EmptySet DEF Init
    <3> QED BY <2>1, <3>1, ConsoleAssumption DEF OneRowEach
  <2>2. CASE served # {}
    <3>1. PICK r \in [id : {1}, owner : Dids \cap {stored}, on : BOOLEAN] : served = {r}
      BY <2>2 DEF Init
    <3>2. minted = 1
      BY <3>1, FS_Singleton DEF Init
    <3>3. r \in Row /\ r.id = 1 /\ r.owner = stored
      BY <3>1, Ids DEF Row
    <3> QED BY <3>1, <3>2, <3>3, ConsoleAssumption DEF OneRowEach
  <2> QED BY <2>1, <2>2
<1>4. \A k \in {NoToken, 1} : Fresh(stored, k) \in TabStates
  BY <1>2, Ids DEF Fresh, TabStates, Saves, Idle, Ops, NoAgent, NoToken
<1>5. NoPoll \in PollStates
  BY DEF NoPoll, PollStates
<1>6. exported \in SUBSET AgentIds
  BY <1>2, <1>3 DEF Row
<1>7. ConsoleTypes
  <2>1. tab \in [Tabs -> TabStates]
    BY <1>1, <1>4
  <2>2. poll \in [Tabs -> [Polls \cup {0} -> PollStates]]
    BY <1>2, <1>5
  <2>3. sess \in [Tokens -> Dids \cup {"unused", "ended"}]
    BY <1>1
  <2> QED BY <1>2, <1>3, <1>6, <2>1, <2>2, <2>3, ConsoleAssumption DEF ConsoleTypes
<1>8. RunsWithRecovery
  BY <1>2 DEF RunsWithRecovery
<1>9. ASSUME NEW t \in Tabs
      PROVE  /\ tab[t].shown = {} /\ tab[t].op = Idle
             /\ Asks(tab[t].op) /\ Works(tab[t].op) /\ Shows(tab[t])
  <2>1. tab[t] = Fresh(stored, open[t])
    BY <1>1
  <2>2. tab[t].shown = {} /\ tab[t].op = Idle
    BY <2>1 DEF Fresh
  <2>3. Asks(Idle) /\ Works(Idle)
    BY DEF Asks, Works, Idle, LocalKinds
  <2>4. Shows(tab[t])
    BY <2>2 DEF Shows, OneRowEach, Idle
  <2> QED BY <2>2, <2>3, <2>4
<1>10. ASSUME NEW t \in Tabs, NEW k \in Polls \cup {0}
       PROVE  Lists(poll[t][k]) /\ poll[t][k].rows = {}
  BY <1>2 DEF Lists, OneRowEach, NoPoll
<1>11. \E f \in [AgentIds -> Dids \cup {None}] : Owners(f)
  <2>1. [i \in AgentIds |-> stored] \in [AgentIds -> Dids \cup {None}]
    BY <1>2
  <2>2. \A r \in served : r.id \in AgentIds
    BY <1>3 DEF Row
  <2>3. \A t \in Tabs : tab[t].shown = {} /\ tab[t].op.phase # "ok"
    BY <1>9 DEF Idle
  <2>4. Owners([i \in AgentIds |-> stored])
    BY <1>3, <1>10, <2>2, <2>3 DEF Owners, RowsOf, AnswerOf
  <2> QED BY <2>1, <2>4
<1>12. SessionsInOrder
  <2>1. \A k \in Tokens : sess[k] # "unused" <=> \E t \in Tabs : open[t] = k
    BY <1>1, ConsoleAssumption
  <2>2. \A t \in Tabs : open[t] \in {NoToken, 1}
    BY <1>1
  <2>3. CASE \E t \in Tabs : open[t] = 1
    <3>1. \A k \in Tokens : sess[k] # "unused" <=> k <= 1
      BY <2>1, <2>2, <2>3, Ids
    <3> QED BY <3>1, ConsoleAssumption DEF SessionsInOrder
  <2>4. CASE ~\E t \in Tabs : open[t] = 1
    <3>1. \A k \in Tokens : sess[k] # "unused" <=> k <= 0
      BY <2>1, <2>2, <2>4, Ids
    <3> QED BY <3>1, ConsoleAssumption DEF SessionsInOrder
  <2> QED BY <2>3, <2>4
<1> QED BY <1>2, <1>3, <1>7, <1>8, <1>9, <1>10, <1>11, <1>12 DEF ConsoleInv

-----------------------------------------------------------------------------
\* OwnerConsole: steps of a tab.

\* A list of the tab's that is neither as it was nor asked for anew is none.
Unanswered(p) == p.phase # "answered" /\ p.rows = {}

\* A step of one tab, which writes its own state, lists not yet answered, and requests
\* that it leaves behind, is right if what it writes is.
LEMMA TabStep ==
  ASSUME ConsoleInv, NEW t \in Tabs, NEW s \in TabStates,
         tab' \in [Tabs -> TabStates], tab'[t] = s, \A u \in Tabs : u # t => tab'[u] = tab[u],
         poll' \in [Tabs -> [Polls \cup {0} -> PollStates]],
         \A u \in Tabs : u # t => poll'[u] = poll[u],
         \A k \in Polls \cup {0} : poll'[t][k] = poll[t][k] \/ Unanswered(poll'[t][k]),
         UNCHANGED server, stored' \in Dids \cup {None}, presses' \in 0 .. MaxPresses,
         exported \subseteq exported', exported' \subseteq AgentIds,
         started \subseteq started', started' \subseteq AgentIds,
         late' \subseteq Ops,
         \A req \in late' : req \in late \/ (Asks(req) /\ req.phase = "sent"),
         Asks(s.op)', Works(s.op), Shows(s),
         \A f \in [AgentIds -> Dids \cup {None}] :
           Owners(f) => RowsOf(f, s.shown) /\ AnswerOf(f, s.op)
  PROVE  ConsoleInv'
<1>1. UNCHANGED <<served, minted, sess>>
  BY DEF server
<1>2. ConsoleTypes'
  BY <1>1 DEF ConsoleInv, ConsoleTypes
<1>3. \A op : Asks(op) => Asks(op)'
  BY DEF Asks
<1>4. \A op : (Works(op)' <=> Works(op)) /\ \A f : AnswerOf(f, op)' <=> AnswerOf(f, op)
  BY <1>1 DEF Works, AnswerOf
<1>5. \A p : (Lists(p)' <=> Lists(p)) /\ (Shows(p)' <=> Shows(p))
  BY <1>1 DEF Lists, Shows
<1>6. \A f, rows : RowsOf(f, rows)' <=> RowsOf(f, rows)
  BY <1>1 DEF RowsOf
<1>7. (\A req \in late : Asks(req) /\ req.phase = "sent")'
  BY <1>3 DEF ConsoleInv
<1>8. ASSUME NEW u \in Tabs
      PROVE  (/\ Asks(tab[u].op) /\ Works(tab[u].op) /\ Shows(tab[u])
              /\ \A k \in Polls \cup {0} : Lists(poll[u][k]))'
  <2>1. CASE u # t
    BY <1>3, <1>4, <1>5, <2>1 DEF ConsoleInv
  <2>2. CASE u = t
    <3>1. ASSUME NEW k \in Polls \cup {0} PROVE Lists(poll[t][k])'
      <4>1. CASE poll'[t][k] = poll[t][k]
        BY <1>5, <4>1 DEF ConsoleInv
      <4>2. CASE Unanswered(poll'[t][k])
        BY <4>2 DEF Unanswered, Lists, OneRowEach
      <4> QED BY <4>1, <4>2
    <3> QED BY <1>4, <1>5, <2>2, <3>1
  <2> QED BY <2>1, <2>2
<1>9. (\E f \in [AgentIds -> Dids \cup {None}] : Owners(f))'
  <2>1. PICK f \in [AgentIds -> Dids \cup {None}] : Owners(f)
    BY DEF ConsoleInv
  <2>2. RowsOf(f, served)'
    BY <1>1, <2>1 DEF Owners, RowsOf
  <2>3. ASSUME NEW u \in Tabs
        PROVE  (RowsOf(f, tab[u].shown) /\ AnswerOf(f, tab[u].op))'
    <3>1. CASE u # t
      BY <1>4, <1>6, <2>1, <3>1 DEF Owners
    <3>2. CASE u = t
      BY <1>4, <1>6, <2>1, <3>2
    <3> QED BY <3>1, <3>2
  <2>4. ASSUME NEW u \in Tabs, NEW k \in Polls \cup {0} PROVE RowsOf(f, poll[u][k].rows)'
    <3>1. CASE poll'[u][k] = poll[u][k]
      BY <1>6, <2>1, <3>1 DEF Owners
    <3>2. CASE u = t /\ Unanswered(poll'[t][k])
      BY <3>2 DEF Unanswered, RowsOf
    <3> QED BY <3>1, <3>2
  <2> QED BY <2>1, <2>2, <2>3, <2>4 DEF Owners
<1>10. OneRowEach(served)' /\ SessionsInOrder'
  BY <1>1 DEF ConsoleInv, OneRowEach, SessionsInOrder
<1>11. RunsWithRecovery'
  BY <1>1 DEF ConsoleInv, RunsWithRecovery
<1> QED BY <1>2, <1>7, <1>8, <1>9, <1>10, <1>11 DEF ConsoleInv

\* The list, the session and the strays stay, and nothing is answered.
LEMMA PageKept ==
  ASSUME ConsoleInv, NEW t \in Tabs, NEW s \in TabStates,
         tab' \in [Tabs -> TabStates], tab'[t] = s, \A u \in Tabs : u # t => tab'[u] = tab[u],
         UNCHANGED <<stored, poll, server>>, presses' \in 0 .. MaxPresses,
         exported \subseteq exported', exported' \subseteq AgentIds,
         started \subseteq started', started' \subseteq AgentIds,
         late' \subseteq Ops,
         \A req \in late' : req \in late \/ (Asks(req) /\ req.phase = "sent"),
         s.shown = tab[t].shown, s.token = tab[t].token, s.stray = tab[t].stray,
         Asks(s.op)', Works(s.op), s.op.phase # "ok" \/ s.op = tab[t].op,
         s.op.kind = "login" => s.token = NoToken
  PROVE  ConsoleInv'
<1>1. poll \in [Tabs -> [Polls \cup {0} -> PollStates]] /\ stored \in Dids \cup {None}
  BY DEF ConsoleInv, ConsoleTypes
<1>2. Shows(s)
  <2>1. Shows(tab[t])
    BY DEF ConsoleInv
  <2> QED BY <2>1 DEF Shows
<1>3. \A f \in [AgentIds -> Dids \cup {None}] : Owners(f) => RowsOf(f, s.shown) /\ AnswerOf(f, s.op)
  BY DEF Owners, AnswerOf
<1> QED BY <1>1, <1>2, <1>3, TabStep

LEMMA BeginStep ==
  ASSUME ConsoleInv, NEW t \in Tabs, NEW op \in Ops, Begin(t, op),
         UNCHANGED <<stored, poll, server>>, presses' \in 0 .. MaxPresses,
         exported \subseteq exported', exported' \subseteq AgentIds,
         started \subseteq started', started' \subseteq AgentIds,
         late' \subseteq Ops,
         \A req \in late' : req \in late \/ (Asks(req) /\ req.phase = "sent"),
         Asks(op)', Works(op), op.phase # "ok", op.kind = "login" => tab[t].token = NoToken
  PROVE  ConsoleInv'
<1> DEFINE s == [tab[t] EXCEPT !.op = op]
<1>1. tab \in [Tabs -> TabStates]
  BY DEF ConsoleInv, ConsoleTypes
<1>2. s \in TabStates /\ s.op = op
  BY <1>1 DEF TabStates
<1>3. s.shown = tab[t].shown /\ s.token = tab[t].token /\ s.stray = tab[t].stray
  BY <1>1 DEF TabStates
<1>4. tab' \in [Tabs -> TabStates] /\ tab'[t] = s /\ \A u \in Tabs : u # t => tab'[u] = tab[u]
  BY <1>1, <1>2 DEF Begin
<1> HIDE DEF s
<1> QED BY <1>1, <1>2, <1>3, <1>4, PageKept

\* Operations as they are begun.
LEMMA LocalOpIs ==
  ASSUME NEW kind \in LocalKinds, NEW did \in Dids \cup {None}, kind = "vault" => did \in Dids,
         kind # "export"
  PROVE  LocalOp(kind, did) \in Ops /\ Works(LocalOp(kind, did)) /\ Asks(LocalOp(kind, did))'
         /\ LocalOp(kind, did).phase = "local" /\ LocalOp(kind, did).kind = kind
  BY DEF LocalOp, Idle, Ops, Works, Asks, LocalKinds, NoAgent, NoToken

LEMMA IdleIs == Idle \in Ops /\ Works(Idle) /\ Asks(Idle)' /\ Idle.phase = "local" /\ Idle.kind = "idle"
  BY DEF Idle, Ops, Works, Asks, LocalKinds, NoAgent, NoToken

LEMMA RequestIs ==
  ASSUME ConsoleInv, NEW t \in Tabs, NEW kind \in RemoteKinds \ {"logout"},
         NEW a \in AgentIds \cup {NoAgent}
  PROVE  LET op == Request(t, kind, a)
         IN /\ op \in Ops /\ Works(op) /\ op.phase = "sent" /\ op.kind = kind
            /\ op.agent = a /\ op.did = None /\ op.token = tab[t].token
<1>1. tab[t].token \in Tokens \cup {NoToken}
  BY DEF ConsoleInv, ConsoleTypes, TabStates
<1> QED BY <1>1 DEF Request, Idle, Ops, Works, LocalKinds, RemoteKinds, NoAgent, NoToken

LEMMA VaultBegins ==
  ASSUME ConsoleInv, NEW t \in Tabs, NEW did \in Dids, BeginVault(t, did) PROVE ConsoleInv'
<1>1. /\ Begin(t, LocalOp("vault", did)) /\ Press
      /\ UNCHANGED <<stored, poll, server, late, exported, started>>
  BY DEF BeginVault, Button
<1>2. ConsoleTypes
  BY DEF ConsoleInv
<1> QED BY <1>1, <1>2, LocalOpIs, BeginStep, Pressed DEF ConsoleTypes, LocalKinds

LEMMA UnlockBegins ==
  ASSUME ConsoleInv, NEW t \in Tabs, BeginUnlock(t) PROVE ConsoleInv'
<1>1. /\ Begin(t, LocalOp("unlock", tab[t].vault)) /\ Press
      /\ UNCHANGED <<stored, poll, server, late, exported, started>>
  BY DEF BeginUnlock, Button
<1>2. ConsoleTypes /\ tab[t].vault \in Dids \cup {None}
  BY DEF ConsoleInv, ConsoleTypes, TabStates
<1> QED BY <1>1, <1>2, LocalOpIs, BeginStep, Pressed DEF ConsoleTypes, LocalKinds

LEMMA ConnectBegins ==
  ASSUME ConsoleInv, NEW t \in Tabs, BeginConnect(t) PROVE ConsoleInv'
<1> DEFINE base == Request(t, "login", NoAgent)
<1>1. /\ Begin(t, [base EXCEPT !.did = tab[t].identity]) /\ Press
      /\ tab[t].identity # None /\ tab[t].token = NoToken
      /\ UNCHANGED <<stored, poll, server, late, exported, started>>
  BY DEF BeginConnect, Button
<1>2. ConsoleTypes /\ tab[t].identity \in Dids
  BY <1>1 DEF ConsoleInv, ConsoleTypes, TabStates
<1>3. base \in Ops /\ base.phase = "sent" /\ base.kind = "login"
  BY RequestIs DEF RemoteKinds
<1> HIDE DEF base
<1>4. PICK op \in Ops : /\ op = [base EXCEPT !.did = tab[t].identity]
                       /\ op.phase = "sent" /\ op.kind = "login" /\ op.did \in Dids
  <2> DEFINE login == [base EXCEPT !.did = tab[t].identity]
  <2>1. login \in Ops /\ login.phase = "sent" /\ login.kind = "login" /\ login.did \in Dids
    BY <1>2, <1>3 DEF Ops
  <2> QED BY <2>1
<1>5. Works(op) /\ Asks(op)'
  BY <1>4 DEF Works, Asks, LocalKinds
<1> QED BY <1>1, <1>2, <1>4, <1>5, BeginStep, Pressed DEF ConsoleTypes

\* Of a row that is shown, the id is an agent's.
LEMMA ShownRow ==
  ASSUME ConsoleInv, NEW t \in Tabs, NEW r \in tab[t].shown
  PROVE  r \in Row /\ r.id \in AgentIds
  BY DEF ConsoleInv, ConsoleTypes, TabStates, Row

LEMMA ToggleBegins ==
  ASSUME ConsoleInv, NEW t \in Tabs, NEW r \in tab[t].shown, Toggle(t, r) PROVE ConsoleInv'
<1>1. PICK kind \in {"pause", "start"} :
        /\ Begin(t, Request(t, kind, r.id)) /\ Press
        /\ kind = "start" => started' = started \cup {r.id}
        /\ kind = "pause" => started' = started
        /\ UNCHANGED <<stored, poll, server, late, exported>>
  BY DEF Toggle, Button
<1>2. ConsoleTypes /\ r.id \in AgentIds
  BY ShownRow DEF ConsoleInv
<1>3. kind \in RemoteKinds \ {"logout"}
  BY DEF RemoteKinds
<1>4. PICK op \in Ops : /\ op = Request(t, kind, r.id) /\ Works(op)
                       /\ op.phase = "sent" /\ op.kind = kind /\ op.agent = r.id
  BY <1>2, <1>3, RequestIs
<1>5. Asks(op)' /\ started \subseteq started' /\ started' \subseteq AgentIds
  BY <1>1, <1>2, <1>4 DEF Asks, ConsoleTypes
<1> QED BY <1>1, <1>2, <1>4, <1>5, BeginStep, Pressed DEF ConsoleTypes

LEMMA SubmitBegins ==
  ASSUME ConsoleInv, NEW t \in Tabs, Submit(t) PROVE ConsoleInv'
<1>1. PICK kind \in {"create", "edit"} :
        /\ Begin(t, Request(t, kind, tab[t].editing)) /\ Press
        /\ UNCHANGED <<stored, poll, server, late, exported, started>>
  BY DEF Submit
<1>2. ConsoleTypes /\ tab[t].editing \in AgentIds \cup {NoAgent}
  BY DEF ConsoleInv, ConsoleTypes, TabStates
<1>3. kind \in RemoteKinds \ {"logout"}
  BY DEF RemoteKinds
<1>4. PICK op \in Ops : /\ op = Request(t, kind, tab[t].editing) /\ Works(op)
                       /\ op.phase = "sent" /\ op.kind = kind
  BY <1>2, <1>3, RequestIs
<1>5. Asks(op)'
  BY <1>4 DEF Asks
<1> QED BY <1>1, <1>2, <1>4, <1>5, BeginStep, Pressed DEF ConsoleTypes

LEMMA RemoveBegins ==
  ASSUME ConsoleInv, NEW t \in Tabs, NEW r \in tab[t].shown, Remove(t, r) PROVE ConsoleInv'
<1> DEFINE base == Request(t, "remove", r.id)
<1>1. /\ Begin(t, [base EXCEPT !.editing = tab[t].editing]) /\ Press
      /\ UNCHANGED <<stored, poll, server, late, exported, started>>
  BY DEF Remove, Button
<1>2. ConsoleTypes /\ r.id \in AgentIds /\ tab[t].editing \in AgentIds \cup {NoAgent}
  BY ShownRow DEF ConsoleInv, ConsoleTypes, TabStates
<1>3. base \in Ops /\ base.phase = "sent" /\ base.kind = "remove"
  BY <1>2, RequestIs DEF RemoteKinds
<1> HIDE DEF base
<1>4. PICK op \in Ops : /\ op = [base EXCEPT !.editing = tab[t].editing]
                       /\ op.phase = "sent" /\ op.kind = "remove"
  <2> DEFINE removal == [base EXCEPT !.editing = tab[t].editing]
  <2>1. removal \in Ops /\ removal.phase = "sent" /\ removal.kind = "remove"
    BY <1>2, <1>3 DEF Ops
  <2> QED BY <2>1
<1>5. Works(op) /\ Asks(op)'
  BY <1>4 DEF Works, Asks, LocalKinds
<1> QED BY <1>1, <1>2, <1>4, <1>5, BeginStep, Pressed DEF ConsoleTypes

LEMMA FailsStep ==
  ASSUME ConsoleInv, NEW t \in Tabs, Fails(t) PROVE ConsoleInv'
<1>1. /\ Begin(t, Idle) /\ late' = late \cup { op \in {tab[t].op} : op.phase = "sent" }
      /\ UNCHANGED <<stored, poll, server, exported, started, presses>>
  BY DEF Fails
<1>2. ConsoleTypes /\ tab[t].op \in Ops /\ Asks(tab[t].op)
  BY DEF ConsoleInv, ConsoleTypes, TabStates
<1>3. late' \subseteq Ops /\ \A req \in late' : req \in late \/ (Asks(req) /\ req.phase = "sent")
  BY <1>1, <1>2 DEF ConsoleTypes
<1> QED BY <1>1, <1>2, <1>3, IdleIs, BeginStep DEF ConsoleTypes

\* The dialogs and confirmations of the page: nothing is asked for or answered.
LEMMA FlagsStep ==
  ASSUME ConsoleInv, NEW t \in Tabs, Press,
         tab' \in [Tabs -> TabStates], \A u \in Tabs : u # t => tab'[u] = tab[u],
         tab'[t].shown = tab[t].shown, tab'[t].token = tab[t].token,
         tab'[t].stray = tab[t].stray, tab'[t].op = tab[t].op,
         UNCHANGED <<stored, poll, server, late, exported, started>>
  PROVE  ConsoleInv'
<1>1. ConsoleTypes /\ Asks(tab[t].op) /\ Works(tab[t].op) /\ Shows(tab[t])
  BY DEF ConsoleInv
<1>2. PICK s \in TabStates : s = tab'[t]
  OBVIOUS
<1>3. s.op = tab[t].op /\ s.shown = tab[t].shown /\ s.token = tab[t].token /\ s.stray = tab[t].stray
  BY <1>2
<1>4. Asks(s.op)' /\ Works(s.op) /\ (s.op.kind = "login" => s.token = NoToken)
  BY <1>1, <1>3 DEF Asks, Shows
<1> QED BY <1>1, <1>2, <1>3, <1>4, PageKept, Pressed DEF ConsoleTypes

LEMMA NewOpens ==
  ASSUME ConsoleInv, NEW t \in Tabs, OpenNew(t) PROVE ConsoleInv'
<1>1. tab \in [Tabs -> TabStates]
  BY DEF ConsoleInv, ConsoleTypes
<1>2. /\ Press /\ UNCHANGED <<stored, poll, server, late, exported, started>>
      /\ tab' = [tab EXCEPT ![t].editing = NoAgent, ![t].confirm = NoAgent, ![t].setup = TRUE]
  BY DEF OpenNew
<1> DEFINE s == [tab[t] EXCEPT !.editing = NoAgent, !.confirm = NoAgent, !.setup = TRUE]
<1>3. /\ tab'[t] = s /\ DOMAIN tab' = Tabs /\ \A u \in Tabs : u # t => tab'[u] = tab[u]
      /\ s.shown = tab[t].shown /\ s.token = tab[t].token
      /\ s.stray = tab[t].stray /\ s.op = tab[t].op
  BY <1>1, <1>2 DEF TabStates
<1>4. tab[t] \in TabStates
  BY <1>1
<1>5. s \in TabStates
  BY <1>1, <1>4 DEF TabStates
<1> HIDE DEF s
<1>6. tab' \in [Tabs -> TabStates]
  <2>1. tab' = [u \in Tabs |-> tab'[u]]
    BY <1>1, <1>2
  <2> QED BY <1>1, <1>3, <1>5, <2>1
<1> QED BY <1>2, <1>3, <1>6, FlagsStep

LEMMA EditOpens ==
  ASSUME ConsoleInv, NEW t \in Tabs, NEW r \in tab[t].shown, OpenEdit(t, r) PROVE ConsoleInv'
<1>1. tab \in [Tabs -> TabStates] /\ r.id \in AgentIds
  BY ShownRow DEF ConsoleInv, ConsoleTypes
<1>2. /\ Press /\ UNCHANGED <<stored, poll, server, late, exported, started>>
      /\ tab' = [tab EXCEPT ![t].editing = r.id, ![t].confirm = NoAgent, ![t].setup = TRUE]
  BY DEF OpenEdit, Button
<1> DEFINE s == [tab[t] EXCEPT !.editing = r.id, !.confirm = NoAgent, !.setup = TRUE]
<1>3. /\ tab'[t] = s /\ DOMAIN tab' = Tabs /\ \A u \in Tabs : u # t => tab'[u] = tab[u]
      /\ s.shown = tab[t].shown /\ s.token = tab[t].token
      /\ s.stray = tab[t].stray /\ s.op = tab[t].op
  BY <1>1, <1>2 DEF TabStates
<1>4. tab[t] \in TabStates
  BY <1>1
<1>5. s \in TabStates
  BY <1>1, <1>4 DEF TabStates
<1> HIDE DEF s
<1>6. tab' \in [Tabs -> TabStates]
  <2>1. tab' = [u \in Tabs |-> tab'[u]]
    BY <1>1, <1>2
  <2> QED BY <1>1, <1>3, <1>5, <2>1
<1> QED BY <1>2, <1>3, <1>6, FlagsStep

LEMMA SetupCloses ==
  ASSUME ConsoleInv, NEW t \in Tabs, CloseSetup(t) PROVE ConsoleInv'
<1>1. tab \in [Tabs -> TabStates]
  BY DEF ConsoleInv, ConsoleTypes
<1>2. /\ Press /\ UNCHANGED <<stored, poll, server, late, exported, started>>
      /\ tab' = [tab EXCEPT ![t].setup = FALSE]
  BY DEF CloseSetup
<1>3. /\ tab' \in [Tabs -> TabStates] /\ \A u \in Tabs : u # t => tab'[u] = tab[u]
      /\ tab'[t].shown = tab[t].shown /\ tab'[t].token = tab[t].token
      /\ tab'[t].stray = tab[t].stray /\ tab'[t].op = tab[t].op
  BY <1>1, <1>2 DEF TabStates
<1> QED BY <1>2, <1>3, FlagsStep

LEMMA RemovalAsked ==
  ASSUME ConsoleInv, NEW t \in Tabs, NEW r \in tab[t].shown, AskRemove(t, r) PROVE ConsoleInv'
<1>1. tab \in [Tabs -> TabStates] /\ r.id \in AgentIds
  BY ShownRow DEF ConsoleInv, ConsoleTypes
<1>2. /\ Press /\ UNCHANGED <<stored, poll, server, late, exported, started>>
      /\ tab' = [tab EXCEPT ![t].confirm = r.id]
  BY DEF AskRemove, Button
<1>3. /\ tab' \in [Tabs -> TabStates] /\ \A u \in Tabs : u # t => tab'[u] = tab[u]
      /\ tab'[t].shown = tab[t].shown /\ tab'[t].token = tab[t].token
      /\ tab'[t].stray = tab[t].stray /\ tab'[t].op = tab[t].op
  BY <1>1, <1>2 DEF TabStates
<1> QED BY <1>2, <1>3, FlagsStep

LEMMA RemovalCancelled ==
  ASSUME ConsoleInv, NEW t \in Tabs, CancelRemove(t) PROVE ConsoleInv'
<1>1. tab \in [Tabs -> TabStates]
  BY DEF ConsoleInv, ConsoleTypes
<1>2. /\ Press /\ UNCHANGED <<stored, poll, server, late, exported, started>>
      /\ tab' = [tab EXCEPT ![t].confirm = NoAgent]
  BY DEF CancelRemove, Button
<1>3. /\ tab' \in [Tabs -> TabStates] /\ \A u \in Tabs : u # t => tab'[u] = tab[u]
      /\ tab'[t].shown = tab[t].shown /\ tab'[t].token = tab[t].token
      /\ tab'[t].stray = tab[t].stray /\ tab'[t].op = tab[t].op
  BY <1>1, <1>2 DEF TabStates
<1> QED BY <1>2, <1>3, FlagsStep

LEMMA SaveBegins ==
  ASSUME ConsoleInv, NEW t \in Tabs, NEW r \in tab[t].shown, BeginSave(t, r) PROVE ConsoleInv'
<1>1. tab \in [Tabs -> TabStates] /\ r.id \in AgentIds
  BY ShownRow DEF ConsoleInv, ConsoleTypes
<1>2. /\ Press /\ UNCHANGED <<stored, poll, server, late, exported, started>>
      /\ tab' = [tab EXCEPT ![t].save = [agent |-> r.id, token |-> tab[t].token]]
  BY DEF BeginSave
<1>3. /\ tab' \in [Tabs -> TabStates] /\ \A u \in Tabs : u # t => tab'[u] = tab[u]
      /\ tab'[t].shown = tab[t].shown /\ tab'[t].token = tab[t].token
      /\ tab'[t].stray = tab[t].stray /\ tab'[t].op = tab[t].op
  BY <1>1, <1>2 DEF TabStates, Saves
<1> QED BY <1>2, <1>3, FlagsStep

-----------------------------------------------------------------------------
\* OwnerConsole: steps that change what a tab shows, asks for or is logged in with.

LEMMA OneTab ==
  ASSUME ConsoleInv, NEW t \in Tabs, NEW s \in TabStates, tab' = [tab EXCEPT ![t] = s]
  PROVE  tab' \in [Tabs -> TabStates] /\ tab'[t] = s /\ \A u \in Tabs : u # t => tab'[u] = tab[u]
  BY DEF ConsoleInv, ConsoleTypes

LEMMA AsksKept ==
  ASSUME NEW op, Asks(op), exported \subseteq exported', started \subseteq started'
  PROVE  Asks(op)'
  BY DEF Asks

\* A list of a tab's that is asked for, or that nobody waits for any more.
LEMMA Asked ==
  ASSUME NEW k \in Tokens
  PROVE  /\ NoPoll \in PollStates /\ Unanswered(NoPoll)
         /\ [NoPoll EXCEPT !.phase = "asked", !.token = k] \in PollStates
         /\ Unanswered([NoPoll EXCEPT !.phase = "asked", !.token = k])
  BY DEF NoPoll, PollStates, Unanswered

LEMMA OnePoll ==
  ASSUME ConsoleInv, NEW t \in Tabs, NEW k \in Polls \cup {0}, NEW p \in PollStates, Unanswered(p),
         poll' = [poll EXCEPT ![t][k] = p]
  PROVE  /\ poll' \in [Tabs -> [Polls \cup {0} -> PollStates]]
         /\ \A u \in Tabs : u # t => poll'[u] = poll[u]
         /\ \A j \in Polls \cup {0} : poll'[t][j] = poll[t][j] \/ Unanswered(poll'[t][j])
<1>1. poll \in [Tabs -> [Polls \cup {0} -> PollStates]]
  BY DEF ConsoleInv, ConsoleTypes
<1>2. \A j \in Polls \cup {0} : poll'[t][j] = poll[t][j] \/ poll'[t][j] = p
  BY <1>1
<1> QED BY <1>1, <1>2

LEMMA UnlockEnds ==
  ASSUME ConsoleInv, NEW t \in Tabs, EndUnlock(t) PROVE ConsoleInv'
<1> DEFINE s == [tab[t] EXCEPT !.identity = tab[t].op.did, !.op = Idle]
<1>1. tab \in [Tabs -> TabStates] /\ tab[t] \in TabStates /\ ConsoleTypes
  BY DEF ConsoleInv, ConsoleTypes
<1>2. /\ tab' = [tab EXCEPT ![t] = s]
      /\ UNCHANGED <<stored, poll, server, late, exported, started, presses>>
  BY <1>1 DEF EndUnlock
<1>3. tab[t].op.did \in Dids \cup {None}
  BY <1>1 DEF TabStates, Ops
<1>4. s \in TabStates /\ s.op = Idle
  BY <1>1, <1>3, IdleIs DEF TabStates
<1>5. s.shown = tab[t].shown /\ s.token = tab[t].token /\ s.stray = tab[t].stray
  BY <1>1 DEF TabStates
<1> HIDE DEF s
<1> QED BY <1>1, <1>2, <1>4, <1>5, IdleIs, OneTab, PageKept DEF ConsoleTypes

\* An operation that goes on, for the same agent and session, as another kind.
LEMMA GoesOn ==
  ASSUME ConsoleInv, NEW t \in Tabs, NEW kind \in {"export", "enable"}, NEW phase \in {"local", "sent"},
         tab' = [tab EXCEPT ![t].op.kind = kind, ![t].op.phase = phase]
  PROVE  LET op == [tab[t].op EXCEPT !.kind = kind, !.phase = phase]
         IN /\ Begin(t, op) /\ op \in Ops /\ op.kind = kind /\ op.phase = phase
            /\ op.agent = tab[t].op.agent
<1>1. tab \in [Tabs -> TabStates] /\ tab[t].op \in Ops
  BY DEF ConsoleInv, ConsoleTypes, TabStates
<1> DEFINE op == [tab[t].op EXCEPT !.kind = kind, !.phase = phase]
<1>2. op \in Ops /\ op.kind = kind /\ op.phase = phase /\ op.agent = tab[t].op.agent
  BY <1>1 DEF Ops, LocalKinds, RemoteKinds
<1>3. Begin(t, op)
  BY <1>1 DEF Begin, TabStates
<1> QED BY <1>2, <1>3

LEMMA CreatedStep ==
  ASSUME ConsoleInv, NEW t \in Tabs, Created(t) PROVE ConsoleInv'
<1>1. /\ tab' = [tab EXCEPT ![t].op.kind = "export", ![t].op.phase = "local"]
      /\ tab[t].op.kind = "create" /\ tab[t].op.phase = "ok"
      /\ UNCHANGED <<stored, poll, server, late, exported, started, presses>>
  BY DEF Created, Answered
<1>2. PICK op \in Ops : Begin(t, op) /\ op.kind = "export" /\ op.phase = "local" /\ op.agent = tab[t].op.agent
  BY <1>1, GoesOn
<1>3. Works(tab[t].op) /\ ConsoleTypes
  BY DEF ConsoleInv
<1>4. Works(op) /\ Asks(op)'
  BY <1>1, <1>2, <1>3 DEF Works, Asks, AgentKinds, LocalKinds
<1> QED BY <1>1, <1>2, <1>3, <1>4, BeginStep DEF ConsoleTypes

LEMMA ExportStep ==
  ASSUME ConsoleInv, NEW t \in Tabs, Export(t) PROVE ConsoleInv'
<1>1. /\ tab' = [tab EXCEPT ![t].op.kind = "enable", ![t].op.phase = "sent"]
      /\ tab[t].op.kind = "export" /\ exported' = exported \cup {tab[t].op.agent}
      /\ UNCHANGED <<stored, poll, server, late, started, presses>>
  BY DEF Export
<1>2. PICK op \in Ops : Begin(t, op) /\ op.kind = "enable" /\ op.phase = "sent" /\ op.agent = tab[t].op.agent
  BY <1>1, GoesOn
<1>3. Works(tab[t].op) /\ ConsoleTypes
  BY DEF ConsoleInv
<1>4. Works(op) /\ Asks(op)'
  BY <1>1, <1>2 DEF Works, Asks, AgentKinds, LocalKinds
<1>5. tab[t].op.agent \in AgentIds
  BY <1>1, <1>3 DEF Works
<1> QED BY <1>1, <1>2, <1>3, <1>4, <1>5, BeginStep DEF ConsoleTypes

LEMMA SaveEnds ==
  ASSUME ConsoleInv, NEW t \in Tabs, EndSave(t) PROVE ConsoleInv'
<1>1. /\ tab \in [Tabs -> TabStates] /\ tab[t] \in TabStates /\ ConsoleTypes
      /\ Asks(tab[t].op) /\ Works(tab[t].op) /\ Shows(tab[t])
  BY DEF ConsoleInv, ConsoleTypes
<1>2. /\ tab[t].save.token # NoToken
      /\ UNCHANGED <<stored, server, late, exported, started, presses>>
  BY DEF EndSave
<1>3. PICK s \in TabStates :
        /\ tab' = [tab EXCEPT ![t] = s]
        /\ s.shown = tab[t].shown /\ s.token = tab[t].token /\ s.stray = tab[t].stray
        /\ s.op = tab[t].op
  <2> DEFINE s == [tab[t] EXCEPT !.save = [agent |-> NoAgent, token |-> NoToken]]
  <2>1. tab' = [tab EXCEPT ![t] = s]
    BY <1>1 DEF EndSave
  <2>2. s \in TabStates
    BY <1>1 DEF TabStates, Saves
  <2>3. s.shown = tab[t].shown /\ s.token = tab[t].token /\ s.stray = tab[t].stray /\ s.op = tab[t].op
    BY <1>1 DEF TabStates
  <2> QED BY <2>1, <2>2, <2>3
<1>4. tab[t].save.token \in Tokens
  BY <1>1, <1>2 DEF TabStates, Saves
<1>5. /\ poll' \in [Tabs -> [Polls \cup {0} -> PollStates]]
      /\ \A u \in Tabs : u # t => poll'[u] = poll[u]
      /\ \A j \in Polls \cup {0} : poll'[t][j] = poll[t][j] \/ Unanswered(poll'[t][j])
  <2>1. CASE UNCHANGED poll
    BY <1>1, <2>1 DEF ConsoleTypes
  <2>2. ASSUME NEW k \in Polls,
               poll' = [poll EXCEPT ![t][k] = [NoPoll EXCEPT !.phase = "asked", !.token = tab[t].save.token]]
        PROVE  <1>5
    BY <1>4, <2>2, Asked, OnePoll
  <2> QED BY <2>1, <2>2 DEF EndSave
<1>6. Asks(s.op)' /\ Works(s.op) /\ Shows(s)
  BY <1>1, <1>2, <1>3, AsksKept DEF Shows
<1>7. \A f \in [AgentIds -> Dids \cup {None}] : Owners(f) => RowsOf(f, s.shown) /\ AnswerOf(f, s.op)
  BY <1>3 DEF Owners
<1> QED BY <1>1, <1>2, <1>3, <1>5, <1>6, <1>7, OneTab, TabStep DEF ConsoleTypes

\* The request that ends a session tells nothing that could start an agent.
LEMMA LogoutIs ==
  ASSUME ConsoleInv, NEW t \in Tabs
  PROVE  Logout(t) \subseteq Ops /\ \A req \in Logout(t) : Asks(req) /\ req.phase = "sent"
<1>1. tab[t].token \in Tokens \cup {NoToken}
  BY DEF ConsoleInv, ConsoleTypes, TabStates
<1>2. Logout(t) \subseteq {[Idle EXCEPT !.kind = "logout", !.phase = "sent", !.token = tab[t].token]}
  BY DEF Logout
<1>3. [Idle EXCEPT !.kind = "logout", !.phase = "sent", !.token = tab[t].token] \in Ops
  BY <1>1 DEF Idle, Ops, RemoteKinds, NoAgent
<1>4. \A req \in Logout(t) : req.kind = "logout" /\ req.phase = "sent"
  BY <1>2 DEF Idle
<1> QED BY <1>2, <1>3, <1>4 DEF Asks

\* A tab with nothing on its page and nothing under way.
LEMMA EmptyPage ==
  ASSUME NEW s, s.shown = {}, s.op = Idle
  PROVE  /\ Shows(s) /\ Works(s.op) /\ Asks(s.op)
         /\ \A f : RowsOf(f, s.shown) /\ AnswerOf(f, s.op)
  BY DEF Shows, OneRowEach, RowsOf, AnswerOf, Works, Asks, Idle, LocalKinds

LEMMA DisconnectStep ==
  ASSUME ConsoleInv, NEW t \in Tabs, Disconnect(t) PROVE ConsoleInv'
<1>1. tab \in [Tabs -> TabStates] /\ tab[t] \in TabStates /\ ConsoleTypes
  BY DEF ConsoleInv, ConsoleTypes
<1>2. /\ Press /\ tab' = [tab EXCEPT ![t] = Disconnected(t)] /\ tab[t].op = Idle
      /\ late' = late \cup Logout(t)
      /\ UNCHANGED <<stored, poll, server, exported, started>>
  BY DEF Disconnect, Button, Busy
<1>3. PICK s \in TabStates : s = Disconnected(t) /\ s.shown = {} /\ s.op = Idle
  <2>1. Disconnected(t) \in TabStates
    BY <1>1 DEF Disconnected, TabStates
  <2>2. Disconnected(t).shown = {} /\ Disconnected(t).op = Idle
    BY <1>1, <1>2 DEF Disconnected, TabStates
  <2> QED BY <2>1, <2>2
<1>4. Asks(s.op)'
  BY <1>2, <1>3, EmptyPage, AsksKept
<1>5. late' \subseteq Ops /\ \A req \in late' : req \in late \/ (Asks(req) /\ req.phase = "sent")
  BY <1>1, <1>2, LogoutIs DEF ConsoleTypes
<1> QED BY <1>1, <1>2, <1>3, <1>4, <1>5, EmptyPage, Pressed, OneTab, TabStep DEF ConsoleTypes

LEMMA VaultEnds ==
  ASSUME ConsoleInv, NEW t \in Tabs, EndVault(t) PROVE ConsoleInv'
<1>1. /\ tab \in [Tabs -> TabStates] /\ tab[t] \in TabStates /\ ConsoleTypes
      /\ Works(tab[t].op)
  BY DEF ConsoleInv, ConsoleTypes
<1>2. PICK did \in Dids :
        /\ stored' = did /\ late' = late \cup Logout(t)
        /\ tab' = [tab EXCEPT ![t] =
             [Disconnected(t) EXCEPT !.vault = did, !.identity = did, !.op = Idle]]
        /\ UNCHANGED <<poll, server, exported, started, presses>>
  BY <1>1 DEF EndVault, Works
<1>3. PICK s \in TabStates : /\ s = [Disconnected(t) EXCEPT !.vault = did, !.identity = did, !.op = Idle]
                            /\ s.shown = {} /\ s.op = Idle
  <2> DEFINE s == [Disconnected(t) EXCEPT !.vault = did, !.identity = did, !.op = Idle]
  <2>1. Disconnected(t) \in TabStates /\ Disconnected(t).shown = {}
    BY <1>1 DEF Disconnected, TabStates
  <2>2. s \in TabStates
    BY <2>1, IdleIs DEF TabStates
  <2>3. s.shown = {} /\ s.op = Idle
    BY <2>1 DEF TabStates
  <2> QED BY <2>2, <2>3
<1>4. Asks(s.op)'
  BY <1>2, <1>3, EmptyPage, AsksKept
<1>5. late' \subseteq Ops /\ \A req \in late' : req \in late \/ (Asks(req) /\ req.phase = "sent")
  BY <1>1, <1>2, LogoutIs DEF ConsoleTypes
<1> QED BY <1>1, <1>2, <1>3, <1>4, <1>5, EmptyPage, OneTab, TabStep DEF ConsoleTypes

LEMMA ReloadStep ==
  ASSUME ConsoleInv, NEW t \in Tabs, Reload(t) PROVE ConsoleInv'
<1>1. /\ tab \in [Tabs -> TabStates] /\ tab[t] \in TabStates /\ ConsoleTypes
      /\ Asks(tab[t].op)
  BY DEF ConsoleInv, ConsoleTypes
<1>2. /\ Press /\ tab' = [tab EXCEPT ![t] = Fresh(stored, tab[t].token)]
      /\ poll' = [poll EXCEPT ![t] = [k \in Polls \cup {0} |-> NoPoll]]
      /\ late' = late \cup { op \in {tab[t].op} : op.phase = "sent" }
      /\ UNCHANGED <<stored, server, exported, started>>
  BY DEF Reload
<1>3. tab[t].token \in Tokens \cup {NoToken} /\ stored \in Dids \cup {None} /\ tab[t].op \in Ops
  BY <1>1 DEF TabStates, ConsoleTypes
<1>4. PICK s \in TabStates : s = Fresh(stored, tab[t].token) /\ s.shown = {} /\ s.op = Idle
  <2>1. Fresh(stored, tab[t].token) \in TabStates
    BY <1>3, IdleIs DEF Fresh, TabStates, Saves
  <2> QED BY <2>1 DEF Fresh
<1>5. NoPoll \in PollStates /\ Unanswered(NoPoll)
  BY DEF NoPoll, PollStates, Unanswered
<1>6. /\ poll' \in [Tabs -> [Polls \cup {0} -> PollStates]]
      /\ \A u \in Tabs : u # t => poll'[u] = poll[u]
      /\ \A j \in Polls \cup {0} : poll'[t][j] = poll[t][j] \/ Unanswered(poll'[t][j])
  BY <1>1, <1>2, <1>5 DEF ConsoleTypes
<1>7. Asks(s.op)'
  BY <1>2, <1>4, EmptyPage, AsksKept
<1>8. late' \subseteq Ops /\ \A req \in late' : req \in late \/ (Asks(req) /\ req.phase = "sent")
  BY <1>1, <1>2, <1>3 DEF ConsoleTypes
<1> QED BY <1>1, <1>2, <1>3, <1>4, <1>6, <1>7, <1>8, EmptyPage, Pressed, OneTab, TabStep DEF ConsoleTypes

\* A login: what the page still shows is stray, and no list was answered for it.
LEMMA ConnectedStep ==
  ASSUME ConsoleInv, NEW t \in Tabs, Connected(t) PROVE ConsoleInv'
<1>1. /\ tab \in [Tabs -> TabStates] /\ tab[t] \in TabStates /\ ConsoleTypes
      /\ Works(tab[t].op) /\ Shows(tab[t])
  BY DEF ConsoleInv, ConsoleTypes
<1>2. /\ tab[t].op.kind = "login" /\ tab[t].op.phase = "ok"
      /\ UNCHANGED <<stored, server, late, exported, started, presses>>
  BY DEF Connected
<1>3. tab[t].token = NoToken /\ tab[t].op.token \in Tokens /\ \A r \in tab[t].shown : r.id \in tab[t].stray
  BY <1>1, <1>2 DEF Works, Shows
<1>4. /\ LocalOp("load", None) \in Ops /\ Works(LocalOp("load", None)) /\ Asks(LocalOp("load", None))'
      /\ LocalOp("load", None).kind = "load" /\ LocalOp("load", None).phase = "local"
  BY LocalOpIs DEF LocalKinds
<1>5. PICK s \in TabStates :
        /\ tab' = [tab EXCEPT ![t] = s]
        /\ s.shown = tab[t].shown /\ s.stray = tab[t].stray /\ s.op = LocalOp("load", None)
        /\ s.token = tab[t].op.token
  <2> DEFINE s == [tab[t] EXCEPT !.token = tab[t].op.token, !.op = LocalOp("load", None)]
  <2>1. tab' = [tab EXCEPT ![t] = s]
    BY <1>1 DEF Connected
  <2>2. s \in TabStates
    BY <1>1, <1>3, <1>4 DEF TabStates
  <2>3. /\ s.shown = tab[t].shown /\ s.stray = tab[t].stray /\ s.op = LocalOp("load", None)
        /\ s.token = tab[t].op.token
    BY <1>1 DEF TabStates
  <2> QED BY <2>1, <2>2, <2>3
<1>6. /\ poll' \in [Tabs -> [Polls \cup {0} -> PollStates]]
      /\ \A u \in Tabs : u # t => poll'[u] = poll[u]
      /\ \A j \in Polls \cup {0} : poll'[t][j] = poll[t][j] \/ Unanswered(poll'[t][j])
  <2>1. poll' = [poll EXCEPT ![t][0] = [NoPoll EXCEPT !.phase = "asked", !.token = tab[t].op.token]]
    BY DEF Connected
  <2> QED BY <1>3, <2>1, Asked, OnePoll
<1>7. Shows(s)
  BY <1>1, <1>3, <1>4, <1>5 DEF Shows
<1>8. Works(s.op) /\ Asks(s.op)'
  <2>1. PICK op \in Ops : op = LocalOp("load", None) /\ Asks(op)'
    BY <1>4
  <2> QED BY <1>4, <1>5, <2>1
<1>9. \A f \in [AgentIds -> Dids \cup {None}] : Owners(f) => RowsOf(f, s.shown) /\ AnswerOf(f, s.op)
  BY <1>4, <1>5 DEF Owners, AnswerOf
<1> QED BY <1>1, <1>2, <1>5, <1>6, <1>7, <1>8, <1>9, OneTab, TabStep DEF ConsoleTypes

LEMMA PollStarts ==
  ASSUME ConsoleInv, NEW t \in Tabs, NEW k \in Polls \cup {0}, StartPoll(t, k) PROVE ConsoleInv'
<1>1. /\ tab \in [Tabs -> TabStates] /\ tab[t] \in TabStates /\ ConsoleTypes
      /\ Asks(tab[t].op) /\ Works(tab[t].op) /\ Shows(tab[t])
  BY DEF ConsoleInv, ConsoleTypes
<1>2. /\ poll' = [poll EXCEPT ![t][k] = [NoPoll EXCEPT !.phase = "asked", !.token = tab[t].token]]
      /\ tab[t].token # NoToken
      /\ UNCHANGED <<stored, tab, server, late, exported, started, presses>>
  BY DEF StartPoll
<1>3. tab[t].token \in Tokens
  BY <1>1, <1>2 DEF TabStates
<1>4. /\ poll' \in [Tabs -> [Polls \cup {0} -> PollStates]]
      /\ \A u \in Tabs : u # t => poll'[u] = poll[u]
      /\ \A j \in Polls \cup {0} : poll'[t][j] = poll[t][j] \/ Unanswered(poll'[t][j])
  BY <1>2, <1>3, Asked, OnePoll
<1>5. PICK s \in TabStates : s = tab[t]
  BY <1>1
<1>6. Asks(s.op)' /\ Works(s.op) /\ Shows(s)
  BY <1>1, <1>2, <1>5, AsksKept
<1>7. \A f \in [AgentIds -> Dids \cup {None}] : Owners(f) => RowsOf(f, s.shown) /\ AnswerOf(f, s.op)
  BY <1>5 DEF Owners
<1> QED BY <1>1, <1>2, <1>4, <1>5, <1>6, <1>7, TabStep DEF ConsoleTypes

\* What follows the end of a list is idle, or what the tab was busy with.
LEMMA AfterPollIs ==
  ASSUME ConsoleInv, NEW t \in Tabs, NEW k \in Polls \cup {0}
  PROVE  /\ AfterPoll(t, k) \in Ops /\ Works(AfterPoll(t, k)) /\ Asks(AfterPoll(t, k))
         /\ AfterPoll(t, k).kind = "login" => tab[t].token = NoToken
         /\ \A f \in [AgentIds -> Dids \cup {None}] : Owners(f) => AnswerOf(f, AfterPoll(t, k))
<1>1. /\ tab[t].op \in Ops /\ Works(tab[t].op) /\ Asks(tab[t].op)
      /\ tab[t].op.kind = "login" => tab[t].token = NoToken
  BY DEF ConsoleInv, ConsoleTypes, TabStates, Shows
<1>2. CASE k = 0
  <2>1. Asks(Idle)
    BY DEF Asks, Idle
  <2> QED BY <1>2, <2>1, IdleIs DEF AfterPoll, AnswerOf
<1>3. CASE k # 0
  BY <1>1, <1>3 DEF AfterPoll, Owners
<1> QED BY <1>2, <1>3

LEMMA PollEnds ==
  ASSUME ConsoleInv, NEW t \in Tabs, NEW k \in Polls \cup {0}, EndPoll(t, k)
  PROVE  /\ poll' \in [Tabs -> [Polls \cup {0} -> PollStates]]
         /\ \A u \in Tabs : u # t => poll'[u] = poll[u]
         /\ \A j \in Polls \cup {0} : poll'[t][j] = poll[t][j] \/ Unanswered(poll'[t][j])
<1>1. NoPoll \in PollStates /\ Unanswered(NoPoll)
  BY DEF NoPoll, PollStates, Unanswered
<1> QED BY <1>1, OnePoll DEF EndPoll

LEMMA PollFailsStep ==
  ASSUME ConsoleInv, NEW t \in Tabs, NEW k \in Polls \cup {0}, PollFails(t, k) PROVE ConsoleInv'
<1>1. /\ tab \in [Tabs -> TabStates] /\ tab[t] \in TabStates /\ ConsoleTypes
      /\ Shows(tab[t])
  BY DEF ConsoleInv, ConsoleTypes
<1>2. /\ EndPoll(t, k) /\ tab' = [tab EXCEPT ![t].op = AfterPoll(t, k)]
      /\ exported' = exported /\ started' = started
      /\ UNCHANGED <<stored, server, late, presses>>
  BY DEF PollFails
<1>3. PICK op \in Ops :
        /\ op = AfterPoll(t, k) /\ Works(op) /\ Asks(op)
        /\ op.kind = "login" => tab[t].token = NoToken
        /\ \A f \in [AgentIds -> Dids \cup {None}] : Owners(f) => AnswerOf(f, op)
  BY AfterPollIs
<1>4. PICK s \in TabStates :
        /\ tab' = [tab EXCEPT ![t] = s]
        /\ s.shown = tab[t].shown /\ s.token = tab[t].token /\ s.stray = tab[t].stray /\ s.op = op
  <2> DEFINE s == [tab[t] EXCEPT !.op = op]
  <2>1. tab' = [tab EXCEPT ![t] = s]
    BY <1>1, <1>2, <1>3
  <2>2. s \in TabStates
    BY <1>1 DEF TabStates
  <2>3. s.shown = tab[t].shown /\ s.token = tab[t].token /\ s.stray = tab[t].stray /\ s.op = op
    BY <1>1 DEF TabStates
  <2> QED BY <2>1, <2>2, <2>3
<1>5. Asks(s.op)' /\ Works(s.op) /\ Shows(s)
  BY <1>1, <1>2, <1>3, <1>4, AsksKept DEF Shows
<1>6. \A f \in [AgentIds -> Dids \cup {None}] : Owners(f) => RowsOf(f, s.shown) /\ AnswerOf(f, s.op)
  BY <1>3, <1>4 DEF Owners
<1> QED BY <1>1, <1>2, <1>4, <1>5, <1>6, PollEnds, OneTab, TabStep DEF ConsoleTypes

\* A list that is taken was asked for with the tab's session, whose owner's agents it
\* has; a session given up leaves an empty page.
LEMMA LoadedStep ==
  ASSUME ConsoleInv, NEW t \in Tabs, NEW k \in Polls \cup {0}, Loaded(t, k) PROVE ConsoleInv'
<1> DEFINE mine == tab[t].token = poll[t][k].token
           known == stored = poll[t][k].owner
           shown == IF ~mine THEN tab[t].shown ELSE IF known THEN poll[t][k].rows ELSE {}
           token == IF mine /\ ~known THEN NoToken ELSE tab[t].token
           stray == IF mine THEN {} ELSE tab[t].stray
<1>1. /\ tab \in [Tabs -> TabStates] /\ tab[t] \in TabStates /\ ConsoleTypes
      /\ Shows(tab[t]) /\ Lists(poll[t][k]) /\ poll[t][k] \in PollStates
  BY DEF ConsoleInv, ConsoleTypes
<1>2. /\ EndPoll(t, k) /\ poll[t][k].phase = "answered" /\ poll[t][k].owner # None
      /\ tab' = [tab EXCEPT ![t].shown = shown, ![t].token = token, ![t].stray = stray,
                            ![t].op = AfterPoll(t, k)]
      /\ exported' = exported /\ started' = started
      /\ UNCHANGED <<stored, server, late, presses>>
  BY <1>1 DEF Loaded
<1>3. PICK op \in Ops :
        /\ op = AfterPoll(t, k) /\ Works(op) /\ Asks(op)
        /\ op.kind = "login" => tab[t].token = NoToken
        /\ \A f \in [AgentIds -> Dids \cup {None}] : Owners(f) => AnswerOf(f, op)
  BY AfterPollIs
<1>4. /\ shown \in SUBSET Row /\ token \in Tokens \cup {NoToken} /\ stray \in SUBSET AgentIds
  BY <1>1 DEF TabStates, PollStates
<1>5. /\ poll[t][k].token \in Tokens /\ OneRowEach(poll[t][k].rows)
      /\ sess[poll[t][k].token] \in {poll[t][k].owner, "ended"}
      /\ \A r \in poll[t][k].rows : r.owner = poll[t][k].owner
  BY <1>1, <1>2 DEF Lists
<1>6. PICK s \in TabStates :
        /\ tab' = [tab EXCEPT ![t] = s]
        /\ s.shown = shown /\ s.token = token /\ s.stray = stray /\ s.op = op
  <2> HIDE DEF shown, token, stray
  <2> DEFINE s == [tab[t] EXCEPT !.shown = shown, !.token = token, !.stray = stray, !.op = op]
  <2>1. tab' = [tab EXCEPT ![t] = s]
    BY <1>1, <1>2, <1>3
  <2>2. s \in TabStates
    BY <1>1, <1>4 DEF TabStates
  <2>3. s.shown = shown /\ s.token = token /\ s.stray = stray /\ s.op = op
    BY <1>1 DEF TabStates
  <2> QED BY <2>1, <2>2, <2>3
<1>7. Shows(s)
  <2>1. CASE ~mine
    BY <1>1, <1>3, <1>6, <2>1 DEF Shows
  <2>2. CASE mine /\ known
    BY <1>1, <1>3, <1>5, <1>6, <2>2, Ids DEF Shows
  <2>3. CASE mine /\ ~known
    BY <1>6, <2>3 DEF Shows, OneRowEach
  <2> QED BY <2>1, <2>2, <2>3
<1>8. Asks(s.op)' /\ Works(s.op)
  BY <1>2, <1>3, <1>6, AsksKept
<1>9. \A f \in [AgentIds -> Dids \cup {None}] : Owners(f) => RowsOf(f, s.shown) /\ AnswerOf(f, s.op)
  BY <1>3, <1>6 DEF Owners, RowsOf
<1> HIDE DEF shown, token, stray, mine, known
<1> QED BY <1>1, <1>2, <1>6, <1>7, <1>8, <1>9, PollEnds, OneTab, TabStep DEF ConsoleTypes

\* An answer for an agent: its row has the owner that a row of the agent already has,
\* and the session that asked is that owner's.
LEMMA AnswerIs ==
  ASSUME ConsoleInv, NEW t \in Tabs, Answered(t, AgentKinds)
  PROVE  /\ AnswerRow(t) \in Row /\ AnswerRow(t).id = tab[t].op.agent /\ tab[t].op.agent \in AgentIds
         /\ AnswerRow(t).owner = tab[t].op.did
         /\ tab[t].op.token \in Tokens /\ sess[tab[t].op.token] \in {tab[t].op.did, "ended"}
         /\ \A r \in tab[t].shown : r.id = tab[t].op.agent => r.owner = tab[t].op.did
         /\ \A f \in [AgentIds -> Dids \cup {None}] :
              Owners(f) => tab[t].op.agent <= minted /\ tab[t].op.did = f[tab[t].op.agent]
<1>1. Works(tab[t].op) /\ tab[t].op.phase = "ok" /\ tab[t].op.kind \in AgentKinds
  BY DEF ConsoleInv, Answered
<1>2. /\ tab[t].op.agent \in AgentIds /\ tab[t].op.did \in Dids
      /\ tab[t].op.token \in Tokens /\ sess[tab[t].op.token] \in {tab[t].op.did, "ended"}
  BY <1>1 DEF Works
<1>3. AnswerRow(t) \in Row /\ AnswerRow(t).id = tab[t].op.agent /\ AnswerRow(t).owner = tab[t].op.did
  BY <1>2 DEF AnswerRow, Row
<1>4. \A f \in [AgentIds -> Dids \cup {None}] :
        Owners(f) => tab[t].op.agent <= minted /\ tab[t].op.did = f[tab[t].op.agent]
  BY <1>1 DEF Owners, AnswerOf
<1>5. \A r \in tab[t].shown : r.id = tab[t].op.agent => r.owner = tab[t].op.did
  <2>1. PICK f \in [AgentIds -> Dids \cup {None}] : Owners(f)
    BY DEF ConsoleInv
  <2> QED BY <1>4, <2>1 DEF Owners, RowsOf
<1> QED BY <1>2, <1>3, <1>4, <1>5

\* What such an answer may make of the page: rows that were there, and its own.
LEMMA PageChanges ==
  ASSUME ConsoleInv, NEW t \in Tabs, NEW s \in TabStates, tab' = [tab EXCEPT ![t] = s],
         Answered(t, AgentKinds), s.op = Idle,
         s.shown \subseteq Others(t) \cup {AnswerRow(t)},
         s.token = tab[t].token, tab[t].stray \subseteq s.stray,
         AnswerRow(t) \in s.shown /\ AnswerRow(t).id \notin s.stray =>
           \/ tab[t].token = tab[t].op.token
           \/ \E r \in tab[t].shown : r.id = AnswerRow(t).id,
         UNCHANGED <<stored, poll, server, late, exported, started, presses>>
  PROVE  ConsoleInv'
<1>1. /\ ConsoleTypes /\ Shows(tab[t]) /\ s.shown \subseteq Row
  BY DEF ConsoleInv, TabStates
<1>2. /\ AnswerRow(t).id = tab[t].op.agent /\ AnswerRow(t).owner = tab[t].op.did
      /\ tab[t].op.token \in Tokens /\ sess[tab[t].op.token] \in {tab[t].op.did, "ended"}
      /\ \A r \in tab[t].shown : r.id = tab[t].op.agent => r.owner = tab[t].op.did
  BY AnswerIs
<1>3. \A r \in s.shown : (r \in tab[t].shown /\ r.id # tab[t].op.agent) \/ r = AnswerRow(t)
  BY DEF Others
<1>4. OneRowEach(s.shown)
  BY <1>1, <1>2, <1>3 DEF Shows, OneRowEach
<1>5. ASSUME NEW r \in s.shown, r.id \notin s.stray
      PROVE  s.token # NoToken /\ sess[s.token] \in {r.owner, "ended"}
  <2>1. CASE r \in tab[t].shown
    BY <1>1, <1>5, <2>1 DEF Shows
  <2>2. CASE r = AnswerRow(t) /\ tab[t].token = tab[t].op.token
    BY <1>2, <2>2, Ids
  <2>3. CASE r = AnswerRow(t) /\ \E q \in tab[t].shown : q.id = AnswerRow(t).id
    <3>1. PICK q \in tab[t].shown : q.id = AnswerRow(t).id
      BY <2>3
    <3>2. q.owner = r.owner /\ q.id \notin tab[t].stray
      BY <1>2, <1>5, <2>3, <3>1
    <3> QED BY <1>1, <3>1, <3>2 DEF Shows
  <2> QED BY <1>3, <1>5, <2>1, <2>2, <2>3
<1>6. Shows(s)
  BY <1>4, <1>5 DEF Shows, Idle
<1>7. ASSUME NEW f \in [AgentIds -> Dids \cup {None}], Owners(f)
      PROVE  RowsOf(f, s.shown) /\ AnswerOf(f, s.op)
  <2>1. RowsOf(f, tab[t].shown) /\ tab[t].op.agent <= minted /\ tab[t].op.did = f[tab[t].op.agent]
    BY <1>7, AnswerIs DEF Owners
  <2>2. RowsOf(f, s.shown)
    BY <1>2, <1>3, <2>1 DEF RowsOf
  <2> QED BY <2>2 DEF AnswerOf, Idle
<1>8. Works(s.op) /\ Asks(s.op)'
  <2>1. Works(Idle) /\ Asks(Idle)
    BY DEF Works, Asks, Idle, LocalKinds
  <2> QED BY <2>1, AsksKept
<1>9. poll \in [Tabs -> [Polls \cup {0} -> PollStates]]
  BY <1>1 DEF ConsoleTypes
<1> QED BY <1>1, <1>6, <1>7, <1>8, <1>9, OneTab, TabStep DEF ConsoleTypes

LEMMA PageTypes ==
  ASSUME ConsoleInv, NEW t \in Tabs, Answered(t, AgentKinds)
  PROVE  /\ tab \in [Tabs -> TabStates] /\ tab[t] \in TabStates
         /\ Others(t) \subseteq Row /\ Replaced(t) \subseteq Row
         /\ {AnswerRow(t)} \cup Others(t) \subseteq Row
<1>1. tab \in [Tabs -> TabStates]
  BY DEF ConsoleInv, ConsoleTypes
<1>2. tab[t].shown \subseteq Row
  BY <1>1 DEF TabStates
<1> QED BY <1>1, <1>2, AnswerIs DEF Others, Replaced

LEMMA ToggledStep ==
  ASSUME ConsoleInv, NEW t \in Tabs, Toggled(t) PROVE ConsoleInv'
<1>1. /\ tab' = [tab EXCEPT ![t].shown = Replaced(t), ![t].op = Idle]
      /\ Answered(t, AgentKinds)
      /\ UNCHANGED <<stored, poll, server, late, exported, started, presses>>
  BY DEF Toggled, Answered, AgentKinds
<1>2. /\ tab \in [Tabs -> TabStates] /\ tab[t] \in TabStates /\ Replaced(t) \subseteq Row
  BY <1>1, PageTypes
<1>3. PICK s \in TabStates :
        /\ tab' = [tab EXCEPT ![t] = s] /\ s.shown = Replaced(t) /\ s.op = Idle
        /\ s.token = tab[t].token /\ s.stray = tab[t].stray
  <2> DEFINE s == [tab[t] EXCEPT !.shown = Replaced(t), !.op = Idle]
  <2>1. tab' = [tab EXCEPT ![t] = s]
    BY <1>1, <1>2
  <2>2. s \in TabStates
    BY <1>2, IdleIs DEF TabStates
  <2>3. /\ s.shown = Replaced(t) /\ s.op = Idle
        /\ s.token = tab[t].token /\ s.stray = tab[t].stray
    BY <1>2 DEF TabStates
  <2> QED BY <2>1, <2>2, <2>3
<1>4. /\ Replaced(t) \subseteq Others(t) \cup {AnswerRow(t)}
      /\ AnswerRow(t) \in Replaced(t) => \E r \in tab[t].shown : r.id = AnswerRow(t).id
  BY <1>1, AnswerIs DEF Replaced, Others
<1> QED BY <1>1, <1>3, <1>4, PageChanges

LEMMA EditedStep ==
  ASSUME ConsoleInv, NEW t \in Tabs, Edited(t) PROVE ConsoleInv'
<1>1. /\ tab' = [tab EXCEPT ![t].shown = Replaced(t), ![t].editing = NoAgent, ![t].setup = FALSE,
                            ![t].op = Idle]
      /\ Answered(t, AgentKinds)
      /\ UNCHANGED <<stored, poll, server, late, exported, started, presses>>
  BY DEF Edited, Answered, AgentKinds
<1>2. /\ tab \in [Tabs -> TabStates] /\ tab[t] \in TabStates /\ Replaced(t) \subseteq Row
  BY <1>1, PageTypes
<1>3. PICK s \in TabStates :
        /\ tab' = [tab EXCEPT ![t] = s] /\ s.shown = Replaced(t) /\ s.op = Idle
        /\ s.token = tab[t].token /\ s.stray = tab[t].stray
  <2> DEFINE s == [tab[t] EXCEPT !.shown = Replaced(t), !.editing = NoAgent, !.setup = FALSE,
                                 !.op = Idle]
  <2>1. tab' = [tab EXCEPT ![t] = s]
    BY <1>1, <1>2
  <2>2. s \in TabStates
    BY <1>2, IdleIs DEF TabStates
  <2>3. /\ s.shown = Replaced(t) /\ s.op = Idle
        /\ s.token = tab[t].token /\ s.stray = tab[t].stray
    BY <1>2 DEF TabStates
  <2> QED BY <2>1, <2>2, <2>3
<1>4. /\ Replaced(t) \subseteq Others(t) \cup {AnswerRow(t)}
      /\ AnswerRow(t) \in Replaced(t) => \E r \in tab[t].shown : r.id = AnswerRow(t).id
  BY <1>1, AnswerIs DEF Replaced, Others
<1> QED BY <1>1, <1>3, <1>4, PageChanges

LEMMA RemovedStep ==
  ASSUME ConsoleInv, NEW t \in Tabs, Removed(t) PROVE ConsoleInv'
<1> DEFINE edited == tab[t].op.editing = tab[t].op.agent
           editing == IF edited THEN NoAgent ELSE tab[t].editing
           setup == IF edited THEN FALSE ELSE tab[t].setup
<1>1. Answered(t, AgentKinds)
  BY DEF Removed, Answered, AgentKinds
<1>2. /\ tab \in [Tabs -> TabStates] /\ tab[t] \in TabStates /\ Others(t) \subseteq Row
  BY <1>1, PageTypes
<1>3. /\ tab' = [tab EXCEPT ![t].shown = Others(t), ![t].confirm = NoAgent, ![t].op = Idle,
                            ![t].editing = editing, ![t].setup = setup]
      /\ UNCHANGED <<stored, poll, server, late, exported, started, presses>>
  BY <1>2 DEF Removed
<1>4. editing \in AgentIds \cup {NoAgent} /\ setup \in BOOLEAN
  BY <1>2 DEF TabStates
<1>5. PICK s \in TabStates :
        /\ tab' = [tab EXCEPT ![t] = s] /\ s.shown = Others(t) /\ s.op = Idle
        /\ s.token = tab[t].token /\ s.stray = tab[t].stray
  <2> HIDE DEF editing, setup
  <2> DEFINE s == [tab[t] EXCEPT !.shown = Others(t), !.confirm = NoAgent, !.op = Idle,
                                 !.editing = editing, !.setup = setup]
  <2>1. tab' = [tab EXCEPT ![t] = s]
    BY <1>2, <1>3
  <2>2. s \in TabStates
    BY <1>2, <1>4, IdleIs DEF TabStates
  <2>3. /\ s.shown = Others(t) /\ s.op = Idle
        /\ s.token = tab[t].token /\ s.stray = tab[t].stray
    BY <1>2 DEF TabStates
  <2> QED BY <2>1, <2>2, <2>3
<1>6. AnswerRow(t) \notin Others(t)
  BY <1>1, AnswerIs DEF Others
<1> QED BY <1>1, <1>3, <1>5, <1>6, PageChanges

LEMMA EnabledStep ==
  ASSUME ConsoleInv, NEW t \in Tabs, Enabled(t) PROVE ConsoleInv'
<1> DEFINE stray == IF tab[t].token = tab[t].op.token THEN tab[t].stray
                    ELSE tab[t].stray \cup {tab[t].op.agent}
           shown == {AnswerRow(t)} \cup Others(t)
<1>1. Answered(t, AgentKinds)
  BY DEF Enabled, Answered, AgentKinds
<1>2. /\ tab \in [Tabs -> TabStates] /\ tab[t] \in TabStates /\ shown \in SUBSET Row
      /\ tab[t].op.agent \in AgentIds /\ AnswerRow(t).id = tab[t].op.agent
  BY <1>1, PageTypes, AnswerIs
<1>3. /\ tab' = [tab EXCEPT ![t].shown = shown, ![t].setup = FALSE, ![t].stray = stray, ![t].op = Idle]
      /\ UNCHANGED <<stored, poll, server, late, exported, started, presses>>
  BY <1>2 DEF Enabled
<1>4. stray \in SUBSET AgentIds
  BY <1>2 DEF TabStates
<1>5. PICK s \in TabStates :
        /\ tab' = [tab EXCEPT ![t] = s] /\ s.shown = shown /\ s.op = Idle
        /\ s.token = tab[t].token /\ s.stray = stray
  <2> HIDE DEF shown, stray
  <2> DEFINE s == [tab[t] EXCEPT !.shown = shown, !.setup = FALSE, !.stray = stray, !.op = Idle]
  <2>1. tab' = [tab EXCEPT ![t] = s]
    BY <1>2, <1>3
  <2>2. s \in TabStates
    BY <1>2, <1>4, IdleIs DEF TabStates
  <2>3. s.shown = shown /\ s.op = Idle /\ s.token = tab[t].token /\ s.stray = stray
    BY <1>2 DEF TabStates
  <2> QED BY <2>1, <2>2, <2>3
<1> QED BY <1>1, <1>2, <1>3, <1>5, PageChanges

\* A step of a tab keeps the invariant.
LEMMA TabSteps ==
  ASSUME ConsoleInv, NEW t \in Tabs, Owner(t) \/ Tab(t) PROVE ConsoleInv'
<1>1. CASE Owner(t)
  BY <1>1, VaultBegins, UnlockBegins, ConnectBegins, DisconnectStep, ReloadStep, NewOpens, EditOpens,
     SetupCloses, SubmitBegins, RemovalAsked, RemovalCancelled, ToggleBegins, RemoveBegins, SaveBegins
     DEF Owner
<1>2. CASE Tab(t)
  BY <1>2, VaultEnds, UnlockEnds, ConnectedStep, ToggledStep, EditedStep, RemovedStep, CreatedStep,
     ExportStep, EnabledStep, FailsStep, SaveEnds, PollStarts, LoadedStep, PollFailsStep DEF Tab
<1> QED BY <1>1, <1>2

-----------------------------------------------------------------------------
\* OwnerConsole: steps of the API.

\* What a step leaves in the API's tables is right, and grows out of what was there.
ServerRight ==
  /\ served' \in SUBSET Row /\ minted' \in minted .. MaxAgents
  /\ sess' \in [Tokens -> Dids \cup {"unused", "ended"}]
  /\ SessionsKept /\ SessionsInOrder'
  /\ OneRowEach(served)' /\ RunsWithRecovery'

\* The owners g of agents after a step go on from those before, f.
Follows(f, g) == (\A i \in AgentIds : i <= minted => g[i] = f[i]) /\ RowsOf(g, served)'

LEMMA ServerTypes ==
  ASSUME ConsoleInv
  PROVE  /\ served \in SUBSET Row /\ minted \in 0 .. MaxAgents
         /\ sess \in [Tokens -> Dids \cup {"unused", "ended"}]
         /\ OneRowEach(served) /\ RunsWithRecovery /\ SessionsInOrder
  BY DEF ConsoleInv, ConsoleTypes, SessionsInOrder

LEMMA ApiStep ==
  ASSUME ConsoleInv, ServerRight, stored' \in Dids \cup {None}, presses' \in 0 .. MaxPresses,
         exported' = exported, started \subseteq started', started' \subseteq AgentIds,
         late' \subseteq late,
         tab' \in [Tabs -> TabStates],
         \A t \in Tabs :
           /\ tab'[t].shown = tab[t].shown /\ tab'[t].token = tab[t].token
           /\ tab'[t].stray = tab[t].stray /\ tab'[t].op.kind = tab[t].op.kind
           /\ (Asks(tab[t].op) /\ Works(tab[t].op))',
         poll' \in [Tabs -> [Polls \cup {0} -> PollStates]],
         \A t \in Tabs, k \in Polls \cup {0} :
           poll'[t][k] = poll[t][k] \/ (Lists(poll[t][k])' /\ poll'[t][k].rows \subseteq served'),
         \A f \in [AgentIds -> Dids \cup {None}] : Owners(f) =>
           \E g \in [AgentIds -> Dids \cup {None}] :
             Follows(f, g) /\ \A t \in Tabs : AnswerOf(g, tab[t].op)'
  PROVE  ConsoleInv'
<1>1. /\ minted \in 0 .. MaxAgents /\ minted' \in 0 .. MaxAgents
      /\ minted \in Nat /\ minted' \in Nat /\ minted <= minted'
  BY ServerTypes, ConsoleAssumption DEF ServerRight
<1>2. ConsoleTypes'
  BY <1>1 DEF ConsoleInv, ConsoleTypes, ServerRight
<1>3. ASSUME NEW req \in late' PROVE Asks(req)' /\ req.phase = "sent"
  BY AsksKept DEF ConsoleInv
<1>4. ASSUME NEW t \in Tabs PROVE Shows(tab[t])'
  <2>1. PICK s \in TabStates : s = tab[t] /\ Shows(s)
    BY DEF ConsoleInv, ConsoleTypes
  <2>2. Shows(s)'
    BY <2>1, ShowsKept DEF ServerRight
  <2>3. PICK u \in TabStates :
          /\ u = tab'[t] /\ u.shown = s.shown /\ u.token = s.token /\ u.stray = s.stray
          /\ u.op.kind = s.op.kind
    BY <2>1
  <2>4. Shows(u)'
    BY <2>2, <2>3 DEF Shows
  <2> QED BY <2>3, <2>4
<1>5. ASSUME NEW t \in Tabs, NEW k \in Polls \cup {0} PROVE Lists(poll[t][k])'
  <2>1. CASE poll'[t][k] = poll[t][k]
    <3>1. PICK p : p = poll[t][k] /\ Lists(p)
      BY DEF ConsoleInv
    <3>2. Lists(p)'
      BY <3>1, ListsKept DEF ServerRight
    <3> QED BY <2>1, <3>1, <3>2
  <2> QED BY <2>1
<1>6. (\E f \in [AgentIds -> Dids \cup {None}] : Owners(f))'
  <2>1. PICK f \in [AgentIds -> Dids \cup {None}] : Owners(f)
    BY DEF ConsoleInv
  <2>2. PICK g \in [AgentIds -> Dids \cup {None}] :
          Follows(f, g) /\ \A t \in Tabs : AnswerOf(g, tab[t].op)'
    BY <2>1
  <2>3. ASSUME NEW rows \in SUBSET Row, RowsOf(f, rows) PROVE RowsOf(g, rows)'
    <3>1. ASSUME NEW r \in rows PROVE r.id <= minted' /\ r.owner = g[r.id]
      <4>1. r.id \in AgentIds /\ r.id <= minted /\ r.owner = f[r.id]
        BY <2>3 DEF RowsOf, Row
      <4>2. r.id \in Nat
        BY <4>1, Ids
      <4>3. r.id <= minted'
        BY <1>1, <4>1, <4>2
      <4>4. g[r.id] = f[r.id]
        BY <2>2, <4>1 DEF Follows
      <4> QED BY <4>1, <4>3, <4>4
    <3> QED BY <3>1 DEF RowsOf
  <2>4. ASSUME NEW t \in Tabs PROVE RowsOf(g, tab[t].shown)'
    <3>1. PICK rows \in SUBSET Row : rows = tab[t].shown /\ RowsOf(f, rows)
      BY <2>1 DEF Owners, ConsoleInv, ConsoleTypes, TabStates
    <3>2. RowsOf(g, rows)' /\ tab'[t].shown = rows
      BY <2>3, <3>1
    <3> QED BY <3>2
  <2>5. ASSUME NEW t \in Tabs, NEW k \in Polls \cup {0} PROVE RowsOf(g, poll[t][k].rows)'
    <3>1. CASE poll'[t][k] = poll[t][k]
      <4>1. PICK rows \in SUBSET Row : rows = poll[t][k].rows /\ RowsOf(f, rows)
        BY <2>1 DEF Owners, ConsoleInv, ConsoleTypes, PollStates
      <4>2. RowsOf(g, rows)' /\ poll'[t][k].rows = rows
        BY <2>3, <3>1, <4>1
      <4> QED BY <4>2
    <3>2. CASE poll'[t][k].rows \subseteq served'
      BY <2>2, <3>2 DEF Follows, RowsOf
    <3> QED BY <3>1, <3>2
  <2> QED BY <2>2, <2>4, <2>5 DEF Owners, Follows
<1> QED BY <1>2, <1>3, <1>4, <1>5, <1>6 DEF ConsoleInv, ServerRight, SessionsInOrder

\* A step that leaves the tabs alone.
LEMMA TabsKept ==
  ASSUME ConsoleInv, ServerRight, UNCHANGED tab, exported' = exported, started \subseteq started'
  PROVE  /\ tab' \in [Tabs -> TabStates]
         /\ \A t \in Tabs :
              /\ tab'[t].shown = tab[t].shown /\ tab'[t].token = tab[t].token
              /\ tab'[t].stray = tab[t].stray /\ tab'[t].op.kind = tab[t].op.kind
              /\ (Asks(tab[t].op) /\ Works(tab[t].op))'
<1>1. tab' \in [Tabs -> TabStates]
  BY DEF ConsoleInv, ConsoleTypes
<1>2. ASSUME NEW t \in Tabs PROVE (Asks(tab[t].op) /\ Works(tab[t].op))'
  <2>1. PICK op : op = tab[t].op /\ Asks(op) /\ Works(op)
    BY DEF ConsoleInv
  <2>2. Asks(op)' /\ Works(op)'
    BY <2>1, AsksKept, WorksKept DEF ServerRight
  <2> QED BY <2>1, <2>2
<1> QED BY <1>1, <1>2

\* The answers that tabs have keep naming the owner.
LEMMA AnswersFollow ==
  ASSUME ConsoleInv, ServerRight, NEW t \in Tabs, tab'[t].op = tab[t].op,
         NEW f \in [AgentIds -> Dids \cup {None}], Owners(f),
         NEW g \in [AgentIds -> Dids \cup {None}], Follows(f, g)
  PROVE  AnswerOf(g, tab[t].op)'
<1>1. PICK op : op = tab[t].op /\ AnswerOf(f, op) /\ Works(op)
  BY DEF Owners, ConsoleInv
<1>2. minted \in Nat /\ minted' \in Nat /\ minted <= minted'
  BY ServerTypes, ConsoleAssumption DEF ServerRight
<1>3. ASSUME op.phase = "ok", op.kind \in AgentKinds
      PROVE  op.agent <= minted' /\ op.did = g[op.agent]
  <2>1. op.agent \in AgentIds /\ op.agent <= minted /\ op.did = f[op.agent]
    BY <1>1, <1>3 DEF AnswerOf, Works
  <2>2. op.agent <= minted'
    BY <1>2, <2>1, Ids
  <2>3. g[op.agent] = f[op.agent]
    BY <2>1 DEF Follows
  <2> QED BY <2>1, <2>2, <2>3
<1>4. AnswerOf(g, op)'
  BY <1>3 DEF AnswerOf
<1> QED BY <1>1, <1>4

\* What the execution of a request leaves: right tables, and an answer that names the
\* session's owner and, for a request about an agent, an agent of that owner.
Carried(req, a, k) ==
  /\ ServerRight
  /\ req.kind # "logout" =>
       /\ k \in Tokens /\ Session(k)' \in Dids /\ sess'[k] = Session(k)'
       /\ req.kind \in AgentKinds => a \in AgentIds
  /\ \A f \in [AgentIds -> Dids \cup {None}] : Owners(f) =>
       \E g \in [AgentIds -> Dids \cup {None}] :
         /\ Follows(f, g)
         /\ req.kind \in AgentKinds => a <= minted' /\ Session(k)' = g[a]

LEMMA SessionIs ==
  ASSUME NEW k
  PROVE  Session(k) # None => k \in Tokens /\ sess[k] \in Dids /\ sess[k] = Session(k)
  BY DEF Session

LEMMA SameFollow ==
  ASSUME ConsoleInv, minted' = minted, served' \subseteq served,
         NEW f \in [AgentIds -> Dids \cup {None}], Owners(f)
  PROVE  Follows(f, f)
  BY DEF Follows, Owners, RowsOf

LEMMA LoginCarried ==
  ASSUME ConsoleInv, NEW req \in Ops, req.kind = "login", req.phase = "sent", Asks(req),
         NEW a, NEW k, Carry(req, a, k), exported' = exported, started' = started
  PROVE  Carried(req, a, k)
<1> DEFINE used == { j \in Tokens : sess[j] # "unused" }
<1>1. /\ k = Cardinality(used) + 1 /\ k \in Tokens
      /\ sess' = [sess EXCEPT ![k] = req.did] /\ served' = served /\ minted' = minted
  BY DEF Carry
<1>2. req.did \in Dids /\ req.did \notin {None, "unused", "ended"}
  BY ConsoleAssumption DEF Asks
<1>3. /\ served \in SUBSET Row /\ minted \in 0 .. MaxAgents
      /\ sess \in [Tokens -> Dids \cup {"unused", "ended"}]
      /\ OneRowEach(served) /\ RunsWithRecovery
  BY ServerTypes
<1>4. PICK n \in 0 .. MaxTokens : \A j \in Tokens : sess[j] # "unused" <=> j <= n
  BY ServerTypes DEF SessionsInOrder
<1>5. Cardinality(used) = n
  <2>1. used = 1 .. n
    BY <1>4, ConsoleAssumption DEF Tokens
  <2>2. n \in Int /\ 1 \in Int
    BY <1>4, ConsoleAssumption
  <2>3. Cardinality(1 .. n) = IF 1 > n THEN 0 ELSE n - 1 + 1
    BY ONLY <2>2, FS_Interval, Zenon
  <2>4. 0 <= n
    BY <1>4, ConsoleAssumption
  <2>5. (IF 1 > n THEN 0 ELSE n - 1 + 1) = n
    BY <2>2, <2>4
  <2> HIDE DEF used
  <2> QED BY <2>1, <2>3, <2>5, Zenon
<1>6. k = n + 1 /\ sess[k] = "unused"
  BY <1>1, <1>4, <1>5, Ids
<1>7. SessionsKept
  BY <1>1, <1>3, <1>6 DEF SessionsKept
<1>8. SessionsInOrder'
  <2>1. n + 1 \in 0 .. MaxTokens
    BY <1>1, <1>6, ConsoleAssumption DEF Tokens
  <2>2. \A j \in Tokens : sess'[j] # "unused" <=> j <= n + 1
    BY <1>1, <1>2, <1>3, <1>4, <1>6, Ids
  <2> QED BY <2>1, <2>2 DEF SessionsInOrder
<1>9. ServerRight
  <2>1. sess' \in [Tokens -> Dids \cup {"unused", "ended"}]
    BY <1>1, <1>2, <1>3
  <2>2. minted' \in minted .. MaxAgents
    BY <1>1, <1>3, ConsoleAssumption
  <2>3. OneRowEach(served)' /\ RunsWithRecovery'
    BY <1>1, <1>3 DEF OneRowEach, RunsWithRecovery
  <2> QED BY <1>1, <1>3, <1>7, <1>8, <2>1, <2>2, <2>3 DEF ServerRight
<1>10. Session(k)' \in Dids /\ sess'[k] = Session(k)'
  BY <1>1, <1>2, <1>3 DEF Session
<1> QED BY <1>1, <1>9, <1>10, SameFollow DEF Carried, AgentKinds

\* A session that ends.
LEMMA SessionEnds ==
  ASSUME ConsoleInv, NEW k \in Tokens, sess[k] \in Dids, sess' = [sess EXCEPT ![k] = "ended"],
         UNCHANGED <<served, minted>>, exported' = exported, started' = started
  PROVE  ServerRight
<1>1. /\ served \in SUBSET Row /\ minted \in 0 .. MaxAgents
      /\ sess \in [Tokens -> Dids \cup {"unused", "ended"}]
      /\ OneRowEach(served) /\ RunsWithRecovery /\ SessionsInOrder
  BY ServerTypes
<1>2. SessionsKept
  BY <1>1 DEF SessionsKept
<1>3. SessionsInOrder'
  <2>1. \A j \in Tokens : sess'[j] # "unused" <=> sess[j] # "unused"
    BY <1>1, ConsoleAssumption
  <2> QED BY <1>1, <2>1 DEF SessionsInOrder
<1>4. OneRowEach(served)' /\ RunsWithRecovery'
  BY <1>1 DEF OneRowEach, RunsWithRecovery
<1>5. sess' \in [Tokens -> Dids \cup {"unused", "ended"}] /\ minted' \in minted .. MaxAgents
  BY <1>1, ConsoleAssumption
<1> QED BY <1>1, <1>2, <1>3, <1>4, <1>5 DEF ServerRight

LEMMA LogoutCarried ==
  ASSUME ConsoleInv, NEW req \in Ops, req.kind = "logout",
         NEW a, NEW k, Carry(req, a, k), exported' = exported, started' = started
  PROVE  Carried(req, a, k)
<1>1. /\ Session(k) # None /\ sess' = [sess EXCEPT ![k] = "ended"]
      /\ served' = served /\ minted' = minted
  BY DEF Carry
<1>2. ServerRight
  BY <1>1, SessionIs, SessionEnds
<1> QED BY <1>1, <1>2, SameFollow DEF Carried, AgentKinds

LEMMA CreateCarried ==
  ASSUME ConsoleInv, NEW req \in Ops, req.kind = "create",
         NEW a, NEW k, Carry(req, a, k), exported' = exported, started' = started
  PROVE  Carried(req, a, k)
<1>1. /\ Session(k) # None /\ a = minted + 1 /\ a \in AgentIds
      /\ served' = served \cup {[id |-> a, owner |-> Session(k), on |-> FALSE]}
      /\ minted' = a /\ sess' = sess
  BY DEF Carry
<1>2. PICK did \in Dids : did = Session(k) /\ k \in Tokens /\ sess[k] = did
  BY <1>1, SessionIs
<1>3. /\ served \in SUBSET Row /\ minted \in 0 .. MaxAgents
      /\ sess \in [Tokens -> Dids \cup {"unused", "ended"}]
      /\ OneRowEach(served) /\ RunsWithRecovery /\ SessionsInOrder
  BY ServerTypes
<1> DEFINE new == [id |-> a, owner |-> did, on |-> FALSE]
<1>4. new \in Row /\ new.id = a /\ new.owner = did /\ new.on = FALSE
  BY <1>1 DEF Row
<1>5. served' = served \cup {new}
  BY <1>1, <1>2
<1>6. \A r \in served : r.id # a
  <2>1. PICK f \in [AgentIds -> Dids \cup {None}] : Owners(f)
    BY DEF ConsoleInv
  <2>2. ASSUME NEW r \in served PROVE r.id <= minted /\ r.id \in AgentIds
    BY <1>3, <2>1 DEF Owners, RowsOf, Row
  <2> QED BY <1>1, <1>3, <2>2, Ids
<1>7. OneRowEach(served)' /\ RunsWithRecovery'
  <2> HIDE DEF new
  <2>1. OneRowEach(served)'
    BY <1>3, <1>4, <1>5, <1>6 DEF OneRowEach
  <2>2. RunsWithRecovery'
    BY <1>3, <1>4, <1>5 DEF RunsWithRecovery
  <2> QED BY <2>1, <2>2
<1>8. ServerRight
  <2>1. SessionsKept /\ SessionsInOrder'
    BY <1>1, <1>3 DEF SessionsKept, SessionsInOrder
  <2>2. minted' \in minted .. MaxAgents
    BY <1>1, <1>3, ConsoleAssumption DEF AgentIds
  <2> QED BY <1>1, <1>3, <1>4, <1>5, <1>7, <2>1, <2>2 DEF ServerRight
<1>9. Session(k)' = did
  BY <1>1, <1>2 DEF Session
<1>10. ASSUME NEW f \in [AgentIds -> Dids \cup {None}], Owners(f)
       PROVE  \E g \in [AgentIds -> Dids \cup {None}] : Follows(f, g) /\ did = g[a]
  <2> DEFINE g == [f EXCEPT ![a] = did]
  <2>1. g \in [AgentIds -> Dids \cup {None}] /\ g[a] = did
    BY <1>1
  <2>2. \A i \in AgentIds : i # a => g[i] = f[i]
    BY <1>1
  <2>3. \A i \in AgentIds : i <= minted => i # a
    BY <1>1, <1>3, Ids
  <2>4. ASSUME NEW r \in served' PROVE r.id <= minted' /\ r.owner = g[r.id]
    <3>1. CASE r = new
      BY <1>1, <1>4, <2>1, <3>1, Ids
    <3>2. CASE r \in served
      <4>1. r.id <= minted /\ r.owner = f[r.id] /\ r.id \in AgentIds
        BY <1>3, <1>10, <3>2 DEF Owners, RowsOf, Row
      <4>2. r.id \in Nat
        BY <4>1, Ids
      <4>3. r.id <= minted'
        BY <1>1, <1>3, <4>1, <4>2
      <4> QED BY <2>2, <2>3, <4>1, <4>3
    <3> QED BY <1>5, <2>4, <3>1, <3>2
  <2> HIDE DEF g
  <2>5. RowsOf(g, served)'
    BY <2>4 DEF RowsOf
  <2>6. Follows(f, g)
    BY <2>2, <2>3, <2>5 DEF Follows
  <2> QED BY <2>1, <2>6
<1>11. a <= minted'
  BY <1>1, Ids
<1> QED BY <1>1, <1>2, <1>8, <1>9, <1>10, <1>11 DEF Carried

\* An agent's row that is switched, or goes.
LEMMA RowChanges ==
  ASSUME ConsoleInv, NEW r \in served, UNCHANGED <<minted, sess>>,
         exported' = exported, started \subseteq started',
         \/ \E on \in BOOLEAN :
              /\ served' = (served \ {r}) \cup {[r EXCEPT !.on = on]}
              /\ on => r.id \in exported \cup started'
         \/ served' = served \ {r}
         \/ served' = served
  PROVE  ServerRight /\ \A f \in [AgentIds -> Dids \cup {None}] : Owners(f) => Follows(f, f)
<1>1. /\ served \in SUBSET Row /\ minted \in 0 .. MaxAgents
      /\ sess \in [Tokens -> Dids \cup {"unused", "ended"}]
      /\ OneRowEach(served) /\ RunsWithRecovery /\ SessionsInOrder
  BY ServerTypes
<1>2. /\ \A u \in served' :
           /\ u \in Row
           /\ u.on => u.id \in exported \cup started'
           /\ \E v \in served : v.id = u.id /\ v.owner = u.owner
      /\ OneRowEach(served)'
  <2>1. \A u \in served : u \in Row /\ (u.on => u.id \in exported \cup started')
    BY <1>1 DEF RunsWithRecovery
  <2>2. ASSUME NEW on \in BOOLEAN, served' = (served \ {r}) \cup {[r EXCEPT !.on = on]},
               on => r.id \in exported \cup started'
        PROVE  <1>2
    <3>1. PICK q \in Row : /\ served' = (served \ {r}) \cup {q}
                          /\ q.id = r.id /\ q.owner = r.owner /\ q.on = on
      <4> DEFINE q == [r EXCEPT !.on = on]
      <4>1. q \in Row /\ q.id = r.id /\ q.owner = r.owner /\ q.on = on
        BY <1>1 DEF Row
      <4>2. served' = (served \ {r}) \cup {q}
        BY <2>2
      <4> QED BY <4>1, <4>2
    <3>2. \A u, v \in served : u.id = v.id => u = v
      BY <1>1 DEF OneRowEach
    <3>3. \A u, v \in served' : u.id = v.id => u = v
      BY <3>1, <3>2
    <3> QED BY <2>1, <2>2, <3>1, <3>3 DEF OneRowEach
  <2>3. CASE served' \subseteq served
    BY <1>1, <2>1, <2>3 DEF OneRowEach
  <2> QED BY <2>2, <2>3
<1>3. RunsWithRecovery'
  BY <1>2 DEF RunsWithRecovery
<1>4. SessionsKept /\ SessionsInOrder' /\ minted' \in minted .. MaxAgents
  BY <1>1, ConsoleAssumption DEF SessionsKept, SessionsInOrder
<1>5. ServerRight
  BY <1>1, <1>2, <1>3, <1>4 DEF ServerRight
<1>6. ASSUME NEW f \in [AgentIds -> Dids \cup {None}], Owners(f) PROVE Follows(f, f)
  <2>1. \A u \in served : u.id <= minted /\ u.owner = f[u.id]
    BY <1>6 DEF Owners, RowsOf
  <2>2. \A u \in served' : u.id <= minted' /\ u.owner = f[u.id]
    BY <1>2, <2>1
  <2> QED BY <2>2 DEF Follows, RowsOf
<1> QED BY <1>5, <1>6

LEMMA AgentCarried ==
  ASSUME ConsoleInv, NEW req \in Ops, req.kind \in {"enable", "start", "pause", "edit", "remove"},
         Asks(req), NEW a \in AgentIds \cup {NoAgent}, NEW k, Carry(req, a, k),
         exported' = exported, started' = started
  PROVE  Carried(req, a, k)
<1>1. PICK r \in OwnedBy(Session(k)) :
        /\ r.id = a
        /\ \/ /\ req.kind \in {"enable", "start", "pause"}
              /\ served' = (served \ {r}) \cup {[r EXCEPT !.on = req.kind # "pause"]}
           \/ served' = served
           \/ served' = served \ {r}
  BY DEF Carry
<1>2. a = req.agent /\ UNCHANGED <<minted, sess>>
  BY DEF Carry
<1>3. /\ served \in SUBSET Row /\ minted \in 0 .. MaxAgents
      /\ sess \in [Tokens -> Dids \cup {"unused", "ended"}]
  BY ServerTypes
<1>4. r \in served /\ r \in Row /\ r.owner = Session(k) /\ Session(k) \in Dids
  BY <1>1, <1>3 DEF OwnedBy, Row
<1>5. k \in Tokens /\ sess[k] = Session(k)
  BY <1>4, SessionIs, ConsoleAssumption
<1>6. \/ \E on \in BOOLEAN :
           /\ served' = (served \ {r}) \cup {[r EXCEPT !.on = on]}
           /\ on => r.id \in exported \cup started'
      \/ served' = served \ {r}
      \/ served' = served
  <2>1. CASE /\ req.kind \in {"enable", "start", "pause"}
             /\ served' = (served \ {r}) \cup {[r EXCEPT !.on = req.kind # "pause"]}
    <3>1. req.kind # "pause" => r.id \in exported \cup started'
      BY <1>1, <1>2, <2>1 DEF Asks
    <3>2. (req.kind # "pause") \in BOOLEAN
      OBVIOUS
    <3> QED BY <2>1, <3>1, <3>2
  <2> QED BY <1>1, <2>1
<1>7. ServerRight /\ \A f \in [AgentIds -> Dids \cup {None}] : Owners(f) => Follows(f, f)
  BY <1>2, <1>4, <1>6, RowChanges
<1>8. Session(k)' = Session(k)
  BY <1>2 DEF Session
<1>9. a \in AgentIds
  BY <1>1, <1>4 DEF Row
<1>10. ASSUME NEW f \in [AgentIds -> Dids \cup {None}], Owners(f)
       PROVE  a <= minted' /\ Session(k)' = f[a]
  BY <1>1, <1>2, <1>4, <1>8, <1>10 DEF Owners, RowsOf
<1> QED BY <1>2, <1>4, <1>5, <1>7, <1>8, <1>9, <1>10 DEF Carried

LEMMA RequestCarried ==
  ASSUME ConsoleInv, NEW req \in Ops, req.phase = "sent", Asks(req),
         NEW a \in AgentIds \cup {NoAgent}, NEW k \in Tokens \cup {NoToken},
         Carry(req, a, k), exported' = exported, started' = started
  PROVE  Carried(req, a, k)
<1>1. req.kind \in {"login", "logout", "create", "enable", "start", "pause", "edit", "remove"}
  BY DEF Carry
<1> QED BY <1>1, LoginCarried, LogoutCarried, CreateCarried, AgentCarried

LEMMA ServerKept ==
  ASSUME ConsoleInv, UNCHANGED server, exported' = exported, started \subseteq started'
  PROVE  ServerRight /\ \A f \in [AgentIds -> Dids \cup {None}] : Owners(f) => Follows(f, f)
<1>1. /\ served \in SUBSET Row /\ minted \in 0 .. MaxAgents
      /\ sess \in [Tokens -> Dids \cup {"unused", "ended"}]
      /\ OneRowEach(served) /\ RunsWithRecovery /\ SessionsInOrder
  BY ServerTypes
<1>2. served' = served /\ minted' = minted /\ sess' = sess
  BY DEF server
<1>3. OneRowEach(served)' /\ RunsWithRecovery' /\ SessionsInOrder' /\ SessionsKept
  BY <1>1, <1>2 DEF OneRowEach, RunsWithRecovery, SessionsInOrder, SessionsKept
<1>4. minted' \in minted .. MaxAgents
  BY <1>1, <1>2, ConsoleAssumption
<1> QED BY <1>1, <1>2, <1>3, <1>4, SameFollow DEF ServerRight

\* A step that leaves tabs and lists alone.
LEMMA PagesKept ==
  ASSUME ConsoleInv, ServerRight, UNCHANGED <<tab, poll>>, exported' = exported,
         started \subseteq started', started' \subseteq AgentIds, late' \subseteq late,
         stored' \in Dids \cup {None}, presses' \in 0 .. MaxPresses,
         \A f \in [AgentIds -> Dids \cup {None}] : Owners(f) =>
           \E g \in [AgentIds -> Dids \cup {None}] : Follows(f, g)
  PROVE  ConsoleInv'
<1>1. tab' = tab /\ poll' = poll /\ poll \in [Tabs -> [Polls \cup {0} -> PollStates]]
  BY DEF ConsoleInv, ConsoleTypes
<1>2. ASSUME NEW f \in [AgentIds -> Dids \cup {None}], Owners(f)
      PROVE  \E g \in [AgentIds -> Dids \cup {None}] :
               Follows(f, g) /\ \A t \in Tabs : AnswerOf(g, tab[t].op)'
  <2>1. PICK g \in [AgentIds -> Dids \cup {None}] : Follows(f, g)
    BY <1>2
  <2>2. \A t \in Tabs : AnswerOf(g, tab[t].op)'
    BY <1>1, <1>2, <2>1, AnswersFollow
  <2> QED BY <2>1, <2>2
<1> QED BY <1>1, <1>2, TabsKept, ApiStep

LEMMA ServeLateStep ==
  ASSUME ConsoleInv, NEW req \in late, ServeLate(req) PROVE ConsoleInv'
<1>1. /\ tab' = tab /\ poll' = poll /\ stored' = stored /\ exported' = exported
      /\ started' = started /\ presses' = presses /\ late' \subseteq late
  BY DEF ServeLate, console
<1>2. req \in Ops /\ Asks(req) /\ req.phase = "sent" /\ ConsoleTypes
  BY DEF ConsoleInv, ConsoleTypes
<1>3. /\ ServerRight
      /\ \A f \in [AgentIds -> Dids \cup {None}] : Owners(f) =>
           \E g \in [AgentIds -> Dids \cup {None}] : Follows(f, g)
  <2>1. CASE UNCHANGED server
    BY <1>1, <2>1, ServerKept
  <2>2. ASSUME NEW a \in AgentIds \cup {NoAgent}, NEW k \in Tokens \cup {NoToken}, Carry(req, a, k)
        PROVE  <1>3
    <3>1. Carried(req, a, k)
      BY <1>1, <1>2, <2>2, RequestCarried
    <3> QED BY <3>1 DEF Carried
  <2> QED BY <2>1, <2>2 DEF ServeLate
<1> QED BY <1>1, <1>2, <1>3, PagesKept DEF ConsoleTypes

LEMMA ExpireStep ==
  ASSUME ConsoleInv, NEW k \in Tokens, Expire(k) PROVE ConsoleInv'
<1>1. /\ tab' = tab /\ poll' = poll /\ stored' = stored /\ exported' = exported
      /\ started' = started /\ presses' = presses /\ late' = late
      /\ served' = served /\ minted' = minted
      /\ sess[k] \in Dids /\ sess' = [sess EXCEPT ![k] = "ended"]
  BY DEF Expire, console
<1>2. ServerRight /\ ConsoleTypes
  BY <1>1, SessionEnds DEF ConsoleInv
<1>3. \A f \in [AgentIds -> Dids \cup {None}] : Owners(f) => Follows(f, f)
  BY <1>1, SameFollow
<1> QED BY <1>1, <1>2, <1>3, PagesKept DEF ConsoleTypes

LEMMA ElsewhereStep == ConsoleInv /\ Elsewhere => ConsoleInv'
<1> SUFFICES ASSUME ConsoleInv, Elsewhere PROVE ConsoleInv'
  OBVIOUS
<1>1. /\ Press /\ tab' = tab /\ poll' = poll /\ exported' = exported /\ late' = late
      /\ minted' = minted /\ sess' = sess /\ ConsoleTypes
  BY DEF Elsewhere, ConsoleInv
<1>2. CASE stored' \in Dids /\ UNCHANGED <<served, started>>
  <2>1. ServerRight /\ \A f \in [AgentIds -> Dids \cup {None}] : Owners(f) => Follows(f, f)
    BY <1>1, <1>2, ServerKept DEF server
  <2> QED BY <1>1, <1>2, <2>1, PagesKept, Pressed DEF ConsoleTypes
<1>3. ASSUME NEW r \in served, UNCHANGED stored,
             \/ /\ served' = (served \ {r}) \cup {[r EXCEPT !.on = ~r.on]}
                /\ started' = IF r.on THEN started ELSE started \cup {r.id}
             \/ ~r.on /\ served' = served \ {r} /\ UNCHANGED started
      PROVE  ConsoleInv'
  <2>1. r \in Row /\ r.id \in AgentIds /\ r.on \in BOOLEAN
    BY <1>1 DEF ConsoleTypes, Row
  <2>2. started \subseteq started' /\ started' \subseteq AgentIds
    BY <1>1, <1>3, <2>1 DEF ConsoleTypes
  <2>3. ServerRight /\ \A f \in [AgentIds -> Dids \cup {None}] : Owners(f) => Follows(f, f)
    BY <1>1, <1>3, <2>1, <2>2, RowChanges
  <2> QED BY <1>1, <1>3, <2>2, <2>3, PagesKept, Pressed DEF ConsoleTypes
<1> QED BY <1>2, <1>3 DEF Elsewhere

LEMMA ServePollStep ==
  ASSUME ConsoleInv, NEW t \in Tabs, NEW k \in Polls \cup {0}, ServePoll(t, k) PROVE ConsoleInv'
<1> DEFINE did == Session(poll[t][k].token)
<1>1. /\ ConsoleTypes /\ poll \in [Tabs -> [Polls \cup {0} -> PollStates]]
      /\ poll[t][k] \in PollStates /\ served \in SUBSET Row /\ OneRowEach(served)
  BY DEF ConsoleInv, ConsoleTypes
<1>2. /\ poll[t][k].phase = "asked"
      /\ poll' = [poll EXCEPT ![t][k].phase = "answered", ![t][k].owner = did, ![t][k].rows = OwnedBy(did)]
      /\ UNCHANGED <<stored, tab, server, late, exported, started, presses>>
  BY DEF ServePoll
<1>3. /\ did \in Dids \cup {None} /\ OwnedBy(did) \in SUBSET Row /\ OwnedBy(did) \subseteq served
      /\ did # None => /\ poll[t][k].token \in Tokens /\ sess[poll[t][k].token] = did
      /\ \A r \in OwnedBy(did) : r.owner = did
  BY <1>1, SessionIs DEF OwnedBy, Session
<1>4. PICK p \in PollStates :
        /\ poll' = [poll EXCEPT ![t][k] = p]
        /\ p.phase = "answered" /\ p.owner = did /\ p.rows = OwnedBy(did)
        /\ p.token = poll[t][k].token
  <2> HIDE DEF did
  <2> DEFINE p == [poll[t][k] EXCEPT !.phase = "answered", !.owner = did, !.rows = OwnedBy(did)]
  <2>1. poll' = [poll EXCEPT ![t][k] = p]
    BY <1>1, <1>2
  <2>2. p \in PollStates
    BY <1>1, <1>3 DEF PollStates
  <2>3. /\ p.phase = "answered" /\ p.owner = did /\ p.rows = OwnedBy(did)
        /\ p.token = poll[t][k].token
    BY <1>1 DEF PollStates
  <2> QED BY <2>1, <2>2, <2>3
<1>5. /\ served' = served /\ sess' = sess /\ minted' = minted
  BY <1>2 DEF server
<1>6. Lists(p)'
  <2>1. Lists(p)
    BY <1>1, <1>3, <1>4 DEF Lists, OneRowEach, PollStates
  <2> QED BY <1>5, <2>1 DEF Lists
<1>7. /\ poll' \in [Tabs -> [Polls \cup {0} -> PollStates]]
      /\ \A u \in Tabs, j \in Polls \cup {0} :
           poll'[u][j] = poll[u][j] \/ (Lists(poll[u][j])' /\ poll'[u][j].rows \subseteq served')
  <2>1. poll' \in [Tabs -> [Polls \cup {0} -> PollStates]]
    BY <1>1, <1>4
  <2>2. \A u \in Tabs, j \in Polls \cup {0} : poll'[u][j] = poll[u][j] \/ poll'[u][j] = p
    BY <1>1, <1>4
  <2>3. \A u \in Tabs, j \in Polls \cup {0} : poll'[u][j] = p => Lists(poll[u][j])'
    BY <1>6
  <2> QED BY <1>3, <1>4, <1>5, <2>1, <2>2, <2>3
<1>8. ServerRight
  BY <1>2, ServerKept
<1>9. ASSUME NEW f \in [AgentIds -> Dids \cup {None}], Owners(f)
      PROVE  Follows(f, f) /\ \A u \in Tabs : AnswerOf(f, tab[u].op)'
  BY <1>2, <1>8, <1>9, ServerKept, AnswersFollow
<1> QED BY <1>1, <1>2, <1>7, <1>8, <1>9, TabsKept, ApiStep DEF ConsoleTypes

\* The request that a tab waits for is answered.
LEMMA ServeStep ==
  ASSUME ConsoleInv, NEW t \in Tabs, Serve(t) PROVE ConsoleInv'
<1>1. /\ tab \in [Tabs -> TabStates] /\ tab[t] \in TabStates /\ tab[t].op \in Ops /\ ConsoleTypes
      /\ Asks(tab[t].op) /\ Works(tab[t].op)
  BY DEF ConsoleInv, ConsoleTypes, TabStates
<1>2. /\ tab[t].op.phase = "sent" /\ exported' = exported /\ started' = started
      /\ UNCHANGED <<stored, poll, late, presses>>
  BY DEF Serve
<1>3. ServerRight /\ \E op \in Ops :
        /\ tab' = [tab EXCEPT ![t] = [tab[t] EXCEPT !.op = op]]
        /\ op.kind = tab[t].op.kind /\ Asks(op) /\ Works(op)'
        /\ \A f \in [AgentIds -> Dids \cup {None}] : Owners(f) =>
             \E g \in [AgentIds -> Dids \cup {None}] : Follows(f, g) /\ AnswerOf(g, op)'
  <2>1. ASSUME NEW a \in AgentIds \cup {NoAgent}, NEW k \in Tokens \cup {NoToken},
               Carry(tab[t].op, a, k),
               tab' = [tab EXCEPT ![t].op.phase = "ok", ![t].op.agent = a, ![t].op.token = k,
                                  ![t].op.did = Session(k)']
        PROVE  <1>3
    <3>1. PICK req \in Ops : req = tab[t].op
      BY <1>1
    <3>2. Carried(req, a, k)
      BY <1>1, <1>2, <2>1, <3>1, RequestCarried
    <3>3. /\ req.kind # "logout" /\ req.kind \notin {"idle"} \cup LocalKinds
      BY <1>1, <1>2, <3>1 DEF Works
    <3>4. PICK did \in Dids : did = Session(k)' /\ k \in Tokens /\ sess'[k] = did
      BY <3>2, <3>3 DEF Carried
    <3>5. PICK op \in Ops :
            /\ op = [req EXCEPT !.phase = "ok", !.agent = a, !.token = k, !.did = did]
            /\ op.kind = req.kind /\ op.phase = "ok" /\ op.agent = a /\ op.token = k /\ op.did = did
      <4> DEFINE op == [req EXCEPT !.phase = "ok", !.agent = a, !.token = k, !.did = did]
      <4>1. /\ op \in Ops
            /\ op.kind = req.kind /\ op.phase = "ok" /\ op.agent = a /\ op.token = k /\ op.did = did
        BY <3>4 DEF Ops
      <4> QED BY <4>1
    <3>6. tab' = [tab EXCEPT ![t] = [tab[t] EXCEPT !.op = op]]
      <4>1. tab' = [tab EXCEPT ![t].op.phase = "ok", ![t].op.agent = a, ![t].op.token = k,
                               ![t].op.did = did]
        BY <2>1, <3>4
      <4>2. tab' = [tab EXCEPT ![t] = [tab[t] EXCEPT !.op =
                      [tab[t].op EXCEPT !.phase = "ok", !.agent = a, !.token = k, !.did = did]]]
        BY <1>1, <4>1 DEF TabStates
      <4> QED BY <3>1, <3>5, <4>2
    <3>7. Asks(op)
      <4>1. req.kind \in {"enable", "start"} => a = req.agent
        BY <2>1, <3>1 DEF Carry
      <4> QED BY <1>1, <3>1, <3>5, <4>1 DEF Asks
    <3>8. Works(op)'
      <4>1. req.kind \in AgentKinds => a \in AgentIds
        BY <3>2, <3>3 DEF Carried
      <4> QED BY <3>3, <3>4, <3>5, <4>1 DEF Works, LocalKinds
    <3>9. ASSUME NEW f \in [AgentIds -> Dids \cup {None}], Owners(f)
          PROVE  \E g \in [AgentIds -> Dids \cup {None}] : Follows(f, g) /\ AnswerOf(g, op)'
      <4>1. PICK g \in [AgentIds -> Dids \cup {None}] :
              /\ Follows(f, g)
              /\ req.kind \in AgentKinds => a <= minted' /\ Session(k)' = g[a]
        BY <3>2, <3>9 DEF Carried
      <4>2. AnswerOf(g, op)'
        BY <3>4, <3>5, <4>1 DEF AnswerOf
      <4> QED BY <4>1, <4>2
    <3> QED BY <3>1, <3>2, <3>5, <3>6, <3>7, <3>8, <3>9 DEF Carried
  <2>2. ASSUME tab' = [tab EXCEPT ![t].op.phase = "bad"], UNCHANGED server
        PROVE  <1>3
    <3>1. PICK req \in Ops : req = tab[t].op
      BY <1>1
    <3>2. PICK op \in Ops : /\ op = [req EXCEPT !.phase = "bad"] /\ op.kind = req.kind
                           /\ op.agent = req.agent /\ op.phase = "bad"
      <4> DEFINE op == [req EXCEPT !.phase = "bad"]
      <4>1. op \in Ops /\ op.kind = req.kind /\ op.agent = req.agent /\ op.phase = "bad"
        BY DEF Ops
      <4> QED BY <4>1
    <3>3. tab' = [tab EXCEPT ![t] = [tab[t] EXCEPT !.op = op]]
      BY <1>1, <2>2, <3>1, <3>2 DEF TabStates
    <3>4. Asks(op)
      BY <1>1, <3>1, <3>2 DEF Asks
    <3>5. Works(op)'
      BY <1>1, <1>2, <3>1, <3>2 DEF Works, LocalKinds
    <3>6. \A g : AnswerOf(g, op)'
      BY <3>2 DEF AnswerOf
    <3>7. ServerRight /\ \A f \in [AgentIds -> Dids \cup {None}] : Owners(f) => Follows(f, f)
      BY <1>2, <2>2, ServerKept
    <3> QED BY <3>1, <3>2, <3>3, <3>4, <3>5, <3>6, <3>7
  <2> QED BY <2>1, <2>2 DEF Serve
<1>4. PICK op \in Ops :
        /\ tab' = [tab EXCEPT ![t] = [tab[t] EXCEPT !.op = op]]
        /\ op.kind = tab[t].op.kind /\ Asks(op) /\ Works(op)'
        /\ \A f \in [AgentIds -> Dids \cup {None}] : Owners(f) =>
             \E g \in [AgentIds -> Dids \cup {None}] : Follows(f, g) /\ AnswerOf(g, op)'
  BY <1>3
<1>5. PICK s \in TabStates :
        /\ tab' = [tab EXCEPT ![t] = s]
        /\ s.shown = tab[t].shown /\ s.token = tab[t].token /\ s.stray = tab[t].stray /\ s.op = op
  <2> DEFINE s == [tab[t] EXCEPT !.op = op]
  <2>1. s \in TabStates
    BY <1>1 DEF TabStates
  <2>2. s.shown = tab[t].shown /\ s.token = tab[t].token /\ s.stray = tab[t].stray /\ s.op = op
    BY <1>1 DEF TabStates
  <2> QED BY <1>4, <2>1, <2>2
<1>6. tab' \in [Tabs -> TabStates] /\ tab'[t] = s /\ \A u \in Tabs : u # t => tab'[u] = tab[u]
  BY <1>1, <1>5
<1>7. ASSUME NEW u \in Tabs
      PROVE  /\ tab'[u].shown = tab[u].shown /\ tab'[u].token = tab[u].token
             /\ tab'[u].stray = tab[u].stray /\ tab'[u].op.kind = tab[u].op.kind
             /\ (Asks(tab[u].op) /\ Works(tab[u].op))'
  <2>1. CASE u = t
    <3>1. Asks(op)'
      BY <1>2, <1>4, AsksKept
    <3> QED BY <1>4, <1>5, <1>6, <2>1, <3>1
  <2>2. CASE u # t
    <3>1. PICK o : o = tab[u].op /\ Asks(o) /\ Works(o)
      BY DEF ConsoleInv
    <3>2. Asks(o)' /\ Works(o)'
      BY <1>2, <1>3, <3>1, AsksKept, WorksKept DEF ServerRight
    <3> QED BY <1>6, <2>2, <3>1, <3>2
  <2> QED BY <2>1, <2>2
<1>8. ASSUME NEW f \in [AgentIds -> Dids \cup {None}], Owners(f)
      PROVE  \E g \in [AgentIds -> Dids \cup {None}] :
               Follows(f, g) /\ \A u \in Tabs : AnswerOf(g, tab[u].op)'
  <2>1. PICK g \in [AgentIds -> Dids \cup {None}] : Follows(f, g) /\ AnswerOf(g, op)'
    BY <1>4, <1>8
  <2>2. ASSUME NEW u \in Tabs PROVE AnswerOf(g, tab[u].op)'
    <3>1. CASE u = t
      BY <1>5, <1>6, <2>1, <3>1
    <3>2. CASE u # t
      BY <1>3, <1>6, <1>8, <2>1, <3>2, AnswersFollow
    <3> QED BY <3>1, <3>2
  <2> QED BY <2>1, <2>2
<1> QED BY <1>1, <1>2, <1>3, <1>6, <1>7, <1>8, ApiStep DEF ConsoleTypes

LEMMA ConsoleStuttering == ConsoleInv /\ UNCHANGED vars => ConsoleInv'
<1> SUFFICES ASSUME ConsoleInv, UNCHANGED vars PROVE ConsoleInv'
  OBVIOUS
<1>1. /\ UNCHANGED server /\ tab' = tab /\ poll' = poll /\ stored' = stored /\ exported' = exported
      /\ started' = started /\ presses' = presses /\ late' = late
  BY DEF vars, console
<1>2. ServerRight /\ \A f \in [AgentIds -> Dids \cup {None}] : Owners(f) => Follows(f, f)
  BY <1>1, ServerKept
<1>3. ConsoleTypes
  BY DEF ConsoleInv
<1> QED BY <1>1, <1>2, <1>3, PagesKept DEF ConsoleTypes

\* The browser and the API keep the invariant, whatever the owner presses and whatever
\* is lost, late or given up.
THEOREM ConsoleInvariance == Spec => []ConsoleInv
<1>1. ASSUME ConsoleInv, [Next]_vars PROVE ConsoleInv'
  <2>1. CASE Api
    BY <1>1, <2>1, ServeStep, ServePollStep, ServeLateStep, ExpireStep, ElsewhereStep DEF Api
  <2>2. ASSUME NEW t \in Tabs, Owner(t) \/ Tab(t) PROVE ConsoleInv'
    BY <1>1, <2>2, TabSteps
  <2>3. CASE UNCHANGED vars
    BY <1>1, <2>3, ConsoleStuttering
  <2> QED BY <1>1, <2>1, <2>2, <2>3 DEF Next
<1> QED BY <1>1, ConsoleInitially, PTL DEF Spec

\* The state of the tabs, the requests on their way and the API stays well formed, and
\* an agent has one row in the table and on a page.
THEOREM ConsoleTypeCorrect == Spec => []TypeOK
<1>1. ConsoleInv => TypeOK
  <2> SUFFICES ASSUME ConsoleInv PROVE TypeOK
    OBVIOUS
  <2>1. ConsoleTypes /\ OneRowEach(served)
    BY DEF ConsoleInv
  <2>2. ASSUME NEW t \in Tabs
        PROVE  /\ {tab[t].vault, tab[t].identity} \subseteq Dids \cup {None}
               /\ tab[t].token \in Tokens \cup {NoToken}
               /\ tab[t].shown \subseteq Row
               /\ \A r, s \in tab[t].shown : r.id = s.id => r = s
               /\ tab[t].setup \in BOOLEAN /\ tab[t].stray \subseteq AgentIds
               /\ {tab[t].editing, tab[t].confirm} \subseteq AgentIds \cup {NoAgent}
               /\ tab[t].op.kind \in {"idle"} \cup LocalKinds \cup RemoteKinds
               /\ tab[t].op.phase \in {"local", "sent", "ok", "bad"}
               /\ tab[t].save.token \in Tokens \cup {NoToken}
               /\ tab[t].op.phase = "local" <=> tab[t].op.kind \in {"idle"} \cup LocalKinds
    <3>1. tab[t] \in TabStates /\ Works(tab[t].op) /\ Shows(tab[t])
      BY DEF ConsoleInv, ConsoleTypes
    <3>2. tab[t].op \in Ops /\ tab[t].save \in Saves
      BY <3>1 DEF TabStates
    <3>3. \A r, s \in tab[t].shown : r.id = s.id => r = s
      BY <3>1 DEF Shows, OneRowEach
    <3>4. tab[t].op.phase = "local" <=> tab[t].op.kind \in {"idle"} \cup LocalKinds
      BY <3>1 DEF Works
    <3>5. /\ tab[t].op.kind \in {"idle"} \cup LocalKinds \cup RemoteKinds
          /\ tab[t].op.phase \in {"local", "sent", "ok", "bad"}
          /\ tab[t].save.token \in Tokens \cup {NoToken}
      BY <3>2 DEF Ops, Saves
    <3> QED BY <3>1, <3>3, <3>4, <3>5 DEF TabStates
  <2>3. ASSUME NEW t \in Tabs, NEW k \in Polls \cup {0}
        PROVE  poll[t][k].phase \in {"none", "asked", "answered"} /\ poll[t][k].rows \subseteq Row
    BY <2>1 DEF ConsoleTypes, PollStates
  <2> QED BY <2>1, <2>2, <2>3 DEF TypeOK, ConsoleTypes, OneRowEach
<1> QED BY <1>1, ConsoleInvariance, PTL

\* The agents listed under a session are its owner's, whatever lists, presses, logins
\* and changes of the vault cross each other, strays aside (loadAgents, App.tsx).
THEOREM AgentsShownAreMine == Spec => []ShownAreMine
<1>1. ConsoleInv => ShownAreMine
  BY DEF ConsoleInv, Shows, ShownAreMine
<1> QED BY <1>1, ConsoleInvariance, PTL

\* An agent that runs has had its recovery vault downloaded, or was started by its
\* owner (createHostedAgent, App.tsx).
THEOREM RunningIsRecoverable == Spec => []RunsWithRecovery
<1>1. ConsoleInv => RunsWithRecovery
  BY DEF ConsoleInv
<1> QED BY <1>1, ConsoleInvariance, PTL

-----------------------------------------------------------------------------
\* Updater: what the old files are kept in.

Saved == (Install \ {"backup"}) \cup Trap

\* What a run is yet to write holds nothing, and from its backup on, whatever is still
\* old in the installation is also in the backup.
Kept(r, c) ==
  /\ c \in {"new", "backup"} => backup[r] = Nothing
  /\ c \in {"new", "backup", "stop", "move"} => aside[r] = "none"
  /\ c \in Saved => \A n \in Names : files[n] = "old" => backup[r][n] = "old"

KeptInv == \A r \in Runs : Kept(r, pc[r])

\* Updater: what the installation is at each command of an undisturbed run.

Untouched == {"backup", "stop", "move", "back up"}

Stage(r, c) ==
  /\ c \in Saved => backup[r] = Outcome
  /\ c \in Untouched => files = Outcome
  /\ c \in {"src", "package", "env"} => files["env"] = Outcome["env"]
  /\ c = "src" => files["package"] = Outcome["package"]
  /\ c = "package" => files["src"] = "new"
  /\ c = "env" => files["src"] = "new" /\ files["package"] = "new" /\ r \in Open
  /\ c \in {"up", "health"} =>
       /\ files["src"] = "new" /\ files["package"] = "new"
       /\ files["env"] = IF r \in Open THEN "new" ELSE Outcome["env"]
  /\ c \in {"back package", "back env"} => files["src"] = Outcome["src"]
  /\ c = "back env" => files["package"] = Outcome["package"]

StageInv == \A r \in Runs : Stage(r, pc[r])

UpdaterInv ==
  /\ UpdaterTypeOK /\ KeptInv /\ OldKept /\ AllOrNothing /\ RunsWhole
  /\ Undisturbed => StageInv

LEMMA UpdaterInitially == UpdaterInit => UpdaterInv
<1> SUFFICES ASSUME UpdaterInit PROVE UpdaterInv
  OBVIOUS
<1>1. UpdaterTypeOK
  BY UpdaterAssumption
  DEF UpdaterInit, UpdaterTypeOK, Installed, Nothing, Contents, AtWork, Install, Trap
<1>2. KeptInv /\ OldKept
  BY DEF UpdaterInit, KeptInv, Kept, OldKept, Saved, Install, Trap, Installed
<1>3. Outcome = [src |-> "old", package |-> "old", env |-> "old"]
  BY DEF UpdaterInit, Outcome
<1>4. Installed = [src |-> "old", package |-> "old", env |-> "old"]
  BY DEF Installed, Names
<1>5. AllOrNothing /\ RunsWhole
  BY <1>3, <1>4 DEF UpdaterInit, AllOrNothing, RunsWhole, Installed, Names
<1>6. StageInv
  BY DEF UpdaterInit, StageInv, Stage, Saved, Install, Trap, Untouched
<1> QED BY <1>1, <1>2, <1>5, <1>6 DEF UpdaterInv

\* While a run is at work, no other run moves.
LEMMA Alone ==
  ASSUME UpdaterTypeOK, NEW r \in Runs, AtWork(r), NEW s \in Runs, s # r
  PROVE  ~AtWork(s)
  BY DEF UpdaterTypeOK

\* A step of a run that does not end in success leaves what the installation is to be.
LEMMA OutcomeKept ==
  ASSUME UpdaterTypeOK, NEW r \in Runs, NEW c, Goto(r, c), pc[r] # "done", c # "done"
  PROVE  Outcome' = Outcome
<1>1. pc \in [Runs -> {"new"} \cup Install \cup Trap \cup Ended]
  BY DEF UpdaterTypeOK
<1>2. { s \in Runs : pc'[s] = "done" } = { s \in Runs : pc[s] = "done" }
  BY <1>1 DEF Goto
<1> QED BY <1>2 DEF Outcome

LEMMA OutcomeType == UpdaterTypeOK => Outcome \in [Names -> {"old", "new"}]
  BY DEF Outcome, Names

\* What every command of a run does but for its own writes.
Command(r, c) ==
  /\ r \in Runs /\ Goto(r, c)
  /\ AtWork(r) /\ kills' \in kills .. MaxKills

LEMMA IsCommand ==
  ASSUME UpdaterTypeOK, NEW r \in Runs, NEW c, Goto(r, c), AtWork(r), kills' = kills
  PROVE  Command(r, c)
<1>1. kills \in Nat /\ MaxKills \in Nat /\ kills <= MaxKills
  BY UpdaterAssumption DEF UpdaterTypeOK
<1> QED BY <1>1 DEF Command

\* One command: where all runs are afterwards.
LEMMA Moved ==
  ASSUME UpdaterTypeOK, NEW r, NEW c, Command(r, c), c \in Install \cup Trap \cup Ended
  PROVE  /\ pc' \in [Runs -> {"new"} \cup Install \cup Trap \cup Ended]
         /\ pc'[r] = c
         /\ \A s \in Runs : s # r => pc'[s] = pc[s] /\ ~AtWork(s) /\ ~AtWork(s)'
         /\ \A s, q \in Runs : AtWork(s)' /\ AtWork(q)' => s = q
         /\ pc[r] \in Install \cup Trap
<1>1. pc \in [Runs -> {"new"} \cup Install \cup Trap \cup Ended]
  BY DEF UpdaterTypeOK
<1>2. \A s \in Runs : s # r => pc'[s] = pc[s] /\ ~AtWork(s)
  BY <1>1, Alone DEF Command, Goto
<1>3. \A s \in Runs : s # r => ~AtWork(s)'
  BY <1>2 DEF AtWork
<1> QED BY <1>1, <1>2, <1>3 DEF Command, Goto, AtWork

\* A run keeps what it saved while others are not at work.
LEMMA KeptStays ==
  ASSUME UpdaterInv, NEW r, NEW c, Command(r, c), c \in Install \cup Trap \cup Ended,
         \A s \in Runs : s # r => backup'[s] = backup[s] /\ aside'[s] = aside[s],
         Kept(r, c)'
  PROVE  KeptInv'
<1>1. UpdaterTypeOK /\ KeptInv
  BY DEF UpdaterInv
<1>2. pc'[r] = c /\ \A s \in Runs : s # r => pc'[s] = pc[s] /\ ~AtWork(s)
  BY <1>1, Moved
<1>3. SUFFICES ASSUME NEW s \in Runs PROVE Kept(s, pc[s])'
  BY DEF KeptInv
<1>4. CASE s = r
  BY <1>2, <1>4 DEF Kept
<1>5. CASE s # r
  <2>1. Kept(s, pc[s])
    BY <1>1 DEF KeptInv
  <2> QED BY <1>2, <1>5, <2>1 DEF Kept, AtWork, Saved, Install, Trap
<1> QED BY <1>4, <1>5

\* Nothing that was kept is lost, and what goes from the installation is kept.
LEMMA OldStays ==
  ASSUME OldKept,
         \A n \in Names : files[n] = "old" /\ files'[n] # "old" =>
           \E s \in Runs : backup'[s][n] = "old",
         \A s \in Runs, n \in Names : backup[s][n] = "old" => backup'[s][n] = "old",
         \A s \in Runs : aside[s] = "old" => aside'[s] = "old"
  PROVE  OldKept'
<1>1. SUFFICES ASSUME NEW n \in Names, files'[n] # "old"
               PROVE  \E s \in Runs : backup'[s][n] = "old" \/ (n = "src" /\ aside'[s] = "old")
  BY DEF OldKept
<1>2. CASE files[n] = "old"
  BY <1>1, <1>2
<1>3. CASE files[n] # "old"
  <2>1. PICK s \in Runs : backup[s][n] = "old" \/ (n = "src" /\ aside[s] = "old")
    BY <1>3 DEF OldKept
  <2> QED BY <2>1
<1> QED BY <1>2, <1>3

\* After its backup a run may do what it likes to the installation.
LEMMA OldInBackup ==
  ASSUME UpdaterInv, NEW r \in Runs, pc[r] \in Saved, backup' = backup,
         \A s \in Runs : aside[s] = "old" => aside'[s] = "old"
  PROVE  OldKept'
<1>1. Kept(r, pc[r]) /\ OldKept
  BY DEF UpdaterInv, KeptInv
<1>2. \A n \in Names : files[n] = "old" => backup'[r][n] = "old"
  BY <1>1 DEF Kept
<1>3. \A s \in Runs, n \in Names : backup[s][n] = "old" => backup'[s][n] = "old"
  OBVIOUS
<1> QED BY <1>1, <1>2, <1>3, OldStays

\* So far undisturbed, a command leaves the other runs where they were.
LEMMA OthersStage ==
  ASSUME UpdaterInv, NEW r, NEW c, Command(r, c), c \in Install \cup Trap \cup Ended,
         Undisturbed'
  PROVE  /\ Undisturbed
         /\ \A s \in Runs : s # r => pc'[s] \notin Install \cup Trap
         /\ c # "broken"
<1>1. UpdaterTypeOK
  BY DEF UpdaterInv
<1>2. pc'[r] = c /\ \A s \in Runs : s # r => pc'[s] = pc[s] /\ ~AtWork(s)'
  BY <1>1, Moved
<1>3. pc[r] # "broken"
  BY DEF Command, AtWork, Install, Trap
<1>4. kills \in Nat /\ MaxKills \in Nat
  BY <1>1, UpdaterAssumption DEF UpdaterTypeOK
<1>5. kills = 0
  BY <1>4 DEF Command, Undisturbed
<1> QED BY <1>2, <1>3, <1>5 DEF Undisturbed, Command, AtWork

LEMMA CheckStep ==
  ASSUME UpdaterInv, NEW r \in Runs, Check(r)
  PROVE  UpdaterInv'
<1>1. UpdaterTypeOK /\ KeptInv /\ OldKept /\ AllOrNothing /\ RunsWhole
  BY DEF UpdaterInv
<1>2. pc \in [Runs -> {"new"} \cup Install \cup Trap \cup Ended]
  BY <1>1 DEF UpdaterTypeOK
<1>3. pc'[r] = "backup" /\ \A s \in Runs : s # r => pc'[s] = pc[s] /\ ~AtWork(s) /\ ~AtWork(s)'
  BY <1>2 DEF Check, Goto, Unlocked, AtWork
<1>4. UpdaterTypeOK'
  <2>1. pc' \in [Runs -> {"new"} \cup Install \cup Trap \cup Ended]
    BY <1>2 DEF Check, Goto, Install
  <2> QED BY <1>1, <1>3, <2>1 DEF UpdaterTypeOK, Check
<1>5. KeptInv'
  BY <1>1, <1>3 DEF KeptInv, Kept, Check, Saved, Install, Trap
<1>6. OldKept'
  BY <1>1 DEF OldKept, Check
<1>7. Outcome' = Outcome
  BY <1>1, OutcomeKept DEF Check
<1>8. ASSUME Undisturbed' PROVE AllOrNothing' /\ RunsWhole' /\ StageInv'
  <2>1. Undisturbed
    BY <1>3, <1>8 DEF Undisturbed, Check
  <2>2. files = Outcome
    BY <1>1, <1>3, <2>1 DEF AllOrNothing, Check, AtWork, Install, Trap
  <2>3. AllOrNothing'
    BY <1>7, <2>2 DEF AllOrNothing, Check
  <2>4. StageInv'
    BY <1>3, <1>7, <2>2 DEF StageInv, Stage, Saved, Check, Untouched, AtWork, Install, Trap
  <2>5. RunsWhole'
    BY <1>1, <1>3, <2>1 DEF RunsWhole, Check
  <2> QED BY <2>3, <2>4, <2>5
<1>9. AllOrNothing' /\ RunsWhole'
  BY <1>8 DEF AllOrNothing, RunsWhole
<1> QED BY <1>4, <1>5, <1>6, <1>8, <1>9 DEF UpdaterInv

\* What is left to show of a command: the undisturbed case, of the run it belongs to.
LEMMA CommandStep ==
  ASSUME UpdaterInv, NEW r, NEW c, Command(r, c), c \in Install \cup Trap \cup Ended,
         files' \in [Names -> Contents], image' \in [Names -> Contents],
         backup' \in [Runs -> [Names -> Contents]], aside' \in [Runs -> Contents],
         up' \in BOOLEAN, Kept(r, c)', OldKept',
         \A s \in Runs : s # r => backup'[s] = backup[s] /\ aside'[s] = aside[s],
         Undisturbed /\ Undisturbed' /\ StageInv =>
           AllOrNothing' /\ RunsWhole' /\ Stage(r, c)'
  PROVE  UpdaterInv'
<1>1. UpdaterTypeOK
  BY DEF UpdaterInv
<1>2. pc'[r] = c
  BY <1>1, Moved
<1>3. UpdaterTypeOK'
  <2>1. kills' \in 0 .. MaxKills
    BY <1>1, UpdaterAssumption DEF UpdaterTypeOK, Command
  <2> QED BY <1>1, <2>1, Moved DEF UpdaterTypeOK
<1>4. ASSUME Undisturbed' PROVE AllOrNothing' /\ RunsWhole' /\ StageInv'
  <2>1. Undisturbed /\ StageInv /\ \A s \in Runs : s # r => pc'[s] \notin Install \cup Trap
    BY <1>4, OthersStage DEF UpdaterInv
  <2>2. \A s \in Runs : s # r => ~AtWork(s)' /\ pc'[s] \notin Install \cup Trap
    BY <2>1 DEF AtWork
  <2>3. AllOrNothing' /\ RunsWhole'
    BY <1>4, <2>1
  <2>4. ASSUME NEW s \in Runs, s # r PROVE Stage(s, pc[s])'
    BY <2>2, <2>4 DEF Stage, Saved, Untouched, Install, Trap
  <2>5. Stage(r, pc[r])'
    BY <1>2, <1>4, <2>1 DEF Stage
  <2>6. StageInv'
    BY <2>4, <2>5 DEF StageInv
  <2> QED BY <2>3, <2>6
<1>5. AllOrNothing' /\ RunsWhole'
  BY <1>4 DEF AllOrNothing, RunsWhole
<1>6. KeptInv'
  BY KeptStays
<1> QED BY <1>3, <1>4, <1>5, <1>6 DEF UpdaterInv

LEMMA BackupStep ==
  ASSUME UpdaterInv, NEW r \in Runs, Backup(r)
  PROVE  UpdaterInv'
<1>1. UpdaterTypeOK /\ KeptInv /\ OldKept /\ AllOrNothing /\ RunsWhole /\ pc[r] = "backup"
  BY DEF UpdaterInv, Backup
<1>2. PICK c \in {"stop", "given up"} :
        Goto(r, c) /\ backup' = (IF c = "stop" THEN [backup EXCEPT ![r] = files] ELSE backup)
  BY DEF Backup
<1>3. Command(r, c) /\ c \in Install \cup Trap \cup Ended /\ c # "done"
  BY <1>1, <1>2, IsCommand DEF Backup, AtWork, Install, Trap, Ended
<1>4. pc'[r] = c /\ \A s \in Runs : s # r => pc'[s] = pc[s]
  BY <1>1, <1>3, Moved
<1>5. backup' \in [Runs -> [Names -> Contents]]
  BY <1>1, <1>2 DEF UpdaterTypeOK
<1>6. \A s \in Runs : s # r => backup'[s] = backup[s]
  BY <1>1, <1>2 DEF UpdaterTypeOK
<1>7. c = "stop" => backup'[r] = files
  BY <1>1, <1>2 DEF UpdaterTypeOK
<1>8. Kept(r, c)'
  <2>1. Kept(r, pc[r]) /\ files' = files /\ aside' = aside
    BY <1>1 DEF KeptInv, Backup
  <2> QED BY <1>1, <1>7, <2>1 DEF Kept, Saved, Install, Trap
<1>9. OldKept'
  <2>1. backup[r] = Nothing
    BY <1>1 DEF KeptInv, Kept
  <2>2. \A n \in Names : backup[r][n] # "old"
    BY <2>1 DEF Nothing
  <2>3. \A s \in Runs, n \in Names : backup[s][n] = "old" => backup'[s][n] = "old"
    BY <1>6, <2>2
  <2>4. files' = files /\ aside' = aside
    BY DEF Backup
  <2> QED BY <1>1, <2>3, <2>4, OldStays
<1>10. \A s \in Runs : s # r => backup'[s] = backup[s] /\ aside'[s] = aside[s]
  BY <1>6 DEF Backup
<1>11. Outcome' = Outcome
  BY <1>1, <1>2, <1>3, OutcomeKept
<1>12. ASSUME Undisturbed, Undisturbed', StageInv
       PROVE  AllOrNothing' /\ RunsWhole' /\ Stage(r, c)'
  <2>1. files = Outcome /\ files' = files
    BY <1>1, <1>12 DEF StageInv, Stage, Untouched, Backup
  <2>2. AllOrNothing'
    BY <1>11, <2>1 DEF AllOrNothing
  <2>3. RunsWhole'
    BY <1>1, <1>2, <1>4, <1>12 DEF RunsWhole, Backup
  <2>4. Stage(r, c)'
    BY <1>2, <1>7, <1>11, <2>1 DEF Stage, Saved, Untouched, Install, Trap
  <2> QED BY <2>2, <2>3, <2>4
<1> QED BY <1>1, <1>3, <1>5, <1>8, <1>9, <1>10, <1>12, CommandStep DEF Backup, UpdaterTypeOK

\* The hypotheses of CommandStep that every command which writes no backup meets.
LEMMA SavedStep ==
  ASSUME UpdaterInv, NEW r \in Runs, NEW c, Goto(r, c), pc[r] \in Saved,
         c \in (Saved \cup Ended) \ {"done"},
         UNCHANGED <<backup, aside, kills>>,
         files' \in [Names -> Contents], image' \in [Names -> Contents], up' \in BOOLEAN,
         c \in {"stop", "move"} => pc[r] \in {"stop", "move"},
         c \in Saved => \A n \in Names : files'[n] = "old" => files[n] = "old" \/ backup[r][n] = "old",
         Undisturbed /\ Undisturbed' /\ StageInv /\ Outcome' = Outcome =>
           AllOrNothing' /\ RunsWhole' /\ Stage(r, c)'
  PROVE  UpdaterInv'
<1>1. UpdaterTypeOK /\ Kept(r, pc[r])
  BY DEF UpdaterInv, KeptInv
<1>2. Command(r, c) /\ c \in Install \cup Trap \cup Ended
  BY <1>1, IsCommand DEF AtWork, Saved
<1>3. Kept(r, c)'
  BY <1>1 DEF Kept, Saved, Ended, Install, Trap
<1>4. OldKept'
  BY OldInBackup
<1>5. Outcome' = Outcome
  BY <1>1, OutcomeKept DEF Saved, Install, Trap
<1> QED BY <1>1, <1>2, <1>3, <1>4, <1>5, CommandStep DEF UpdaterTypeOK

LEMMA StopStep ==
  ASSUME UpdaterInv, NEW r \in Runs, Stop(r)
  PROVE  UpdaterInv'
<1>1. UpdaterTypeOK /\ RunsWhole
  BY DEF UpdaterInv
<1>2. PICK c \in {"move", "given up"} : Goto(r, c)
  BY DEF Stop
<1>3. pc[r] = "stop" /\ UNCHANGED <<files, backup, aside, image, kills>> /\ up' \in BOOLEAN
  BY <1>1 DEF Stop, UpdaterTypeOK
<1>4. pc[r] \in Saved /\ c \in (Saved \cup Ended) \ {"done"} /\ c \in {"move", "given up"}
  BY <1>2, <1>3 DEF Saved, Install, Ended
<1>5. ASSUME Undisturbed, Undisturbed', StageInv, Outcome' = Outcome
      PROVE  AllOrNothing' /\ RunsWhole' /\ Stage(r, c)'
  <2>1. files = Outcome /\ backup[r] = Outcome
    BY <1>3, <1>4, <1>5 DEF StageInv, Stage, Untouched
  <2>2. \A s \in Runs : pc'[s] = "done" => pc[s] = "done"
    BY <1>1, <1>2 DEF Goto, UpdaterTypeOK
  <2> QED BY <1>1, <1>2, <1>3, <1>5, <2>1, <2>2
          DEF AllOrNothing, RunsWhole, Stage, Untouched
<1> QED BY <1>1, <1>2, <1>3, <1>4, <1>5, SavedStep DEF UpdaterTypeOK

LEMMA MoveStep ==
  ASSUME UpdaterInv, NEW r \in Runs, Move(r)
  PROVE  UpdaterInv'
<1>1. UpdaterTypeOK /\ RunsWhole /\ Kept(r, pc[r])
  BY DEF UpdaterInv, KeptInv
<1>2. PICK c \in {"src", "trap"} :
        /\ Goto(r, c)
        /\ c = "src" => /\ aside' = [aside EXCEPT ![r] = files["src"]]
                        /\ files' = [files EXCEPT !["src"] = "none"]
        /\ c = "trap" => UNCHANGED <<files, aside>>
  BY DEF Move
<1>3. pc[r] = "move" /\ UNCHANGED <<backup, image, up, kills>>
  BY DEF Move
<1>4. Command(r, c) /\ c \in Install \cup Trap \cup Ended /\ pc[r] \in Saved /\ c \in Saved
  BY <1>1, <1>2, <1>3, IsCommand DEF AtWork, Saved, Install, Trap
<1>5. /\ files' \in [Names -> Contents] /\ aside' \in [Runs -> Contents]
      /\ \A s \in Runs : s # r => aside'[s] = aside[s]
      /\ \A n \in Names : files'[n] = IF c = "src" /\ n = "src" THEN "none" ELSE files[n]
  BY <1>1, <1>2 DEF UpdaterTypeOK, Contents, Names
<1>6. aside[r] = "none" /\ \A n \in Names : files[n] = "old" => backup[r][n] = "old"
  BY <1>1, <1>3, <1>4 DEF Kept
<1>7. Kept(r, c)'
  BY <1>2, <1>3, <1>5, <1>6 DEF Kept
<1>8. OldKept'
  <2>1. \A s \in Runs : aside[s] = "old" => aside'[s] = "old"
    BY <1>5, <1>6
  <2> QED BY <1>3, <1>4, <2>1, OldInBackup
<1>9. Outcome' = Outcome
  BY <1>1, <1>2, <1>3, OutcomeKept
<1>10. ASSUME Undisturbed, Undisturbed', StageInv
       PROVE  AllOrNothing' /\ RunsWhole' /\ Stage(r, c)'
  <2>1. files = Outcome /\ backup[r] = Outcome
    BY <1>3, <1>4, <1>10 DEF StageInv, Stage, Untouched
  <2>2. pc'[r] = c /\ \A s \in Runs : pc'[s] = "done" => pc[s] = "done"
    BY <1>1, <1>2 DEF Goto, UpdaterTypeOK
  <2>3. AllOrNothing'
    BY <1>4, <2>2 DEF AllOrNothing, AtWork, Saved
  <2>4. Stage(r, c)'
    BY <1>2, <1>3, <1>5, <1>9, <2>1 DEF Stage, Untouched, Names
  <2> QED BY <1>1, <1>3, <1>10, <2>2, <2>3, <2>4 DEF RunsWhole
<1> QED BY <1>1, <1>3, <1>4, <1>5, <1>7, <1>8, <1>10, CommandStep DEF UpdaterTypeOK

LEMMA PutStep ==
  ASSUME UpdaterInv, NEW r \in Runs, NEW n \in Names, Put(r, n)
  PROVE  UpdaterInv'
<1>1. UpdaterTypeOK /\ RunsWhole
  BY DEF UpdaterInv
<1>2. PICK c \in {After(r, n), "trap"}, content \in {"new", "part"} :
        /\ Goto(r, c) /\ files' = [files EXCEPT ![n] = content]
        /\ c # "trap" => content = "new"
  BY DEF Put
<1>3. pc[r] = n /\ UNCHANGED <<backup, aside, image, up, kills>>
  BY DEF Put
<1>4. pc[r] \in Saved /\ c \in {"package", "env", "up", "trap"}
  BY <1>2, <1>3 DEF After, Names, Saved, Install
<1>5. c \in (Saved \cup Ended) \ {"done"}
  BY <1>4 DEF Saved, Install, Trap
<1>6. /\ files' \in [Names -> Contents]
      /\ \A m \in Names : files'[m] = IF m = n THEN content ELSE files[m]
  BY <1>1, <1>2 DEF UpdaterTypeOK, Contents
<1>7. ASSUME Undisturbed, Undisturbed', StageInv, Outcome' = Outcome
      PROVE  AllOrNothing' /\ RunsWhole' /\ Stage(r, c)'
  <2>1. Stage(r, n) /\ backup[r] = Outcome
    BY <1>3, <1>4, <1>7 DEF StageInv, Stage
  <2>2. pc'[r] = c /\ \A s \in Runs : pc'[s] = "done" => pc[s] = "done"
    BY <1>1, <1>2, <1>4 DEF Goto, UpdaterTypeOK
  <2>3. AllOrNothing'
    BY <1>4, <2>2 DEF AllOrNothing, AtWork, Install, Trap
  <2>4. Stage(r, c)'
    <3>1. CASE c = "trap"
      BY <1>3, <1>7, <2>1, <3>1 DEF Stage, Untouched
    <3>2. CASE c # "trap"
      <4>1. c = After(r, n) /\ content = "new"
        BY <1>2, <3>2
      <4> QED BY <1>3, <1>4, <1>6, <1>7, <2>1, <4>1 DEF Stage, Untouched, After, Names
    <3> QED BY <3>1, <3>2
  <2> QED BY <1>1, <1>3, <1>7, <2>2, <2>3, <2>4 DEF RunsWhole
<1>8. \A m \in Names : files'[m] = "old" => files[m] = "old"
  BY <1>2, <1>6
<1> QED BY <1>1, <1>2, <1>3, <1>4, <1>5, <1>6, <1>7, <1>8, SavedStep DEF UpdaterTypeOK

\* Whatever docker compose up does, it builds from the files as they are.
LEMMA StartStep ==
  ASSUME UpdaterInv, NEW r \in Runs, NEW command, NEW ok, NEW failed,
         Start(r, command, ok, failed),
         \/ command = "up" /\ ok = "health" /\ failed = "trap"
         \/ command = "back up" /\ ok = "failed" /\ failed = "failed"
  PROVE  UpdaterInv'
<1>1. UpdaterTypeOK /\ RunsWhole
  BY DEF UpdaterInv
<1>2. PICK c \in {ok, failed} : Goto(r, c)
  BY DEF Start
<1>3. /\ pc[r] = command /\ UNCHANGED <<files, backup, aside, kills>>
      /\ image' \in {image, files} /\ up' \in BOOLEAN
  BY DEF Start
<1>4. /\ pc[r] \in Saved
      /\ \/ command = "up" /\ c \in {"health", "trap"}
         \/ command = "back up" /\ c = "failed"
  BY <1>2, <1>3 DEF Saved, Install, Trap
<1>5. c \in (Saved \cup Ended) \ {"done"} /\ c \notin {"stop", "move"}
  BY <1>4 DEF Saved, Install, Trap, Ended
<1>6. ASSUME Undisturbed, Undisturbed', StageInv, Outcome' = Outcome
      PROVE  AllOrNothing' /\ RunsWhole' /\ Stage(r, c)'
  <2>1. Stage(r, command) /\ backup[r] = Outcome
    BY <1>3, <1>4, <1>6 DEF StageInv, Stage
  <2>2. pc'[r] = c /\ \A s \in Runs : pc'[s] = "done" => pc[s] = "done"
    BY <1>1, <1>2, <1>4 DEF Goto, UpdaterTypeOK
  <2>3. AllOrNothing'
    <3>1. CASE command = "up"
      BY <1>4, <2>2, <3>1 DEF AllOrNothing, AtWork, Install, Trap
    <3>2. CASE command = "back up"
      BY <1>3, <1>6, <2>1, <3>2 DEF AllOrNothing, Stage, Untouched
    <3> QED BY <1>4, <3>1, <3>2
  <2>4. Stage(r, c)'
    BY <1>3, <1>4, <1>6, <2>1 DEF Stage, Untouched, Saved, Install, Trap
  <2>5. /\ files["src"] = files["package"] /\ \A n \in Names : files[n] # "part"
        /\ (\E s \in Runs : pc[s] = "done") => files["src"] = "new"
    <3>1. CASE command = "up"
      BY <1>1, <2>1, <3>1, OutcomeType DEF Stage, Names
    <3>2. CASE command = "back up"
      <4>1. files = Outcome
        BY <2>1, <3>2 DEF Stage, Untouched
      <4>2. (\E s \in Runs : pc[s] = "done") => { s \in Runs : pc[s] = "done" } # {}
        OBVIOUS
      <4>3. Outcome["src"] = IF { s \in Runs : pc[s] = "done" } = {} THEN "old" ELSE "new"
        BY DEF Outcome
      <4>4. Outcome["src"] = Outcome["package"] /\ \A n \in Names : Outcome[n] # "part"
        BY <1>1, OutcomeType DEF Outcome, Names
      <4> QED BY <4>1, <4>2, <4>3, <4>4
    <3> QED BY <1>4, <3>1, <3>2
  <2>6. RunsWhole'
    BY <1>1, <1>3, <1>6, <2>2, <2>5 DEF RunsWhole
  <2> QED BY <2>3, <2>4, <2>6
<1> QED BY <1>1, <1>2, <1>3, <1>4, <1>5, <1>6, SavedStep DEF UpdaterTypeOK

LEMMA HealthStep ==
  ASSUME UpdaterInv, NEW r \in Runs, Health(r)
  PROVE  UpdaterInv'
<1>1. UpdaterTypeOK /\ RunsWhole /\ OldKept /\ Kept(r, pc[r])
  BY DEF UpdaterInv, KeptInv
<1>2. pc[r] = "health" /\ UNCHANGED <<files, backup, aside, image, up, kills>>
  BY DEF Health
<1>3. pc[r] \in Saved
  BY <1>2 DEF Saved, Install
<1>4. CASE Goto(r, "trap")
  <2>1. "trap" \in (Saved \cup Ended) \ {"done"}
    BY DEF Saved, Trap
  <2>2. ASSUME Undisturbed, Undisturbed', StageInv, Outcome' = Outcome
        PROVE  AllOrNothing' /\ RunsWhole' /\ Stage(r, "trap")'
    <3>1. backup[r] = Outcome
      BY <1>3, <2>2 DEF StageInv, Stage
    <3>2. pc'[r] = "trap" /\ \A s \in Runs : pc'[s] = "done" => pc[s] = "done"
      BY <1>1, <1>4 DEF Goto, UpdaterTypeOK
    <3> QED BY <1>1, <1>2, <2>2, <3>1, <3>2
            DEF AllOrNothing, RunsWhole, Stage, Untouched, AtWork, Trap
  <2> QED BY <1>1, <1>2, <1>3, <1>4, <2>1, <2>2, SavedStep DEF UpdaterTypeOK
<1>5. CASE Goto(r, "done") /\ image["src"] = "new"
  <2>1. Command(r, "done") /\ "done" \in Ended
    BY <1>1, <1>2, <1>3, <1>5, IsCommand DEF AtWork, Saved, Ended
  <2>2. Kept(r, "done")'
    BY DEF Kept, Saved, Install, Trap
  <2>3. OldKept'
    BY <1>1, <1>2 DEF OldKept
  <2>4. ASSUME Undisturbed, Undisturbed', StageInv
        PROVE  AllOrNothing' /\ RunsWhole' /\ Stage(r, "done")'
    <3>1. Stage(r, "health")
      BY <1>2, <2>4 DEF StageInv
    <3>2. { s \in Runs : pc'[s] = "done" } = { s \in Runs : pc[s] = "done" } \cup {r}
      BY <1>1, <1>5 DEF Goto, UpdaterTypeOK
    <3>3. Outcome' = [src |-> "new", package |-> "new",
                      env |-> IF r \in Open THEN "new" ELSE Outcome["env"]]
      BY <3>2 DEF Outcome
    <3>4. files = Outcome'
      <4>1. files \in [Names -> Contents]
        BY <1>1 DEF UpdaterTypeOK
      <4>2. \A n \in Names : files[n] = Outcome'[n]
        BY <3>1, <3>3 DEF Stage, Names
      <4>3. Outcome' = [n \in Names |-> Outcome'[n]]
        BY <3>3 DEF Names
      <4> QED BY <4>1, <4>2, <4>3
    <3>5. AllOrNothing'
      BY <1>2, <3>4 DEF AllOrNothing
    <3>6. RunsWhole'
      BY <1>1, <1>2, <1>5, <2>4 DEF RunsWhole
    <3>7. Stage(r, "done")'
      BY DEF Stage, Untouched, Saved, Install, Trap
    <3> QED BY <3>5, <3>6, <3>7
  <2> QED BY <1>1, <1>2, <2>1, <2>2, <2>3, <2>4, CommandStep DEF UpdaterTypeOK
<1> QED BY <1>4, <1>5 DEF Health

LEMMA BackIs ==
  /\ Back["src"] = "back src" /\ Back["package"] = "back package" /\ Back["env"] = "back env"
  BY DEF Back

\* A command of the trap that fails ends the script, and with it the undisturbed runs.
LEMMA BrokenStep ==
  ASSUME UpdaterInv, NEW r \in Runs, Goto(r, "broken"), pc[r] \in Saved,
         UNCHANGED <<backup, aside, image, up, kills>>, files' \in [Names -> Contents]
  PROVE  UpdaterInv'
<1>1. UpdaterTypeOK
  BY DEF UpdaterInv
<1>2. "broken" \in (Saved \cup Ended) \ {"done"} /\ "broken" \notin Saved \cup {"stop", "move"}
  BY DEF Ended, Saved, Install, Trap
<1>3. ~Undisturbed'
  BY <1>1 DEF Undisturbed, Goto, UpdaterTypeOK
<1> QED BY <1>1, <1>2, <1>3, SavedStep DEF UpdaterTypeOK

LEMMA UndoStep ==
  ASSUME UpdaterInv, NEW r \in Runs, Undo(r)
  PROVE  UpdaterInv'
<1>1. UpdaterTypeOK /\ RunsWhole
  BY DEF UpdaterInv
<1>2. pc[r] = "trap" /\ UNCHANGED <<backup, aside, image, up, kills>> /\ pc[r] \in Saved
  BY DEF Undo, Saved, Trap
<1>3. CASE Goto(r, "back src") /\ files' = [files EXCEPT !["src"] = "none"]
  <2>1. "back src" \in (Saved \cup Ended) \ {"done"}
    BY DEF Saved, Trap
  <2>2. /\ files' \in [Names -> Contents]
        /\ \A n \in Names : files'[n] = "old" => files[n] = "old"
    BY <1>1, <1>3 DEF UpdaterTypeOK, Contents
  <2>3. ASSUME Undisturbed, Undisturbed', StageInv, Outcome' = Outcome
        PROVE  AllOrNothing' /\ RunsWhole' /\ Stage(r, "back src")'
    <3>1. backup[r] = Outcome
      BY <1>2, <2>3 DEF StageInv, Stage
    <3>2. pc'[r] = "back src" /\ \A s \in Runs : pc'[s] = "done" => pc[s] = "done"
      BY <1>1, <1>3 DEF Goto, UpdaterTypeOK
    <3> QED BY <1>1, <1>2, <2>3, <3>1, <3>2
            DEF AllOrNothing, RunsWhole, Stage, Untouched, AtWork, Trap
  <2> QED BY <1>1, <1>2, <1>3, <2>1, <2>2, <2>3, SavedStep DEF UpdaterTypeOK
<1>4. CASE Goto(r, "broken") /\ files' = files
  BY <1>1, <1>2, <1>4, BrokenStep DEF UpdaterTypeOK
<1> QED BY <1>3, <1>4 DEF Undo

LEMMA RestoreStep ==
  ASSUME UpdaterInv, NEW r \in Runs, NEW n \in Names, Restore(r, n)
  PROVE  UpdaterInv'
<1>1. UpdaterTypeOK /\ RunsWhole
  BY DEF UpdaterInv
<1>2. pc[r] = Back[n] /\ UNCHANGED <<backup, aside, image, up, kills>>
  BY DEF Restore
<1>3. pc[r] \in Saved
  BY <1>2, BackIs DEF Saved, Trap, Names
<1>4. CASE Goto(r, Then(n)) /\ files' = [files EXCEPT ![n] = backup[r][n]]
  <2>1. Then(n) \in {"back package", "back env", "back up"}
    BY DEF Then
  <2>2. Then(n) \in (Saved \cup Ended) \ {"done"} /\ Then(n) \notin {"stop", "move"}
    BY <2>1 DEF Saved, Trap
  <2>3. /\ files' \in [Names -> Contents]
        /\ \A m \in Names : files'[m] = IF m = n THEN backup[r][m] ELSE files[m]
    BY <1>1, <1>4 DEF UpdaterTypeOK
  <2>4. ASSUME Undisturbed, Undisturbed', StageInv, Outcome' = Outcome
        PROVE  AllOrNothing' /\ RunsWhole' /\ Stage(r, Then(n))'
    <3>1. Stage(r, Back[n]) /\ backup[r] = Outcome
      BY <1>2, <1>3, <2>4 DEF StageInv, Stage
    <3>2. pc'[r] = Then(n) /\ \A s \in Runs : pc'[s] = "done" => pc[s] = "done"
      BY <1>1, <1>4, <2>2 DEF Goto, UpdaterTypeOK
    <3>3. AllOrNothing'
      BY <2>1, <3>2 DEF AllOrNothing, AtWork, Trap
    <3>4. RunsWhole'
      BY <1>1, <1>2, <2>4, <3>2 DEF RunsWhole
    <3>5. ASSUME n = "src" PROVE Stage(r, Then(n))'
      BY <1>2, <2>3, <2>4, <3>1, <3>5 DEF Stage, Untouched, Then, Names
    <3>6. ASSUME n = "package" PROVE Stage(r, Then(n))'
      <4>1. files["src"] = Outcome["src"]
        BY <3>1, <3>6, BackIs DEF Stage
      <4> QED BY <1>2, <2>3, <2>4, <3>1, <3>6, <4>1 DEF Stage, Untouched, Then, Names
    <3>7. ASSUME n = "env" PROVE Stage(r, Then(n))'
      <4>1. files["src"] = Outcome["src"] /\ files["package"] = Outcome["package"]
        BY <3>1, <3>7, BackIs DEF Stage
      <4>2. \A m \in Names : files'[m] = Outcome[m]
        BY <2>3, <3>1, <3>7, <4>1 DEF Names
      <4>3. files' = Outcome'
        BY <1>1, <2>3, <2>4, <4>2, OutcomeType
      <4> QED BY <1>2, <2>4, <3>1, <3>7, <4>3 DEF Stage, Untouched, Then
    <3> QED BY <3>3, <3>4, <3>5, <3>6, <3>7 DEF Names
  <2> QED BY <1>1, <1>2, <1>3, <1>4, <2>2, <2>3, <2>4, SavedStep DEF UpdaterTypeOK
<1>5. CASE Goto(r, "broken") /\ files' = [files EXCEPT ![n] = "part"]
  <2>1. files' \in [Names -> Contents]
    BY <1>1, <1>5 DEF UpdaterTypeOK, Contents
  <2> QED BY <1>2, <1>3, <1>5, <2>1, BrokenStep
<1> QED BY <1>4, <1>5 DEF Restore

LEMMA KillStep ==
  ASSUME UpdaterInv, NEW r \in Runs, Kill(r)
  PROVE  UpdaterInv'
<1>1. UpdaterTypeOK /\ OldKept /\ Kept(r, pc[r])
  BY DEF UpdaterInv, KeptInv
<1>2. /\ AtWork(r) /\ kills' = kills + 1 /\ kills < MaxKills
      /\ Goto(r, "killed") /\ UNCHANGED <<backup, aside>>
  BY DEF Kill
<1>3. kills \in Nat /\ MaxKills \in Nat
  BY <1>1, UpdaterAssumption DEF UpdaterTypeOK
<1>4. Command(r, "killed") /\ "killed" \in Ended /\ "killed" \notin Saved
  BY <1>2, <1>3 DEF Command, Ended, Saved, Install, Trap
<1>5. up' \in BOOLEAN /\ image' \in [Names -> Contents]
  BY <1>1 DEF Kill, CutOff, UpdaterTypeOK
<1>6. files' = files \/ \E n \in Names : pc[r] \in {n, Back[n]} /\ files' = [files EXCEPT ![n] = "part"]
  BY DEF Kill, CutOff
<1>7. files' \in [Names -> Contents]
  BY <1>1, <1>6 DEF UpdaterTypeOK, Contents
<1>8. pc[r] = "backup" => files' = files
  BY <1>6, BackIs DEF Names
<1>9. pc[r] # "backup" => pc[r] \in Saved
  BY <1>2 DEF AtWork, Saved
<1>10. OldKept'
  <2>1. CASE pc[r] = "backup"
    BY <1>1, <1>2, <1>8, <2>1, OldStays
  <2>2. CASE pc[r] # "backup"
    BY <1>2, <1>9, <2>2, OldInBackup
  <2> QED BY <2>1, <2>2
<1>11. Kept(r, "killed")'
  BY <1>4 DEF Kept
<1>12. ~Undisturbed'
  BY <1>2, <1>3 DEF Undisturbed
<1> QED BY <1>1, <1>2, <1>4, <1>5, <1>7, <1>10, <1>11, <1>12, CommandStep DEF UpdaterTypeOK

LEMMA OperatorStep ==
  ASSUME UpdaterInv, OperatorStarts
  PROVE  UpdaterInv'
<1>1. UNCHANGED <<files, backup, aside, image, pc, kills>> /\ up' = TRUE
  BY DEF OperatorStarts
<1>2. UpdaterTypeOK'
  BY <1>1 DEF UpdaterInv, UpdaterTypeOK, AtWork
<1>3. Outcome' = Outcome /\ (Undisturbed' <=> Undisturbed) /\ (\A r \in Runs : AtWork(r)' <=> AtWork(r))
  BY <1>1 DEF Outcome, Undisturbed, AtWork
<1>4. KeptInv' /\ OldKept' /\ AllOrNothing' /\ RunsWhole'
  BY <1>1, <1>3 DEF UpdaterInv, KeptInv, Kept, OldKept, AllOrNothing, RunsWhole
<1>5. Undisturbed' => StageInv'
  BY <1>1, <1>3 DEF UpdaterInv, StageInv, Stage
<1> QED BY <1>2, <1>4, <1>5 DEF UpdaterInv

LEMMA UpdaterStuttering == UpdaterInv /\ UNCHANGED updaterVars => UpdaterInv'
<1> SUFFICES ASSUME UpdaterInv, UNCHANGED updaterVars PROVE UpdaterInv'
  OBVIOUS
<1>1. UNCHANGED <<files, backup, aside, image, up, pc, kills>>
  BY DEF updaterVars
<1>2. Outcome' = Outcome /\ (Undisturbed' <=> Undisturbed) /\ (\A r \in Runs : AtWork(r)' <=> AtWork(r))
  BY <1>1 DEF Outcome, Undisturbed, AtWork
<1>3. UpdaterTypeOK'
  BY <1>1 DEF UpdaterInv, UpdaterTypeOK, AtWork
<1>4. KeptInv' /\ OldKept' /\ AllOrNothing' /\ RunsWhole'
  BY <1>1, <1>2 DEF UpdaterInv, KeptInv, Kept, OldKept, AllOrNothing, RunsWhole
<1>5. Undisturbed' => StageInv'
  BY <1>1, <1>2 DEF UpdaterInv, StageInv, Stage
<1> QED BY <1>3, <1>4, <1>5 DEF UpdaterInv

\* The updater keeps its invariant, with any command failing and any run killed anywhere.
THEOREM UpdaterInvariance == UpdaterSpec => []UpdaterInv
<1>1. UpdaterInit => UpdaterInv
  BY UpdaterInitially
<1>2. UpdaterInv /\ [UpdaterNext]_updaterVars => UpdaterInv'
  <2> SUFFICES ASSUME UpdaterInv, UpdaterNext \/ UNCHANGED updaterVars PROVE UpdaterInv'
    OBVIOUS
  <2>1. CASE UNCHANGED updaterVars
    BY <2>1, UpdaterStuttering
  <2>2. CASE OperatorStarts
    BY <2>2, OperatorStep
  <2>3. ASSUME NEW r \in Runs, NEW n \in Names, Put(r, n) \/ Restore(r, n) PROVE UpdaterInv'
    BY <2>3, PutStep, RestoreStep
  <2>4. ASSUME NEW r \in Runs,
               Start(r, "up", "health", "trap") \/ Start(r, "back up", "failed", "failed")
        PROVE  UpdaterInv'
    BY <2>4, StartStep
  <2>5. ASSUME NEW r \in Runs,
               \/ Check(r) \/ Backup(r) \/ Stop(r) \/ Move(r) \/ Health(r) \/ Undo(r) \/ Kill(r)
        PROVE  UpdaterInv'
    BY <2>5, CheckStep, BackupStep, StopStep, MoveStep, HealthStep, UndoStep, KillStep
  <2> QED BY <2>1, <2>2, <2>3, <2>4, <2>5 DEF UpdaterNext
<1> QED BY <1>1, <1>2, PTL DEF UpdaterSpec

\* Every variable of the updater keeps its type and one run at a time holds the lock.
THEOREM UpdaterTypeCorrect == UpdaterSpec => []UpdaterTypeOK
<1>1. UpdaterInv => UpdaterTypeOK
  BY DEF UpdaterInv
<1> QED BY <1>1, UpdaterInvariance, PTL

\* Wherever the script failed or was killed and however often it is run again, a whole
\* copy of each old file is in the installation, in a backup or put aside.
THEOREM OldFilesKept == UpdaterSpec => []OldKept
<1>1. UpdaterInv => OldKept
  BY DEF UpdaterInv
<1> QED BY <1>1, UpdaterInvariance, PTL

\* Any number of runs, none of which was killed or failed in its trap, leave the old
\* installation or the new one.
THEOREM UpdateAllOrNothing == UpdaterSpec => []AllOrNothing
<1>1. UpdaterInv => AllOrNothing
  BY DEF UpdaterInv
<1> QED BY <1>1, UpdaterInvariance, PTL

\* Such runs never build the container from code of two versions, nor go back to the
\* old code after a success.
THEOREM ContainerWhole == UpdaterSpec => []RunsWhole
<1>1. UpdaterInv => RunsWhole
  BY DEF UpdaterInv
<1> QED BY <1>1, UpdaterInvariance, PTL
=============================================================================
