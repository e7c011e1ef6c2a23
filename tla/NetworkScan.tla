------------------------------ MODULE NetworkScan ------------------------------
(***************************************************************************)
(* How often network mode may act (network-worker.mjs scan, maintenance    *)
(* and invitation): which message of a room becomes a work, and when the   *)
(* two-minute, seven-day and 72-hour limits let the next one pass.         *)
(*                                                                         *)
(* One scan runs at a time. During its awaits (a room read, a model call,  *)
(* the maintenance read) the owner may change the agent, its profile or    *)
(* both; a crash may fall between any two durable writes a limit hangs on, *)
(* and the clock may be set back. What a work may spend is in              *)
(* NetworkBudget, how an envelope is delivered in NetworkDelivery, its     *)
(* nonce in Nonces: here a message may be passed over for want of budget,  *)
(* so that any candidate, not only the newest, may be taken up. Whether    *)
(* the home room was silent for 72 hours is the surroundings' choice, and  *)
(* so are the order in which a scan reads an agent's rooms and its end.    *)
(***************************************************************************)
EXTENDS Integers, Sequences

CONSTANTS
  Agents,
  Msgs,         \* signed messages of others that may come
  Room,         \* [Msgs -> Rooms]
  Sender,       \* who sent a message
  Jobs,         \* those that ask for research in an approved source
  None,         \* no agent, no message
  Cooldown,     \* 120 s, in ticks of the clock
  MaxAge,       \* 180 s
  InviteGap,    \* 7 days
  Silence,      \* 72 hours
  MaxTime,      \* bound on time
  MaxChanges,   \* bound on the owner's changes
  MaxCrashes,   \* bound on crashes
  MaxSetBacks   \* bound on the times the clock is set back

Rooms == {"home", "out"}

ASSUME ScanAssumption ==
  /\ Room \in [Msgs -> Rooms] /\ Jobs \subseteq Msgs
  /\ DOMAIN Sender = Msgs
  /\ None \notin Msgs /\ None \notin Agents
  /\ {Cooldown, MaxAge, InviteGap, Silence, MaxTime} \subseteq Nat \ {0}
  /\ {MaxChanges, MaxCrashes, MaxSetBacks} \subseteq Nat

VARIABLES
  clock,     \* Date.now() of the server
  ts,        \* [Msgs -> Nat], the room's time of a message; 0 is not there
  on,        \* agents that are enabled, with network mode enabled
  mode,      \* [Agents -> Modes]: "home" is homeRoomOnly
  enabledAt, \* [Agents -> Nat]
  row,       \* network_work, for each agent and message
  checks,    \* the maintenance rows of network_work, in order
  cooldown,  \* network-cooldown:..., for each agent and key; 0 is none
  invited,   \* network-invite:..., for each recipient
  checked,   \* network-maintenance:...
  at,        \* where the scan is
  cur,       \* the agent being scanned, its profile as read at the start, and its place
  changes, crashes, setbacks

profiles == <<on, mode, enabledAt>>
ledger == <<row, checks>>
limits == <<cooldown, invited, checked>>
counts == <<changes, crashes, setbacks>>
vars == <<clock, ts, profiles, ledger, limits, at, cur, counts>>

Modes == {"open", "home"}
Keys == {"all", "home", "external"}
Senders == { Sender[m] : m \in Msgs }
NoRow == [status |-> "none", created |-> 0, key |-> "all", invitation |-> 0]
NoOne == [agent |-> None, mode |-> "open", since |-> 0, room |-> "home", msg |-> None]

WorkRows ==
  [status : {"none", "received", "ended", "interrupted", "answered"},
   created : Nat, key : Keys, invitation : Nat]
CheckRows == [created : Nat, status : {"reading", "pending", "ended"}]
Places ==
  [agent : Agents \cup {None}, mode : Modes, since : Nat, room : Rooms, msg : Msgs \cup {None}]

\* Every variable keeps its type, and a work under way is the one the scan is at.
TypeOK ==
  /\ clock \in Nat \ {0}
  /\ ts \in [Msgs -> Nat]
  /\ on \subseteq Agents /\ mode \in [Agents -> Modes] /\ enabledAt \in [Agents -> Nat]
  /\ row \in [Agents \X Msgs -> WorkRows]
  /\ checks \in Seq(CheckRows)
  /\ cooldown \in [Agents \X Keys -> Nat]
  /\ invited \in [Senders -> Nat]
  /\ checked \in Nat
  /\ at \in {"idle", "checking", "rooms", "reading", "created", "execute"}
  /\ cur \in Places
  /\ at # "idle" => cur.agent \in Agents
  /\ at \in {"created", "execute"} => cur.msg \in Msgs
  /\ \A k \in Agents \X Msgs : row[k].status = "received" =>
       at \in {"created", "execute"} /\ k = <<cur.agent, cur.msg>>
  /\ changes \in Nat /\ crashes \in Nat /\ setbacks \in Nat

Init ==
  /\ clock = 1
  /\ ts = [m \in Msgs |-> 0]
  /\ on = Agents /\ mode \in [Agents -> Modes] /\ enabledAt = [a \in Agents |-> 1]
  /\ row = [k \in Agents \X Msgs |-> NoRow]
  /\ checks = <<>>
  /\ cooldown = [k \in Agents \X Keys |-> 0]
  /\ invited = [r \in Senders |-> 0]
  /\ checked = 0
  /\ at = "idle" /\ cur = NoOne
  /\ changes = 0 /\ crashes = 0 /\ setbacks = 0

-----------------------------------------------------------------------------

\* Mutant of Active: only that the agent and network mode are enabled.
ActiveEnabled == cur.agent \in on

\* active(): the agent runs, under the profile the scan began with.
Active ==
  /\ cur.agent \in on
  /\ mode[cur.agent] = cur.mode /\ enabledAt[cur.agent] = cur.since

\* "network-cooldown:<agent>", one more for each kind of room under homeRoomOnly.
CooldownKey ==
  IF cur.mode = "open" THEN "all" ELSE IF cur.room = "home" THEN "home" ELSE "external"

\* candidateKind(), and what homeRoomOnly takes up outside: research only.
Candidate(m) ==
  /\ Room[m] = cur.room
  /\ ts[m] # 0 /\ ts[m] >= cur.since /\ ts[m] >= clock - MaxAge /\ ts[m] <= clock
  /\ cur.mode = "home" /\ cur.room = "out" => m \in Jobs

\* Since a stamp, enough time has gone by; zero is no stamp.
Past(stamp, gap) == stamp = 0 \/ clock - stamp >= gap

-----------------------------------------------------------------------------

\* Mutant of MaintenanceDue: the time of the last attempt is not looked at.
MaintenanceDueAgain == \A i \in 1 .. Len(checks) : checks[i].status # "pending"

\* Nothing of the kind is waiting to be published or was tried lately.
MaintenanceDue ==
  /\ Past(checked, Silence)
  /\ \A i \in 1 .. Len(checks) : checks[i].status # "pending"

\* The scan comes to an agent; a maintenance check that is due is stamped, then begun.
BeginScan(a) ==
  /\ at = "idle" /\ a \in on
  /\ cur' = [agent |-> a, mode |-> mode[a], since |-> enabledAt[a],
             room |-> "home", msg |-> None]
  /\ \/ /\ MaintenanceDue
        /\ checked' = clock
        /\ checks' = Append(checks, [created |-> clock, status |-> "reading"])
        /\ at' = "checking"
     \/ at' = "rooms" /\ UNCHANGED <<checked, checks>>
  /\ UNCHANGED <<clock, ts, profiles, row, cooldown, invited, counts>>

\* The source was read and the report waits, or not: a paused agent keeps it to itself.
Checked ==
  /\ at = "checking"
  /\ \E s \in {"ended", "pending"} :
       /\ s = "pending" => Active
       /\ checks' = [checks EXCEPT ![Len(checks)].status = s]
  /\ at' = "rooms"
  /\ UNCHANGED <<clock, ts, profiles, row, limits, cur, counts>>

\* Delivery resolves the report of a check, one way or another.
CheckSettles(i) ==
  /\ at = "rooms" /\ Active /\ checks[i].status = "pending"
  /\ checks' = [checks EXCEPT ![i].status = "ended"]
  /\ UNCHANGED <<clock, ts, profiles, row, limits, at, cur, counts>>

\* readRoom(), of a room of the policy.
ReadRoom(r) ==
  /\ at = "rooms" /\ Active
  /\ cur' = [cur EXCEPT !.room = r]
  /\ at' = "reading"
  /\ UNCHANGED <<clock, ts, profiles, ledger, limits, counts>>

\* create(): INSERT OR IGNORE. One candidate of a room in a scan.
TakeUp(m) ==
  /\ at = "reading" /\ Active /\ Candidate(m)
  /\ row[<<cur.agent, m>>] = NoRow
  /\ Past(cooldown[<<cur.agent, CooldownKey>>], Cooldown)
  /\ row' = [row EXCEPT ![<<cur.agent, m>>] =
       [status |-> "received", created |-> clock, key |-> CooldownKey, invitation |-> 0]]
  /\ cur' = [cur EXCEPT !.msg = m]
  /\ at' = "created"
  /\ UNCHANGED <<clock, ts, profiles, checks, limits, counts>>

\* A write of its own, after the row's.
StartCooldown ==
  /\ at = "created"
  /\ cooldown' = [cooldown EXCEPT ![<<cur.agent, CooldownKey>>] = clock]
  /\ at' = "execute"
  /\ UNCHANGED <<clock, ts, profiles, ledger, invited, checked, cur, counts>>

\* No candidate, the cooldown, the budget, or a room that cannot be read.
NoCandidate ==
  /\ at = "reading"
  /\ at' = "rooms" /\ cur' = [cur EXCEPT !.room = "home"]
  /\ UNCHANGED <<clock, ts, profiles, ledger, limits, counts>>

Executed(s, stamp) ==
  /\ row' = [row EXCEPT ![<<cur.agent, cur.msg>>].status = s,
                        ![<<cur.agent, cur.msg>>].invitation = stamp]
  /\ at' = "rooms" /\ cur' = [cur EXCEPT !.room = "home", !.msg = None]

\* An offer, no use for a reply, no budget, a failed call, or a pause.
Ends ==
  /\ at = "execute"
  /\ Executed("ended", 0)
  /\ UNCHANGED <<clock, ts, profiles, checks, limits, counts>>

\* An answer without an invitation is saved, to be delivered.
Answer ==
  /\ at = "execute" /\ Active
  /\ Executed("answered", 0)
  /\ UNCHANGED <<clock, ts, profiles, checks, limits, counts>>

\* Mutant of AnswerInviting: the reservation is left to the delivery of the reply.
AnswerInvitingLater ==
  LET to == Sender[cur.msg]
  IN /\ at = "execute" /\ Active
     /\ cur.mode = "open" /\ cur.room = "out" /\ Past(invited[to], InviteGap)
     /\ Executed("answered", clock)
     /\ UNCHANGED <<clock, ts, profiles, checks, limits, counts>>

\* invitation(): reserved for the recipient, whichever agent invites, before the
\* reply that carries it is even saved.
AnswerInviting ==
  LET to == Sender[cur.msg]
  IN /\ at = "execute" /\ Active
     /\ cur.mode = "open" /\ cur.room = "out" /\ Past(invited[to], InviteGap)
     /\ invited' = [invited EXCEPT ![to] = clock]
     /\ Executed("answered", clock)
     /\ UNCHANGED <<clock, ts, profiles, checks, cooldown, checked, counts>>

EndScan ==
  /\ at = "rooms"
  /\ at' = "idle" /\ cur' = NoOne
  /\ UNCHANGED <<clock, ts, profiles, ledger, limits, counts>>

-----------------------------------------------------------------------------

\* The owner pauses, resumes, enables, disables or changes the policy; each saves
\* the profile anew.
OwnerChange(a, run, m) ==
  /\ at # "created" /\ changes < MaxChanges
  /\ changes' = changes + 1
  /\ on' = IF run THEN on \cup {a} ELSE on \ {a}
  /\ mode' = [mode EXCEPT ![a] = m]
  /\ enabledAt' = [enabledAt EXCEPT ![a] = clock]
  /\ UNCHANGED <<clock, ts, ledger, limits, at, cur, crashes, setbacks>>

\* A message with the room's time, which may be a tick behind.
Comes(m) ==
  /\ ts[m] = 0
  /\ \E t \in {clock - 1, clock} \ {0} : ts' = [ts EXCEPT ![m] = t]
  /\ UNCHANGED <<clock, profiles, ledger, limits, at, cur, counts>>

Tick ==
  /\ clock < MaxTime /\ clock' = clock + 1
  /\ UNCHANGED <<ts, profiles, ledger, limits, at, cur, counts>>

\* Not in the instant between the two writes of TakeUp and StartCooldown.
SetBack ==
  /\ at # "created" /\ clock > 1 /\ setbacks < MaxSetBacks
  /\ clock' = clock - 1 /\ setbacks' = setbacks + 1
  /\ UNCHANGED <<ts, profiles, ledger, limits, at, cur, changes, crashes>>

\* What a restart does to the rows: recoverInterrupted() for the works.
Recovered ==
  /\ row' = [k \in Agents \X Msgs |->
       IF row[k].status = "received" THEN [row[k] EXCEPT !.status = "interrupted"] ELSE row[k]]
  /\ checks' = [i \in 1 .. Len(checks) |->
       IF checks[i].status = "reading" THEN [checks[i] EXCEPT !.status = "ended"] ELSE checks[i]]

\* Mutant of Crash: the cooldowns were kept in the process.
CrashForgetsCooldowns ==
  /\ crashes < MaxCrashes /\ crashes' = crashes + 1
  /\ Recovered
  /\ cooldown' = [k \in Agents \X Keys |-> 0]
  /\ at' = "idle" /\ cur' = NoOne
  /\ UNCHANGED <<clock, ts, profiles, invited, checked, changes, setbacks>>

\* The process ends and starts again.
Crash ==
  /\ crashes < MaxCrashes /\ crashes' = crashes + 1
  /\ Recovered
  /\ at' = "idle" /\ cur' = NoOne
  /\ UNCHANGED <<clock, ts, profiles, limits, changes, setbacks>>

Next ==
  \/ \E a \in Agents : BeginScan(a)
  \/ Checked \/ \E i \in 1 .. Len(checks) : CheckSettles(i)
  \/ \E r \in Rooms : ReadRoom(r)
  \/ \E m \in Msgs : TakeUp(m) \/ Comes(m)
  \/ StartCooldown \/ NoCandidate \/ Ends \/ Answer \/ AnswerInviting \/ EndScan
  \/ \E a \in Agents, run \in BOOLEAN, m \in Modes : OwnerChange(a, run, m)
  \/ Tick \/ SetBack \/ Crash

Spec == Init /\ [][Next]_vars

-----------------------------------------------------------------------------

Apart(s, t, gap) == s - t >= gap \/ t - s >= gap

\* "At most one new candidate per agent per two minutes": two works of an agent that
\* share a cooldown are as far apart, whatever the clock and the owner do and however
\* often the process restarts. The exception is a work in which the process died: it
\* may have done so before the work's time was saved.
Spacing ==
  \A a \in Agents, m, n \in Msgs :
    LET v == row[<<a, m>>]
        w == row[<<a, n>>]
    IN m # n /\ v.created # 0 /\ w.created # 0 /\ v.key = w.key
         => \/ Apart(v.created, w.created, Cooldown)
            \/ "interrupted" \in {v.status, w.status}

\* "Re-enabling does not backfill": what is taken up came in the agent's present
\* period of activity, although the scan works on the profile of its beginning.
NoBackfill ==
  [][\A a \in Agents, m \in Msgs :
       row[<<a, m>>] = NoRow /\ row'[<<a, m>>] # NoRow => a \in on /\ ts[m] >= enabledAt[a]]_vars

\* No one is invited twice within seven days, by whichever agent, across restarts.
InvitationsApart ==
  \A k, l \in Agents \X Msgs :
    k # l /\ row[k].invitation # 0 /\ row[l].invitation # 0 /\ Sender[k[2]] = Sender[l[2]]
      => Apart(row[k].invitation, row[l].invitation, InviteGap)

\* "Once per 72 hours across agents", failed and interrupted checks included.
ChecksApart ==
  \A i, j \in 1 .. Len(checks) : i # j => Apart(checks[i].created, checks[j].created, Silence)
=============================================================================
