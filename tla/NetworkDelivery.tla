--------------------------- MODULE NetworkDelivery ---------------------------
(***************************************************************************)
(* How network mode publishes: runtime/src/network-worker.mjs from the end *)
(* of execute() through deliver(), over the journal of network-store.mjs.  *)
(*                                                                         *)
(* One worker scans the enabled agents one after the other. A finished     *)
(* piece of work gets a signed envelope in its reply or mirror column, the *)
(* envelope is marked attempted BEFORE its only POST, and what became of   *)
(* the POST is found out by reading the room. Between two awaits only a    *)
(* crash can intervene; every durable write is a step of its own, so that  *)
(* a crash can fall between any two. During an await the owner may pause,  *)
(* resume or change the policy through the API.                            *)
(*                                                                         *)
(* The reading, assessing and research of a request are one await here     *)
(* (status "working" for received, assessing, reading and working); the    *)
(* outcomes that publish nothing are the status "failed". The 30-second    *)
(* throttle of repeated room reads is left out: it only delays.            *)
(***************************************************************************)
EXTENDS Integers, Sequences, FiniteSets

CONSTANTS
  Agents,
  Works,        \* the requests that may be taken up
  AgentOf,      \* [Works -> Agents]
  Origin,       \* [Works -> {"home", "away", "maintenance"}]
  None,         \* no work, no scan
  PendingLimit, \* the LIMIT of pending(): 5 in the code
  HomeChoices,  \* bound on the values of homeRoomOnly an owner sets
  MaxChanges,   \* bound on the owner's changes per agent
  MaxCrashes    \* bound on crashes and shutdowns

ASSUME DeliveryAssumption ==
  /\ AgentOf \in [Works -> Agents] /\ None \notin Works
  /\ Origin \in [Works -> {"home", "away", "maintenance"}]
  /\ PendingLimit \in Nat \ {0}
  /\ HomeChoices \subseteq BOOLEAN
  /\ MaxChanges \in Nat
  /\ MaxCrashes \in Nat

VARIABLES
  \* the journal (SQLite), which survives a crash
  status,     \* status column of network_work; "new" is no row yet
  env,        \* reply_json and mirror_json: none, saved, attempted, confirmed
  order,      \* the works in the order of created_at
  \* the agents' rows and network profiles
  enabled,    \* agents whose row is enabled
  homeOnly,   \* agents whose profile has homeRoomOnly
  revision,   \* [Agents -> Nat], the profile's revision
  \* the process
  running,    \* "up", "stopping" (SIGTERM) or "down"
  at,         \* where the worker is
  work,       \* the work it is at
  scan,       \* the agent being scanned and its profile as read at the start
  crashes,
  \* the venue and time
  old,        \* works created more than a day ago
  flight,     \* POSTs under way
  room,       \* messages the rooms hold
  posts       \* ghost: how often each message was POSTed

journal == <<status, env, order>>
profiles == <<enabled, homeOnly, revision>>
process == <<running, at, work, scan, crashes>>
venue == <<flight, room, posts>>
vars == <<journal, profiles, process, old, venue>>

Columns == {"reply", "mirror"}
Messages == Works \X Columns
Pendings == {"reply_pending", "mirror_pending"}

Statuses ==
  {"new", "working", "failed", "paused", "interrupted", "reply_confirmed",
   "reply_rejected", "mirror_rejected", "delivery_unconfirmed", "submitted"}
  \cup Pendings

\* Where an await suspends the worker and other callbacks may run.
Awaits == {"idle", "scan", "work", "post", "read", "off"}
\* Where it runs on without a break after a durable write.
Runs == {"saved", "pending", "send", "receipt", "mirror", "mirrored"}

\* Every variable keeps its type, and the journal has one row per work.
TypeOK ==
  /\ status \in [Works -> Statuses]
  /\ env \in [Works -> [Columns -> {"none", "saved", "attempted", "confirmed"}]]
  /\ order \in Seq(Works) /\ \A i, j \in 1 .. Len(order) : order[i] = order[j] => i = j
  /\ enabled \subseteq Agents /\ homeOnly \subseteq Agents
  /\ revision \in [Agents -> 0 .. MaxChanges]
  /\ running \in {"up", "stopping", "down"}
  /\ at \in Awaits \cup Runs
  /\ work \in Works \cup {None}
  /\ scan \in [agent : Agents, revision : 0 .. MaxChanges, home : BOOLEAN] \cup {None}
  /\ crashes \in 0 .. MaxCrashes
  /\ old \subseteq Works
  /\ flight \subseteq Messages /\ room \subseteq Messages
  /\ posts \in [Messages -> Nat]

-----------------------------------------------------------------------------

\* active(): the agent and its profile are still what the scan started with.
Active ==
  /\ running = "up"
  /\ scan.agent \in enabled
  /\ revision[scan.agent] = scan.revision

\* The column a pending row is about.
Column(w) == IF status[w] = "reply_pending" THEN "reply" ELSE "mirror"

\* pending(): the oldest PendingLimit pending rows of ALL agents.
Window ==
  { order[i] : i \in { j \in 1 .. Len(order) :
      /\ status[order[j]] \in Pendings
      /\ Cardinality({ k \in 1 .. j - 1 : status[order[k]] \in Pendings }) < PendingLimit } }

\* With homeRoomOnly an outside request is answered in the home room only, and
\* maintenance has nobody to reply to: these go straight to the mirror column.
FirstColumn(w) ==
  IF Origin[w] = "maintenance" \/ (Origin[w] = "away" /\ scan.home)
  THEN "mirror" ELSE "reply"

Init ==
  /\ status = [w \in Works |-> "new"]
  /\ env = [w \in Works |-> [c \in Columns |-> "none"]]
  /\ order = <<>>
  /\ enabled = Agents
  /\ homeOnly = {}
  /\ revision = [a \in Agents |-> 0]
  /\ running = "up" /\ at = "idle"
  /\ work = None /\ scan = None
  /\ crashes = 0
  /\ old = {}
  /\ flight = {} /\ room = {}
  /\ posts = [m \in Messages |-> 0]

-----------------------------------------------------------------------------
\* The worker.

Back == at' = "scan" /\ work' = None

\* What a scan keeps of an agent's profile until it ends.
Profile(a) == [agent |-> a, revision |-> revision[a], home |-> a \in homeOnly]

\* step() and update(): the status of one row, durably.
Step(w, s) == status' = [status EXCEPT ![w] = s]

\* makeEnvelope(), its text, nonce and signature saved in a column.
Sealed(w, c) == env' = [env EXCEPT ![w][c] = "saved"]

BeginScan(a) ==
  /\ at = "idle" /\ running = "up" /\ a \in enabled
  /\ Back
  /\ scan' = Profile(a)
  /\ UNCHANGED <<journal, profiles, running, crashes, old, venue>>

EndScan ==
  /\ at = "scan"
  /\ at' = "idle" /\ scan' = None
  /\ UNCHANGED <<journal, profiles, running, work, crashes, old, venue>>

\* create(): INSERT OR IGNORE takes a request once.
Create(w) ==
  /\ status[w] = "new"
  /\ Step(w, "working")
  /\ order' = Append(order, w)

\* A request is taken up, and the long await of reading, assessing and research.
TakeUp(w) ==
  /\ at = "scan" /\ Active
  /\ AgentOf[w] = scan.agent
  /\ Create(w)
  /\ at' = "work" /\ work' = w
  /\ UNCHANGED <<env, profiles, running, scan, crashes, old, venue>>

\* A source or model call failed, the request was skipped or over budget.
WorkFails ==
  /\ at = "work"
  /\ Step(work, "failed")
  /\ Back
  /\ UNCHANGED <<env, order, profiles, running, scan, crashes, old, venue>>

\* The result is there but the agent was paused or its policy changed meanwhile.
WorkPaused ==
  /\ at = "work" /\ ~Active
  /\ Step(work, "paused")
  /\ Back
  /\ UNCHANGED <<env, order, profiles, running, scan, crashes, old, venue>>

\* The result is there: sign the envelope and save it ...
WorkDone ==
  /\ at = "work" /\ Active
  /\ Sealed(work, FirstColumn(work))
  /\ at' = "saved"
  /\ UNCHANGED <<status, order, profiles, running, work, scan, crashes, old, venue>>

\* ... record that it waits for delivery, and go on to deliver() at once.
EnvelopePending ==
  /\ at = "saved"
  /\ Step(work, IF FirstColumn(work) = "reply" THEN "reply_pending" ELSE "mirror_pending")
  /\ at' = "pending"
  /\ UNCHANGED <<env, order, profiles, running, work, scan, crashes, old, venue>>

\* Mutant of Delivering: no look at the agent before a delivery.
DeliveringUnasked(w) ==
  \/ at = "scan" /\ w \in Window /\ AgentOf[w] = scan.agent
  \/ at = "pending" /\ w = work

\* deliver() starts on w: called by the scan for a row of pending(), or for the
\* work that has just become pending.
Delivering(w) ==
  /\ \/ at = "scan" /\ w \in Window /\ AgentOf[w] = scan.agent
     \/ at = "pending" /\ w = work
  /\ Active

\* An unsent reply to an outside room is cancelled by a home-room-only policy.
Cancel(w) ==
  /\ Delivering(w)
  /\ scan.home /\ Origin[w] = "away" /\ Column(w) = "reply"
  /\ env[w]["reply"] = "saved"
  /\ Step(w, "paused")
  /\ Back
  /\ UNCHANGED <<env, order, profiles, running, scan, crashes, old, venue>>

\* An unsent envelope is marked attempted, durably, before the side effect.
MarkAttempted(w) ==
  /\ Delivering(w)
  /\ ~ (scan.home /\ Origin[w] = "away" /\ Column(w) = "reply")
  /\ env[w][Column(w)] = "saved"
  /\ env' = [env EXCEPT ![w][Column(w)] = "attempted"]
  /\ at' = "send" /\ work' = w
  /\ UNCHANGED <<status, order, profiles, running, scan, crashes, old, venue>>

Send ==
  /\ at = "send"
  /\ LET m == <<work, Column(work)>>
     IN /\ flight' = flight \cup {m}
        /\ posts' = [posts EXCEPT ![m] = @ + 1]
  /\ at' = "post"
  /\ UNCHANGED <<journal, profiles, running, work, scan, crashes, old, room>>

\* Mutant of Answered: an acknowledgement counts as delivery.
AnsweredTrusting ==
  /\ at = "post"
  /\ Step(work, "submitted")
  /\ Back
  /\ UNCHANGED <<env, order, profiles, running, scan, crashes, old, venue>>

\* A 2xx, a 5xx, a broken connection or the 15-second timeout: the row stays
\* pending whether or not the message is, or will be, in the room.
Answered ==
  /\ at = "post"
  /\ Back
  /\ UNCHANGED <<journal, profiles, running, scan, crashes, old, venue>>

\* The venue turned the message down (400, 401, 403, 413, 422, 429).
Rejected ==
  /\ at = "post"
  /\ LET m == <<work, Column(work)>>
     IN m \in flight /\ flight' = flight \ {m}
  /\ Step(work, IF Column(work) = "reply" THEN "reply_rejected" ELSE "mirror_rejected")
  /\ Back
  /\ UNCHANGED <<env, order, profiles, running, scan, crashes, old, room, posts>>

\* Mutant of GiveUp: only replies are given up.
GiveUpReplies(w) ==
  /\ Delivering(w)
  /\ env[w]["reply"] \in {"attempted", "confirmed"} /\ env[w]["mirror"] = "none"
  /\ w \in old
  /\ Step(w, "delivery_unconfirmed")
  /\ Back
  /\ UNCHANGED <<env, order, profiles, running, scan, crashes, old, venue>>

\* A day has passed since the row was created: give up, for manual review.
GiveUp(w) ==
  /\ Delivering(w)
  /\ env[w][Column(w)] \in {"attempted", "confirmed"}
  /\ w \in old
  /\ Step(w, "delivery_unconfirmed")
  /\ Back
  /\ UNCHANGED <<env, order, profiles, running, scan, crashes, old, venue>>

\* Look for the exact record in the room.
Reconcile(w) ==
  /\ Delivering(w)
  /\ env[w][Column(w)] \in {"attempted", "confirmed"}
  /\ w \notin old
  /\ at' = "read" /\ work' = w
  /\ UNCHANGED <<journal, profiles, running, scan, crashes, old, venue>>

\* Mutant of NotFound: what is not in the room is sent again.
NotFoundResend ==
  /\ at = "read"
  /\ Sealed(work, Column(work))
  /\ Back
  /\ UNCHANGED <<status, order, profiles, running, scan, crashes, old, venue>>

\* The read failed, or the bounded tail it returned does not hold the record.
NotFound ==
  /\ at = "read"
  /\ Back
  /\ UNCHANGED <<journal, profiles, running, scan, crashes, old, venue>>

\* readRoom() can return it, when it is in the bounded tail.
OnRecord(m) == m \in room

Found ==
  /\ at = "read"
  /\ OnRecord(<<work, Column(work)>>)
  /\ env' = [env EXCEPT ![work][Column(work)] = "confirmed"]
  /\ at' = "receipt"
  /\ UNCHANGED <<status, order, profiles, running, work, scan, crashes, old, venue>>

\* With the receipt saved: stop if paused meanwhile; a confirmed mirror, or a
\* home-room reply under homeRoomOnly, ends the work; any other reply gets a mirror.
Settle ==
  /\ at = "receipt"
  /\ \/ ~Active /\ Back /\ UNCHANGED status
     \/ /\ Active
        /\ Column(work) = "mirror" \/ (scan.home /\ Origin[work] = "home")
        /\ Step(work, "submitted")
        /\ Back
     \/ /\ Active /\ Column(work) = "reply" /\ ~ (scan.home /\ Origin[work] = "home")
        /\ Step(work, "reply_confirmed")
        /\ at' = "mirror" /\ UNCHANGED work
  /\ UNCHANGED <<env, order, profiles, running, scan, crashes, old, venue>>

MirrorSaved ==
  /\ at = "mirror"
  /\ Sealed(work, "mirror")
  /\ at' = "mirrored"
  /\ UNCHANGED <<status, order, profiles, running, work, scan, crashes, old, venue>>

\* The assistance record is longer than a room message may be.
MirrorTooLong ==
  /\ at = "mirror"
  /\ Step(work, "mirror_rejected")
  /\ Back
  /\ UNCHANGED <<env, order, profiles, running, scan, crashes, old, venue>>

\* The mirror is left for a later deliver().
MirrorPending ==
  /\ at = "mirrored"
  /\ Step(work, "mirror_pending")
  /\ Back
  /\ UNCHANGED <<env, order, profiles, running, scan, crashes, old, venue>>

-----------------------------------------------------------------------------
\* The process, the owner, time and the venue.

Stop ==
  /\ running = "up" /\ at \in Awaits /\ crashes < MaxCrashes
  /\ running' = "stopping"
  /\ UNCHANGED <<journal, profiles, at, work, scan, crashes, old, venue>>

\* The process ends, at any point: by itself, or 10 seconds after a Stop.
Crash ==
  /\ running # "down" /\ crashes < MaxCrashes
  /\ running' = "down" /\ at' = "off" /\ work' = None /\ scan' = None
  /\ crashes' = crashes + 1
  /\ UNCHANGED <<journal, profiles, old, venue>>

\* start(): recoverInterrupted() closes what was being computed.
Restart ==
  /\ running = "down"
  /\ running' = "up" /\ at' = "idle"
  /\ status' = [w \in Works |-> IF status[w] = "working" THEN "interrupted" ELSE status[w]]
  /\ UNCHANGED <<env, order, profiles, work, scan, crashes, old, venue>>

\* A row that is written again is a new revision, whatever is in it.
SaveProfile(a, home) ==
  /\ revision' = [revision EXCEPT ![a] = @ + 1]
  /\ homeOnly' = IF home THEN homeOnly \cup {a} ELSE homeOnly \ {a}

\* PATCH of the agent or of its network profile; both give a new revision.
OwnerChange(a, on, home) ==
  /\ running = "up" /\ at \in Awaits
  /\ revision[a] < MaxChanges
  /\ enabled' = IF on THEN enabled \cup {a} ELSE enabled \ {a}
  /\ SaveProfile(a, home)
  /\ UNCHANGED <<journal, process, old, venue>>

DayPasses(w) ==
  /\ status[w] # "new" /\ w \notin old
  /\ at \in Awaits
  /\ old' = old \cup {w}
  /\ UNCHANGED <<journal, profiles, process, venue>>

Arrive(m) ==
  /\ m \in flight
  /\ flight' = flight \ {m} /\ room' = room \cup {m}
  /\ UNCHANGED <<journal, profiles, process, old, posts>>

Lose(m) ==
  /\ m \in flight
  /\ flight' = flight \ {m}
  /\ UNCHANGED <<journal, profiles, process, old, room, posts>>

Deliver(w) == Cancel(w) \/ MarkAttempted(w) \/ GiveUp(w) \/ Reconcile(w)

Proceed ==
  \/ WorkFails \/ WorkPaused \/ WorkDone \/ EnvelopePending
  \/ Send \/ Answered \/ Rejected
  \/ NotFound \/ Found \/ Settle \/ MirrorSaved \/ MirrorTooLong \/ MirrorPending

Next ==
  \/ \E a \in Agents : BeginScan(a)
  \/ EndScan
  \/ \E w \in Works : TakeUp(w) \/ Deliver(w) \/ DayPasses(w)
  \/ Proceed
  \/ Stop \/ Crash \/ Restart
  \/ \E a \in Agents, on \in BOOLEAN, home \in HomeChoices : OwnerChange(a, on, home)
  \/ \E m \in Messages : Arrive(m) \/ Lose(m)

Spec == Init /\ [][Next]_vars

\* The interval timer starts a scan again and again and a scan visits every
\* enabled agent and every row that pending() returns for it; awaits end, by
\* timeout at the latest; days pass. Owners and crashes owe nothing.
Fairness ==
  /\ \A a \in Agents : SF_vars(BeginScan(a))
  /\ WF_vars(EndScan) /\ WF_vars(Proceed)
  /\ \A w \in Works : SF_vars(Deliver(w)) /\ WF_vars(DayPasses(w))

FairSpec == Spec /\ Fairness

-----------------------------------------------------------------------------

Stage(m) ==
  CASE m \in room -> "there"
    [] m \notin room /\ m \in flight -> "sent"
    [] m \notin room /\ m \notin flight /\ posts[m] > 0 -> "gone"
    [] OTHER -> IF env[m[1]][m[2]] = "none" THEN "none" ELSE "sealed"

Promise == INSTANCE Publication WITH
  Subjects <- [m \in Messages |-> IF m[2] = "mirror" THEN {<<m[1], "reply">>} ELSE {}],
  stage <- [m \in Messages |-> Stage(m)],
  vouched <- { m \in Messages : env[m[1]][m[2]] = "confirmed" }

\* The worker keeps the promise of Publication through crashes, timeouts, late
\* arrivals, pauses and policy changes: every envelope is saved before its POST,
\* POSTed at most once, called confirmed only when it is in the room, and the
\* PACT-room record of a reply is made only after the reply was confirmed.
PublishesAsPromised == Promise!Spec

\* What the journal says of a work is true of the rooms: a submitted work has every
\* message it ever signed in its room, a work whose report is due or under way has
\* its reply there, and a rejected message is not there and not on its way.
JournalIsTrue ==
  \A w \in Works :
    LET there(c) == <<w, c>> \in room
        made(c) == env[w][c] # "none"
    IN /\ status[w] = "submitted" =>
            /\ made("reply") \/ made("mirror")
            /\ \A c \in Columns : made(c) => there(c)
       /\ status[w] \in {"reply_confirmed", "mirror_pending", "mirror_rejected"} =>
            (made("reply") => there("reply"))
       /\ status[w] \in {"reply_rejected", "mirror_rejected"} =>
            \A c \in Columns : env[w][c] = "attempted" => <<w, c>> \notin room \cup flight

\* "Pausing prevents the next action": every POST leaves while the agent is enabled
\* and, when it goes to a room other than the PACT room, while the owner's CURRENT
\* policy allows publishing there, however old the worker's copy of it is.
PostsAreAuthorised ==
  [][\A m \in Messages : posts'[m] # posts[m] =>
       /\ AgentOf[m[1]] \in enabled
       /\ Origin[m[1]] = "away" /\ m[2] = "reply" => AgentOf[m[1]] \notin homeOnly]_vars

\* While an agent stays enabled and the process up, none of its deliveries stays
\* open for ever: each is confirmed, rejected, cancelled or, after a day, flagged.
DeliveriesResolve ==
  \A w \in Works :
    <>[](running = "up" /\ AgentOf[w] \in enabled) =>
      [](status[w] \in Pendings => <>(status[w] \notin Pendings))
=============================================================================
