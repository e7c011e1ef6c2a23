------------------------------ MODULE AgentWorker ------------------------------
(***************************************************************************)
(* The hosted agents at work: runtime/src/agent-worker.mjs over the board  *)
(* of TaskBoard and the executions table of runtime/src/db.mjs.            *)
(*                                                                         *)
(* A scan reads the room, derives the views and the list of enabled agents *)
(* ONCE, and then gives the agents a turn each, one after the other, which *)
(* may take minutes. A turn claims a task, reads the room again to see who *)
(* won, does the work and posts the submission. During every await other   *)
(* participants post, the background loop archives, the owner pauses or    *)
(* resumes an agent and time passes. The syncOnce() of the worker is the   *)
(* SyncOnce of TaskBoard, taken during the await.                          *)
(*                                                                         *)
(* policyAllows is the constant Suits plus the view's status. An agent is  *)
(* named by its DID. Removing an agent needs it paused and changes nothing *)
(* the worker reads besides.                                               *)
(***************************************************************************)
EXTENDS TaskBoard

CONSTANTS
  Agents,       \* the agents' DIDs
  CreatedAt,    \* [Agents -> Nat], created_at of their rows
  Suits,        \* [Agents -> SUBSET TaskIds], tasks an agent's policy allows
  WorkerLease,  \* the lease the worker asks for: 600 s
  TasksPerDay,  \* maxTasksPerDay
  DayLength,    \* length of a UTC day
  Requesters,   \* participants elsewhere who post tasks
  Rivals,       \* participants elsewhere who claim and submit
  MaxPauses,    \* bound on pauses
  MaxCrashes    \* bound on crashes

ASSUME WorkerAssumption ==
  /\ Agents \subseteq Dids /\ CreatedAt \in [Agents -> Nat]
  /\ Suits \in [Agents -> SUBSET TaskIds]
  /\ WorkerLease \in Leases
  /\ TasksPerDay \in Nat \ {0}
  /\ DayLength \in Nat \ {0}
  /\ Requesters \cup Rivals \subseteq Dids \ Agents
  /\ MaxPauses \in Nat /\ MaxCrashes \in Nat

VARIABLES
  enabled,     \* agents whose row is enabled
  executions,  \* the executions table
  at,          \* what the worker waits for; "turn" is no wait, "off" is down
  queue,       \* agents of this scan whose turn is still to come or under way
  offers,      \* the tasks the scan's views show open
  scanDay,     \* the day the scan began
  task, claim, \* of the current turn
  pauses, crashes,
  issued       \* ghost: claims issued for an agent since it was paused

board == <<room, archive, cursor, now>>
turn == <<queue, offers, scanDay, task, claim>>
workerVars == <<enabled, executions, at, turn, pauses, crashes, issued>>
allVars == <<board, workerVars>>

Day(time) == time \div DayLength

None == 0  \* no submission, no claim: ids count from 1

Execution ==
  [agent : Agents, task : TaskIds, claim : Nat, started : Nat,
   status : {"running", "submitted", "failed"}, submission : Nat]

\* Every variable keeps its type, and an execution is on a claim in the room.
WorkerTypeOK ==
  /\ TypeOK
  /\ enabled \subseteq Agents
  /\ executions \subseteq Execution
  /\ \A e \in executions : e.claim \in InRoom("claim")
  /\ at \in {"idle", "sync", "turn", "claim", "confirm", "work", "sent", "off"}
  /\ queue \subseteq Agents /\ offers \subseteq TaskIds /\ scanDay \in Nat
  /\ task \in TaskIds \cup {None} /\ claim \in Nat
  /\ pauses \in 0 .. MaxPauses /\ crashes \in 0 .. MaxCrashes
  /\ issued \in [Agents -> Nat]

\* The one whose turn it is: ORDER BY created_at.
agent == CHOOSE a \in queue : \A b \in queue : CreatedAt[a] <= CreatedAt[b]

CompletedToday(a, day) ==
  Cardinality({ e \in executions : e.agent = a /\ e.status = "submitted"
                                   /\ Day(e.started) = day })

\* Mutant of HasExecution: only what was submitted keeps an agent off a task.
HasExecutionSubmitted(t, a) ==
  \E e \in executions : e.task = t /\ e.agent = a /\ e.status = "submitted"

HasExecution(t, a) ==
  \E e \in executions :
    e.task = t /\ e.agent = a /\ e.status \in {"running", "submitted"}

\* What views.find() looks for among the views of this scan.
Candidates(a) == { t \in offers \cap Suits[a] : ~HasExecution(t, a) }

\* Views are sorted newest first.
Newest(S) ==
  { t \in S : \A u \in S : \A p \in Posting(archive, t), q \in Posting(archive, u) :
                p.seq >= q.seq }

WorkerInit ==
  /\ Init
  /\ enabled = Agents
  /\ executions = {}
  /\ at = "idle"
  /\ queue = {} /\ offers = {} /\ scanDay = 0
  /\ task = None /\ claim = None
  /\ pauses = 0 /\ crashes = 0
  /\ issued = [a \in Agents |-> 0]

-----------------------------------------------------------------------------
\* The scan.

StartScan ==
  /\ at = "idle"
  /\ at' = "sync"
  /\ UNCHANGED <<board, enabled, executions, turn, pauses, crashes, issued>>

\* Mutant of ReadViews: the agents are read once and for all.
ReadViewsCached ==
  /\ at = "sync"
  /\ at' = "turn"
  /\ offers' = { t \in TaskIds : Posting(Rows(archive), t) # {}
                                 /\ Status(Rows(archive), t, now) = "open" }
  /\ queue' = Agents
  /\ scanDay' = Day(now)
  /\ UNCHANGED <<board, enabled, executions, task, claim, pauses, crashes, issued>>

\* The room was read: the views and the enabled agents of this scan.
ReadViews ==
  /\ at = "sync"
  /\ at' = "turn"
  /\ offers' = { t \in TaskIds : Posting(Rows(archive), t) # {}
                                 /\ Status(Rows(archive), t, now) = "open" }
  /\ queue' = enabled
  /\ scanDay' = Day(now)
  /\ UNCHANGED <<board, enabled, executions, task, claim, pauses, crashes, issued>>

\* The room could not be read, or every agent had its turn.
EndScan ==
  /\ at = "sync" \/ (at = "turn" /\ queue = {})
  /\ at' = "idle"
  /\ queue' = {} /\ offers' = {} /\ scanDay' = 0
  /\ UNCHANGED <<board, enabled, executions, task, claim, pauses, crashes, issued>>

NextAgent ==
  /\ at' = "turn"
  /\ queue' = queue \ {agent}
  /\ task' = None /\ claim' = None
  /\ UNCHANGED <<enabled, offers, scanDay, pauses, crashes>>

\* The daily quota is used up or no view suits.
Pass ==
  /\ at = "turn" /\ queue # {}
  /\ CompletedToday(agent, scanDay) >= TasksPerDay \/ Candidates(agent) = {}
  /\ NextAgent
  /\ UNCHANGED <<board, executions, issued>>

\* Mutant of Choose: one task too many on a day.
ChooseOneMore(t) ==
  /\ at = "turn" /\ queue # {}
  /\ CompletedToday(agent, scanDay) <= TasksPerDay
  /\ t \in Newest(Candidates(agent))
  /\ at' = "claim" /\ task' = t
  /\ issued' = IF agent \in enabled THEN issued ELSE [issued EXCEPT ![agent] = @ + 1]
  /\ UNCHANGED <<board, enabled, executions, queue, offers, scanDay, claim, pauses, crashes>>

\* execute() starts: the claim is signed and its POST is under way.
Choose(t) ==
  /\ at = "turn" /\ queue # {}
  /\ CompletedToday(agent, scanDay) < TasksPerDay
  /\ t \in Newest(Candidates(agent))
  /\ at' = "claim" /\ task' = t
  /\ issued' = IF agent \in enabled THEN issued ELSE [issued EXCEPT ![agent] = @ + 1]
  /\ UNCHANGED <<board, enabled, executions, queue, offers, scanDay, claim, pauses, crashes>>

-----------------------------------------------------------------------------
\* The turn of one agent.

\* publish(): signed as the agent whose turn it is, with a nonce of its own.
PublishClaim == PostClaim(agent, task, WorkerLease)

\* The claim is in the room and acknowledged.
ClaimPosted ==
  /\ at = "claim"
  /\ PublishClaim
  /\ at' = "confirm" /\ claim' = NextSeq
  /\ UNCHANGED <<enabled, executions, queue, offers, scanDay, task, pauses, crashes, issued>>

\* The POST failed or timed out; the claim may be in the room all the same.
ClaimFails ==
  /\ at = "claim"
  /\ PublishClaim \/ UNCHANGED board
  /\ NextAgent
  /\ UNCHANGED <<executions, issued>>

\* Mutant of Won: any active claim will do.
WonByAnyone ==
  \E c \in ActiveClaim(Rows(archive), task, now) : TRUE

\* The room shows this claim as the one that holds the task.
Won ==
  \E c \in ActiveClaim(Rows(archive), task, now) : c.id = claim /\ c.author = agent

NewExecution(c) ==
  [agent |-> agent, task |-> task, claim |-> c, started |-> now,
   status |-> "running", submission |-> None]

\* createExecution(), then the sources and the model.
BeginWork ==
  /\ at = "confirm" /\ Won
  /\ executions' = executions \cup {NewExecution(claim)}
  /\ at' = "work"
  /\ UNCHANGED <<board, enabled, turn, pauses, crashes, issued>>

\* The read failed or does not show the claim, or somebody else holds the task.
ClaimNotWon ==
  /\ at = "confirm"
  /\ NextAgent
  /\ UNCHANGED <<board, executions, issued>>

\* finishExecution() of the current execution.
Finish(status, submission) ==
  executions' =
    { IF e.agent = agent /\ e.claim = claim
      THEN [e EXCEPT !.status = status, !.submission = submission] ELSE e : e \in executions }

\* The submission is in the room and its acknowledgement is on the way.
SubmissionPosted ==
  /\ at = "work"
  /\ PostSubmission(agent, task, claim)
  /\ at' = "sent"
  /\ UNCHANGED <<enabled, executions, turn, pauses, crashes, issued>>

SubmissionAcknowledged(s) ==
  /\ at = "sent"
  /\ s \in InRoom("submission") /\ room[s].claimId = claim /\ room[s].author = agent
  /\ Finish("submitted", s)
  /\ NextAgent
  /\ UNCHANGED <<board, issued>>

\* A source, the model or the POST failed; with "sent", only its answer was lost.
WorkFails ==
  /\ at \in {"work", "sent"}
  /\ Finish("failed", None)
  /\ NextAgent
  /\ UNCHANGED <<board, issued>>

-----------------------------------------------------------------------------
\* Around the worker.

Waiting == at # "turn"

\* Requesters and workers elsewhere, the background loop and the clock.
BoardStep ==
  /\ Waiting
  /\ \/ \E d \in Requesters, t \in TaskIds, x \in Expiries : PostTask(d, t, x)
     \/ \E d \in Rivals, t \in TaskIds, lease \in Leases : PostClaim(d, t, lease)
     \/ \E d \in Rivals, t \in TaskIds, c \in InRoom("claim") : PostSubmission(d, t, c)
     \/ at # "off" /\ \E first, last \in 1 .. Len(room) : SyncOnce(first, last)
     \/ Tick
  /\ UNCHANGED workerVars

Pause(a) ==
  /\ Waiting /\ at # "off" /\ pauses < MaxPauses
  /\ a \in enabled
  /\ enabled' = enabled \ {a}
  /\ pauses' = pauses + 1
  /\ UNCHANGED <<board, executions, at, turn, crashes, issued>>

Resume(a) ==
  /\ Waiting /\ at # "off"
  /\ a \in Agents \ enabled
  /\ enabled' = enabled \cup {a}
  /\ issued' = [issued EXCEPT ![a] = 0]
  /\ UNCHANGED <<board, executions, at, turn, pauses, crashes>>

\* The process ends; the tables stay as they are.
Crash ==
  /\ at # "off" /\ crashes < MaxCrashes
  /\ at' = "off"
  /\ queue' = {} /\ offers' = {} /\ scanDay' = 0 /\ task' = None /\ claim' = None
  /\ crashes' = crashes + 1
  /\ UNCHANGED <<board, enabled, executions, pauses, issued>>

\* Nothing looks at the executions a crash left running.
Restart ==
  /\ at = "off"
  /\ at' = "idle"
  /\ UNCHANGED <<board, enabled, executions, turn, pauses, crashes, issued>>

Scan ==
  \/ StartScan \/ ReadViews \/ EndScan \/ Pass
  \/ \E t \in TaskIds : Choose(t)
  \/ ClaimPosted \/ ClaimFails \/ BeginWork \/ ClaimNotWon
  \/ SubmissionPosted \/ WorkFails
  \/ \E s \in InRoom("submission") : SubmissionAcknowledged(s)

WorkerNext ==
  \/ Scan
  \/ BoardStep
  \/ \E a \in Agents : Pause(a) \/ Resume(a)
  \/ Crash \/ Restart

WorkerSpec == WorkerInit /\ [][WorkerNext]_allVars

-----------------------------------------------------------------------------

Lease(c) == room[c].ts + room[c].lease

\* Two executions of one task, by the same or by different agents of this runtime,
\* before or after a crash, never overlap in their leases: the later one began
\* when the earlier claim had run out. No model is paid twice for the same lease.
ExclusiveExecutions ==
  \A e, f \in executions :
    e.task = f.task /\ e.claim < f.claim => Lease(e.claim) <= f.started

\* An agent works on a task again only after its earlier attempt failed: it never
\* has two executions of a task that run or were submitted, crash or no crash.
NoDoubleWork ==
  \A e, f \in executions :
    /\ e.agent = f.agent /\ e.task = f.task
    /\ e.status # "failed" /\ f.status # "failed"
    => e = f

\* Work that the journal calls submitted and that was sent while the lease ran is
\* credited by the views of the runtime, whatever rivals claimed in the meantime
\* and whatever part of the room was never read. (Sent later than the instant at
\* which the claim was confirmed: leases that end at that very instant are over
\* for activeClaim and not yet for validClaim.)
SubmittedOnTimeIsCredited ==
  \A e \in executions :
    /\ e.status = "submitted"
    /\ e.started < room[e.submission].ts
    /\ room[e.submission].ts <= Lease(e.claim)
    => ValidClaim(Rows(archive), room[e.submission])

\* A paused agent may have one claim more issued in its name, by the scan that is
\* under way, and no second one however long it stays paused.
PauseTakesEffect == \A a \in Agents : issued[a] <= 1

\* No agent submits more than maxTasksPerDay executions begun on one UTC day, not
\* even when a scan that began the day before is still at work.
DailyQuota ==
  \A a \in Agents : \A e \in executions : CompletedToday(a, Day(e.started)) <= TasksPerDay
=============================================================================
