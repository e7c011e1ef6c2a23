----------------------------- MODULE NetworkBudget -----------------------------
(***************************************************************************)
(* What network mode may spend: the daily model calls of an agent and its  *)
(* one external research job a day (network-store.mjs callsToday,          *)
(* reserveCall, externalUsedToday and reserveExternalJob, as scan() and    *)
(* execute() of network-worker.mjs use them).                              *)
(*                                                                         *)
(* One worker does one work at a time, under a home-room-only policy: a    *)
(* work comes from the home room or is an external job. The checks and     *)
(* reservations of one work run without an await, but each reads the clock *)
(* and writes on its own, so that midnight or a crash may fall between     *)
(* any two. Time is the UTC day. Pauses and policy changes are one event,  *)
(* the worker's copy of the policy being stale; how a report is delivered  *)
(* is in NetworkDelivery.                                                  *)
(***************************************************************************)
EXTENDS Integers, FiniteSets

CONSTANTS
  Agents,
  Works,
  AgentOf,      \* [Works -> Agents]
  External,     \* the works that are external jobs
  Limits,       \* values of maxCallsPerDay an owner sets
  MaxDay,       \* bound on time
  MaxChanges,   \* bound on the owner's changes
  MaxCrashes    \* bound on crashes

ASSUME BudgetAssumption ==
  /\ AgentOf \in [Works -> Agents]
  /\ External \subseteq Works
  /\ Limits \subseteq Nat \ {0} /\ Limits # {}
  /\ MaxDay \in Nat \ {0} /\ MaxChanges \in Nat /\ MaxCrashes \in Nat

VARIABLES
  today,
  status,    \* status column of network_work
  created, finished, receipt,  \* the days in the rows; 0 is none
  report,    \* works with an envelope in mirror_json or reply_json
  calls,     \* network_calls
  slots,     \* network_external_days
  limit,     \* [Agents -> Limits], maxCallsPerDay in force
  stale,     \* the policy was changed or the agent paused since the scan began
  at,        \* where the worker is: idle, or the next step of its work
  work,      \* the work it is at
  changes, crashes

rows == <<status, created, finished, receipt, report>>
vars == <<today, rows, calls, slots, limit, stale, at, work, changes, crashes>>

Days == 0 .. MaxDay

Statuses ==
  {"new", "received", "assessing", "working", "skipped", "budget_limited", "failed",
   "paused", "interrupted", "pending", "submitted", "rejected", "delivery_unconfirmed"}

\* Where only midnight or a crash may come before the worker's next step.
Runs == {"created", "slot", "publish"}

\* Every variable keeps its type; a work reserves a phase once.
TypeOK ==
  /\ today \in 1 .. MaxDay
  /\ status \in [Works -> Statuses]
  /\ created \in [Works -> Days] /\ finished \in [Works -> Days] /\ receipt \in [Works -> Days]
  /\ report \subseteq Works
  /\ calls \subseteq [work : Works, phase : {"assess", "research"}, day : Days]
  /\ \A c, d \in calls : c.work = d.work /\ c.phase = d.phase => c = d
  /\ slots \subseteq [agent : Agents, day : Days, work : External]
  /\ limit \in [Agents -> Limits] /\ stale \in BOOLEAN
  /\ at \in {"idle", "assess", "research"} \cup Runs
  /\ work \in Works \cup {0}
  /\ changes \in 0 .. MaxChanges /\ crashes \in 0 .. MaxCrashes

Init ==
  /\ today = 1
  /\ status = [w \in Works |-> "new"]
  /\ created = [w \in Works |-> 0]
  /\ finished = [w \in Works |-> 0]
  /\ receipt = [w \in Works |-> 0]
  /\ report = {} /\ calls = {} /\ slots = {}
  /\ limit \in [Agents -> Limits]
  /\ stale = FALSE /\ at = "idle" /\ work = 0
  /\ changes = 0 /\ crashes = 0

-----------------------------------------------------------------------------

CallsOn(a, day) == Cardinality({ c \in calls : AgentOf[c.work] = a /\ c.day = day })

\* Mutant of ExternalUsed: only the reserved slots count.
ExternalUsedSlot(a, day) == \E s \in slots : s.agent = a /\ s.day = day

\* A slot of the day, or a report that was begun, finished or received on it or
\* still waits for its confirmation.
ExternalUsed(a, day) ==
  \/ \E s \in slots : s.agent = a /\ s.day = day
  \/ \E w \in External \cap report :
       AgentOf[w] = a /\ (day \in {created[w], finished[w], receipt[w]} \/ status[w] = "pending")

Need(w) == IF w \in External THEN 2 ELSE 1

Close(s) ==
  /\ status' = [status EXCEPT ![work] = s]
  /\ at' = "idle" /\ work' = 0

\* The scan's checks and create().
TakeUp(w) ==
  /\ at = "idle" /\ status[w] = "new"
  /\ CallsOn(AgentOf[w], today) + Need(w) <= limit[AgentOf[w]]
  /\ w \in External => ~ExternalUsed(AgentOf[w], today)
  /\ status' = [status EXCEPT ![w] = "received"]
  /\ created' = [created EXCEPT ![w] = today]
  /\ at' = IF w \in External THEN "created" ELSE "slot"
  /\ work' = w /\ stale' = FALSE
  /\ UNCHANGED <<today, finished, receipt, report, calls, slots, limit, changes, crashes>>

\* One transaction; INSERT OR IGNORE, of one row per agent and day.
ReserveExternalJob(a) ==
  /\ ~ExternalUsed(a, today)
  /\ slots' = slots \cup { [agent |-> a, day |-> today, work |-> work] }

\* The calls left are looked at once more, then the day's job is reserved.
ReserveSlot ==
  /\ at = "created"
  /\ LET a == AgentOf[work]
     IN \/ /\ CallsOn(a, today) + 2 <= limit[a] /\ ReserveExternalJob(a)
           /\ at' = "slot" /\ UNCHANGED <<status, work>>
        \/ /\ CallsOn(a, today) + 2 > limit[a]
           /\ Close("budget_limited") /\ UNCHANGED slots
        \/ /\ CallsOn(a, today) + 2 <= limit[a] /\ ExternalUsed(a, today)
           /\ Close("skipped") /\ UNCHANGED slots
  /\ UNCHANGED <<today, created, finished, receipt, report, calls, limit, stale, changes, crashes>>

\* Mutants of Reserve: the limit may be passed by one, or never be reached.
ReserveOneMore(phase, next, s) ==
  LET a == AgentOf[work]
  IN \/ /\ CallsOn(a, today) <= limit[a]
        /\ calls' = calls \cup { [work |-> work, phase |-> phase, day |-> today] }
        /\ status' = [status EXCEPT ![work] = s]
        /\ at' = next /\ UNCHANGED work
     \/ /\ CallsOn(a, today) > limit[a]
        /\ Close("budget_limited") /\ UNCHANGED calls

ReserveOneLess(phase, next, s) ==
  LET a == AgentOf[work]
  IN \/ /\ CallsOn(a, today) + 1 < limit[a]
        /\ calls' = calls \cup { [work |-> work, phase |-> phase, day |-> today] }
        /\ status' = [status EXCEPT ![work] = s]
        /\ at' = next /\ UNCHANGED work
     \/ /\ CallsOn(a, today) + 1 >= limit[a]
        /\ Close("budget_limited") /\ UNCHANGED calls

\* reserveCall(): the call is on record before it is made, or is not made.
Reserve(phase, next, s) ==
  LET a == AgentOf[work]
  IN \/ /\ CallsOn(a, today) < limit[a]
        /\ calls' = calls \cup { [work |-> work, phase |-> phase, day |-> today] }
        /\ status' = [status EXCEPT ![work] = s]
        /\ at' = next /\ UNCHANGED work
     \/ /\ CallsOn(a, today) >= limit[a]
        /\ Close("budget_limited") /\ UNCHANGED calls

Assess ==
  /\ at = "slot"
  /\ Reserve("assess", "assess", "assessing")
  /\ UNCHANGED <<today, created, finished, receipt, report, slots, limit, stale, changes, crashes>>

\* The assessment is there and asks for research: sources, then the second call.
\* (Reading the sources is part of this await; a change meanwhile is a stale one.)
Research ==
  /\ at = "assess" /\ ~stale
  /\ Reserve("research", "research", "working")
  /\ UNCHANGED <<today, created, finished, receipt, report, slots, limit, stale, changes, crashes>>

\* A result, by research or (for the home room) by the assessment alone.
Result ==
  /\ at = "research" \/ (at = "assess" /\ work \notin External)
  /\ finished' = [finished EXCEPT ![work] = today]
  /\ IF stale THEN Close("paused") ELSE at' = "publish" /\ UNCHANGED <<status, work>>
  /\ UNCHANGED <<today, created, receipt, report, calls, slots, limit, stale, changes, crashes>>

\* The call, a source or the answer's form failed, it was no job, or it went stale.
Ends ==
  /\ at \in {"assess", "research"}
  /\ \/ Close("failed")
     \/ at = "assess" /\ ~stale /\ Close("skipped")
     \/ stale /\ at = "assess" /\ Close("paused")
  /\ UNCHANGED <<today, created, finished, receipt, report, calls, slots, limit, stale, changes, crashes>>

\* The report's envelope is saved and waits.
Publish ==
  /\ at = "publish"
  /\ report' = report \cup {work}
  /\ Close("pending")
  /\ UNCHANGED <<today, created, finished, receipt, calls, slots, limit, stale, changes, crashes>>

\* deliver() finds the report in the room, with the day on which it came there.
Confirmed(w, day) ==
  /\ at = "idle" /\ status[w] = "pending"
  /\ day \in finished[w] .. today
  /\ receipt' = [receipt EXCEPT ![w] = day]
  /\ status' = [status EXCEPT ![w] = "submitted"]
  /\ UNCHANGED <<today, created, finished, report, calls, slots, limit, stale, at, work,
                 changes, crashes>>

\* The room turned the report down, or a day went by without a trace of it.
Dropped(w) ==
  /\ at = "idle" /\ status[w] = "pending"
  /\ \/ status' = [status EXCEPT ![w] = "rejected"]
     \/ created[w] < today /\ status' = [status EXCEPT ![w] = "delivery_unconfirmed"]
  /\ UNCHANGED <<today, created, finished, receipt, report, calls, slots, limit, stale, at,
                 work, changes, crashes>>

-----------------------------------------------------------------------------

Midnight ==
  /\ today < MaxDay
  /\ today' = today + 1
  /\ UNCHANGED <<rows, calls, slots, limit, stale, at, work, changes, crashes>>

\* A new profile or a pause, of the agent at work (which makes its copy stale) or not.
OwnerChange(a, n) ==
  /\ at \notin Runs /\ changes < MaxChanges
  /\ changes' = changes + 1
  /\ limit' = [limit EXCEPT ![a] = n]
  /\ stale' = (stale \/ (at # "idle" /\ AgentOf[work] = a))
  /\ UNCHANGED <<today, rows, calls, slots, at, work, crashes>>

\* The process ends and starts again: recoverInterrupted() closes the work.
Crash ==
  /\ crashes < MaxCrashes
  /\ crashes' = crashes + 1
  /\ status' = [w \in Works |->
       IF status[w] \in {"received", "assessing", "working"} THEN "interrupted" ELSE status[w]]
  /\ at' = "idle" /\ work' = 0 /\ stale' = FALSE
  /\ UNCHANGED <<today, created, finished, receipt, report, calls, slots, limit, changes>>

Next ==
  \/ \E w \in Works : TakeUp(w) \/ Dropped(w)
  \/ \E w \in Works, day \in Days : Confirmed(w, day)
  \/ ReserveSlot \/ Assess \/ Research \/ Result \/ Ends \/ Publish
  \/ Midnight \/ Crash
  \/ \E a \in Agents, n \in Limits : OwnerChange(a, n)

Spec == Init /\ [][Next]_vars

-----------------------------------------------------------------------------

\* A model call is reserved only within the limit that is in force at that moment,
\* however old the worker's copy of the policy, and counted on the day it is made.
CallsWithinLimit ==
  [][\A c \in calls' \ calls :
       Cardinality({ d \in calls' : AgentOf[d.work] = AgentOf[c.work] /\ d.day = c.day })
         <= limit[AgentOf[c.work]]]_vars

ExternalDays(w) ==
  { s.day : s \in { t \in slots : t.work = w } }
  \cup (IF w \in report THEN {finished[w], receipt[w]} \ {0} ELSE {})

\* "One external job a day": the days on which an external job of an agent was
\* reserved, finished or seen in the room belong to no other external job of it,
\* although a job may begin before midnight and end after it, or be confirmed days
\* later, and although a crash may cost a job its end.
OneExternalADay ==
  \A v, w \in External :
    v # w /\ AgentOf[v] = AgentOf[w] => ExternalDays(v) \cap ExternalDays(w) = {}

\* An external job that took the day's slot is never stopped half paid for want of
\* the second model call: both were seen to be free before the slot was taken, and
\* nothing else of the agent can use them up in between.
NoHalfPaidJob ==
  \A s \in slots : status[s.work] # "budget_limited"
=============================================================================
