------------------------- MODULE NetworkBudgetProofs -------------------------
(***************************************************************************)
(* Theorems of NetworkBudget: the daily limit of model calls, the one      *)
(* external job a day and the rule that a job is not stopped half paid,    *)
(* for any number of agents, jobs, days, policy changes and crashes.       *)
(***************************************************************************)
EXTENDS NetworkBudget, FiniteSetTheorems, TLAPS

-----------------------------------------------------------------------------
\* The inductive invariant.

UnderWay == {"created", "slot", "assess", "research", "publish"}
Reported == {"pending", "submitted", "rejected", "delivery_unconfirmed"}

\* The worker is at a work that was taken up and has not ended.
WorkInv ==
  /\ at # "idle" => work \in Works /\ status[work] \in {"received", "assessing", "working"}
  /\ at = "created" => work \in External

\* What the calls of a work say about how far it got; none is of a day to come.
CallsInv ==
  /\ IsFiniteSet(calls)
  /\ \A c \in calls : /\ c.day <= today /\ status[c.work] # "new"
                      /\ at \in {"created", "slot"} => c.work # work
                      /\ at = "assess" /\ c.work = work => c.phase = "assess"

\* A slot belongs to the agent of its job, and is taken after the scan's checks.
SlotsInv ==
  \A s \in slots : /\ s.agent = AgentOf[s.work] /\ s.day <= today /\ s.day # 0
                   /\ status[s.work] # "new"
                   /\ at = "created" => s.work # work

\* Only what was published is reported, and only what is reported is received.
ReportInv ==
  \A w \in Works :
    /\ w \in report <=> status[w] \in Reported
    /\ finished[w] <= today /\ receipt[w] <= today
    /\ w \notin report => receipt[w] = 0
    /\ w \in report \/ (at = "publish" /\ w = work) => finished[w] # 0

\* What the agent of the work under way has spent today, and may spend.
Spent == CallsOn(AgentOf[work], today)
Cap == limit[AgentOf[work]]

\* The calls a job still needs are free while the worker's copy of the policy is good.
PaidInv ==
  work \in External =>
    /\ at = "slot" => Spent + 2 <= Cap
    /\ at = "assess" /\ ~stale => Spent + 1 <= Cap

Others(w) == { v \in External : v # w /\ AgentOf[v] = AgentOf[w] }

\* All that the agent's other jobs ever claimed lies before the day d, and none of
\* them can claim more: only a pending one is ever confirmed.
Clear(w, d) == \A v \in Others(w) : status[v] # "pending" /\ \A e \in ExternalDays(v) : e < d

\* The job under way was clear on the day of its slot ...
SlotClear ==
  at \in UnderWay \ {"created"} /\ work \in External =>
    \E s \in slots : /\ s.work = work /\ Clear(work, s.day)
                     /\ at = "publish" => s.day <= finished[work]

\* ... and stays so while its report waits, since no other slot is given then.
PendingClear ==
  \A w \in External : status[w] = "pending" => Clear(w, finished[w])

DaysInv == SlotClear /\ PendingClear /\ OneExternalADay

IInv ==
  TypeOK /\ WorkInv /\ CallsInv /\ SlotsInv /\ ReportInv /\ PaidInv /\ DaysInv /\ NoHalfPaidJob

-----------------------------------------------------------------------------
\* Counting calls.

Of(S, a, day) == { c \in S : AgentOf[c.work] = a /\ c.day = day }

LEMMA Counted ==
  ASSUME NEW S, IsFiniteSet(S), NEW a, NEW day
  PROVE  /\ IsFiniteSet(Of(S, a, day)) /\ Cardinality(Of(S, a, day)) \in Nat
  BY FS_Subset, FS_CardinalityType DEF Of

LEMMA CountedMore ==
  ASSUME NEW S, IsFiniteSet(S), NEW c, NEW a, NEW day
  PROVE  /\ IsFiniteSet(S \cup {c})
         /\ Cardinality(Of(S \cup {c}, a, day)) <= Cardinality(Of(S, a, day)) + 1
<1>1. IsFiniteSet(S \cup {c})
  BY FS_AddElement
<1>2. IsFiniteSet(Of(S, a, day)) /\ Cardinality(Of(S, a, day)) \in Nat
  BY Counted
<1>3. CASE ~(AgentOf[c.work] = a /\ c.day = day)
  <2>1. Of(S \cup {c}, a, day) = Of(S, a, day)
    BY <1>3 DEF Of
  <2> QED BY <1>1, <1>2, <2>1
<1>4. CASE AgentOf[c.work] = a /\ c.day = day
  <2>0. Of(S \cup {c}, a, day) = Of(S, a, day) \cup {c}
    BY <1>4 DEF Of
  <2>1. Cardinality(Of(S, a, day) \cup {c}) \in
          {Cardinality(Of(S, a, day)), Cardinality(Of(S, a, day)) + 1}
    BY <1>2, FS_AddElement
  <2>2. Cardinality(Of(S \cup {c}, a, day)) \in
          {Cardinality(Of(S, a, day)), Cardinality(Of(S, a, day)) + 1}
    BY <2>0, <2>1, Zenon
  <2> QED BY <1>1, <1>2, <2>2
<1> QED BY <1>3, <1>4

LEMMA CallsOnIs ==
  /\ \A a, day : CallsOn(a, day) = Cardinality(Of(calls, a, day))
  /\ \A a, day : CallsOn(a, day)' = Cardinality(Of(calls', a, day))
  BY DEF CallsOn, Of

-----------------------------------------------------------------------------
\* Types, and how far a work got.

Base == TypeOK /\ WorkInv /\ CallsInv /\ SlotsInv /\ ReportInv

CallRows == [work : Works, phase : {"assess", "research"}, day : Days]
SlotRows == [agent : Agents, day : Days, work : External]

LEMMA Today ==
  ASSUME TypeOK
  PROVE  today \in Days /\ today # 0 /\ today \in Nat /\ MaxDay \in Nat /\ 0 \in Days
  BY BudgetAssumption DEF TypeOK, Days

LEMMA WorkNow ==
  ASSUME Base, at # "idle"
  PROVE  /\ work \in Works /\ AgentOf[work] \in Agents /\ work \notin report
         /\ status[work] \in {"received", "assessing", "working"}
         /\ limit[AgentOf[work]] \in Nat
  BY BudgetAssumption DEF Base, TypeOK, WorkInv, ReportInv, Reported

LEMMA BaseTakeUp ==
  ASSUME Base, NEW w \in Works, TakeUp(w)
  PROVE  Base'
<1>1. /\ status' = [status EXCEPT ![w] = "received"] /\ status[w] = "new" /\ work' = w
      /\ at = "idle" /\ at' = (IF w \in External THEN "created" ELSE "slot") /\ stale' = FALSE
      /\ created' = [created EXCEPT ![w] = today]
      /\ UNCHANGED <<today, finished, receipt, report, calls, slots, limit, changes, crashes>>
  BY DEF TakeUp
<1>2. TypeOK'
  BY <1>1, Today DEF Base, TypeOK, Statuses, Runs
<1>3. WorkInv'
  BY <1>1 DEF Base, TypeOK, WorkInv
<1>4. CallsInv'
  BY <1>1 DEF Base, TypeOK, CallsInv
<1>5. SlotsInv'
  BY <1>1, BudgetAssumption DEF Base, TypeOK, SlotsInv
<1>6. ReportInv'
  BY <1>1 DEF Base, TypeOK, ReportInv, Reported
<1> QED BY <1>2, <1>3, <1>4, <1>5, <1>6 DEF Base

\* A work that ends without a report.
LEMMA BaseClose ==
  ASSUME Base, at # "idle", NEW s \in Statuses \ (Reported \cup {"new"}), Close(s),
         UNCHANGED <<today, created, receipt, report, calls, slots, limit, stale, changes, crashes>>,
         finished' = finished \/ finished' = [finished EXCEPT ![work] = today]
  PROVE  Base'
<1>1. status' = [status EXCEPT ![work] = s] /\ at' = "idle" /\ work' = 0
  BY DEF Close
<1>2. work \in Works /\ work \notin report
  BY WorkNow
<1>3. TypeOK'
  BY <1>1, <1>2, Today DEF Base, TypeOK, Runs
<1>4. WorkInv' /\ CallsInv' /\ SlotsInv'
  BY <1>1, <1>2, BudgetAssumption DEF Base, TypeOK, WorkInv, CallsInv, SlotsInv
<1>5. ReportInv'
  <2>1. \A w \in Works : finished'[w] \in {finished[w], today} /\ (w # work => finished'[w] = finished[w])
    BY <1>2 DEF Base, TypeOK
  <2> QED BY <1>1, <1>2, <2>1, Today DEF Base, TypeOK, ReportInv
<1> QED BY <1>3, <1>4, <1>5 DEF Base

LEMMA BaseReserveSlot ==
  ASSUME Base, ReserveSlot
  PROVE  Base'
<1>1. CASE Close("budget_limited") /\ UNCHANGED slots
  BY <1>1, BaseClose DEF ReserveSlot, Statuses, Reported
<1>2. CASE Close("skipped") /\ UNCHANGED slots
  BY <1>2, BaseClose DEF ReserveSlot, Statuses, Reported
<1>3. CASE ReserveExternalJob(AgentOf[work]) /\ at' = "slot" /\ UNCHANGED <<status, work>>
  <2> DEFINE s == [agent |-> AgentOf[work], day |-> today, work |-> work]
  <2>1. at = "created" /\ slots' = slots \cup {s}
        /\ UNCHANGED <<today, created, finished, receipt, report, calls, limit, stale, changes, crashes>>
    BY <1>3 DEF ReserveSlot, ReserveExternalJob
  <2>2. work \in Works /\ AgentOf[work] \in Agents /\ status[work] # "new"
    BY <2>1, WorkNow
  <2>3. work \in External /\ today \in Days
    BY <2>1, Today DEF Base, WorkInv
  <2>4. s \in SlotRows
    BY <2>2, <2>3 DEF SlotRows
  <2>5. TypeOK'
    BY <1>3, <2>1, <2>3, <2>4 DEF Base, TypeOK, SlotRows, Runs
  <2>6. WorkInv' /\ CallsInv' /\ ReportInv'
    BY <1>3, <2>1 DEF Base, WorkInv, CallsInv, ReportInv
  <2>7. SlotsInv'
    BY <1>3, <2>1, <2>2, Today DEF Base, SlotsInv
  <2> QED BY <2>5, <2>6, <2>7 DEF Base
<1> QED BY <1>1, <1>2, <1>3 DEF ReserveSlot

\* A call that is made, and the status it brings.
LEMMA BaseReserve ==
  ASSUME Base, NEW phase \in {"assess", "research"}, NEW s \in {"assessing", "working"},
         Reserve(phase, phase, s),
         (at = "slot" /\ phase = "assess") \/ (at = "assess" /\ phase = "research"),
         UNCHANGED <<today, created, finished, receipt, report, slots, limit, stale, changes, crashes>>
  PROVE  Base'
<1>0. at # "idle"
  OBVIOUS
<1>1. CASE Close("budget_limited") /\ UNCHANGED calls
  BY <1>0, <1>1, BaseClose DEF Statuses, Reported
<1>2. CASE at' = phase /\ UNCHANGED work /\ status' = [status EXCEPT ![work] = s]
            /\ calls' = calls \cup {[work |-> work, phase |-> phase, day |-> today]}
  <2> DEFINE c == [work |-> work, phase |-> phase, day |-> today]
  <2>1. /\ work \in Works /\ AgentOf[work] \in Agents /\ work \notin report
        /\ status[work] \in {"received", "assessing", "working"} /\ today \in Days
    BY <1>0, WorkNow, Today DEF Base
  <2>2. c \in CallRows /\ c.work = work /\ c.phase = phase /\ c.day = today
    BY <2>1 DEF CallRows
  <2>3. calls' = calls \cup {c}
    BY <1>2
  <2> HIDE DEF c
  <2>4. \A d \in calls : d.work # work \/ d.phase # phase
    BY DEF Base, CallsInv
  <2>5. TypeOK'
    <3>1. \A d, e \in calls' : d.work = e.work /\ d.phase = e.phase => d = e
      BY <2>2, <2>3, <2>4 DEF Base, TypeOK
    <3>2. calls' \subseteq CallRows
      BY <2>2, <2>3 DEF Base, TypeOK, CallRows
    <3> QED BY <1>2, <2>1, <3>1, <3>2 DEF Base, TypeOK, CallRows, Statuses, Runs
  <2>6. WorkInv'
    BY <1>2, <2>1 DEF Base, TypeOK, WorkInv
  <2>7. CallsInv'
    <3>1. IsFiniteSet(calls')
      BY <2>3, FS_AddElement DEF Base, CallsInv
    <3>2. \A d \in calls' : d.day <= today /\ status'[d.work] # "new"
      BY <1>2, <2>1, <2>2, <2>3, Today DEF Base, TypeOK, CallsInv
    <3>3. phase = "assess" => \A d \in calls' : d.work = work => d.phase = "assess"
      BY <2>2, <2>3 DEF Base, CallsInv
    <3> QED BY <1>2, <3>1, <3>2, <3>3 DEF CallsInv
  <2>8. SlotsInv' /\ ReportInv'
    BY <1>2, <2>1, BudgetAssumption DEF Base, TypeOK, SlotsInv, ReportInv, Reported
  <2> QED BY <2>5, <2>6, <2>7, <2>8 DEF Base
<1> QED BY <1>1, <1>2 DEF Reserve

LEMMA BaseAssess ==
  ASSUME Base, Assess
  PROVE  Base'
<1>1. /\ at = "slot" /\ Reserve("assess", "assess", "assessing")
      /\ UNCHANGED <<today, created, finished, receipt, report, slots, limit, stale, changes, crashes>>
  BY DEF Assess
<1>2. "assess" \in {"assess", "research"} /\ "assessing" \in {"assessing", "working"}
  OBVIOUS
<1> QED BY <1>1, <1>2, BaseReserve

LEMMA BaseResearch ==
  ASSUME Base, Research
  PROVE  Base'
  BY BaseReserve DEF Research

LEMMA BaseResult ==
  ASSUME Base, Result
  PROVE  Base'
<1>1. CASE stale
  BY <1>1, BaseClose DEF Result, Statuses, Reported
<1>2. CASE ~stale
  <2>1. /\ at \in {"assess", "research"} /\ at' = "publish" /\ finished' = [finished EXCEPT ![work] = today]
        /\ UNCHANGED <<today, created, receipt, report, calls, slots, limit, stale, changes, crashes, status, work>>
    BY <1>2 DEF Result
  <2>2. work \in Works /\ work \notin report
    BY <2>1, WorkNow
  <2>3. TypeOK'
    BY <2>1, <2>2, Today DEF Base, TypeOK, Runs
  <2>4. WorkInv' /\ CallsInv' /\ SlotsInv'
    BY <2>1 DEF Base, WorkInv, CallsInv, SlotsInv
  <2>5. ReportInv'
    <3>1. \A w \in Works : finished'[w] = IF w = work THEN today ELSE finished[w]
      BY <2>1, <2>2 DEF Base, TypeOK
    <3> QED BY <2>1, <2>2, <3>1, Today DEF Base, ReportInv
  <2> QED BY <2>3, <2>4, <2>5 DEF Base
<1> QED BY <1>1, <1>2

LEMMA BaseEnds ==
  ASSUME Base, Ends
  PROVE  Base'
<1>1. PICK s \in {"failed", "skipped", "paused"} : Close(s)
  BY DEF Ends
<1> QED BY <1>1, BaseClose DEF Ends, Statuses, Reported

LEMMA BasePublish ==
  ASSUME Base, Publish
  PROVE  Base'
<1>1. /\ at = "publish" /\ report' = report \cup {work} /\ status' = [status EXCEPT ![work] = "pending"]
      /\ at' = "idle" /\ work' = 0
      /\ UNCHANGED <<today, created, finished, receipt, calls, slots, limit, stale, changes, crashes>>
  BY DEF Publish, Close
<1>2. work \in Works /\ status[work] \in {"received", "assessing", "working"}
  BY <1>1, WorkNow
<1>3. TypeOK'
  BY <1>1, <1>2 DEF Base, TypeOK, Statuses, Runs
<1>4. WorkInv' /\ CallsInv' /\ SlotsInv'
  BY <1>1, <1>2, BudgetAssumption DEF Base, TypeOK, WorkInv, CallsInv, SlotsInv
<1>5. ReportInv'
  BY <1>1, <1>2 DEF Base, TypeOK, ReportInv, Reported
<1> QED BY <1>3, <1>4, <1>5 DEF Base

LEMMA BaseConfirmed ==
  ASSUME Base, NEW w \in Works, NEW day \in Days, Confirmed(w, day)
  PROVE  Base'
<1>1. /\ at = "idle" /\ status[w] = "pending" /\ day \in finished[w] .. today
      /\ receipt' = [receipt EXCEPT ![w] = day] /\ status' = [status EXCEPT ![w] = "submitted"]
      /\ UNCHANGED <<today, created, finished, report, calls, slots, limit, stale, at, work, changes, crashes>>
  BY DEF Confirmed
<1>2. TypeOK'
  BY <1>1 DEF Base, TypeOK, Statuses
<1>3. WorkInv' /\ CallsInv' /\ SlotsInv'
  BY <1>1, BudgetAssumption DEF Base, TypeOK, WorkInv, CallsInv, SlotsInv
<1>4. ReportInv'
  <2>1. \A v \in Works : receipt'[v] = IF v = w THEN day ELSE receipt[v]
    BY <1>1 DEF Base, TypeOK
  <2>2. \A v \in Works : status'[v] = IF v = w THEN "submitted" ELSE status[v]
    BY <1>1 DEF Base, TypeOK
  <2>3. day <= today
    BY <1>1
  <2>4. w \in report
    BY <1>1 DEF Base, ReportInv, Reported
  <2> QED BY <1>1, <2>1, <2>2, <2>3, <2>4 DEF Base, ReportInv, Reported
<1> QED BY <1>2, <1>3, <1>4 DEF Base

LEMMA BaseDropped ==
  ASSUME Base, NEW w \in Works, Dropped(w)
  PROVE  Base'
<1>1. PICK s \in {"rejected", "delivery_unconfirmed"} : status' = [status EXCEPT ![w] = s]
  BY DEF Dropped
<1>2. /\ at = "idle" /\ status[w] = "pending"
      /\ UNCHANGED <<today, created, finished, receipt, report, calls, slots, limit, stale, at, work, changes, crashes>>
  BY DEF Dropped
<1>3. TypeOK'
  BY <1>1, <1>2 DEF Base, TypeOK, Statuses
<1>4. WorkInv' /\ CallsInv' /\ SlotsInv'
  BY <1>1, <1>2, BudgetAssumption DEF Base, TypeOK, WorkInv, CallsInv, SlotsInv
<1>5. ReportInv'
  BY <1>1, <1>2 DEF Base, TypeOK, ReportInv, Reported
<1> QED BY <1>3, <1>4, <1>5 DEF Base

LEMMA BaseMidnight ==
  ASSUME Base, Midnight
  PROVE  Base'
<1>1. today' = today + 1 /\ today' \in 1 .. MaxDay
      /\ UNCHANGED <<rows, calls, slots, limit, stale, at, work, changes, crashes>>
  BY BudgetAssumption DEF Midnight, Base, TypeOK
<1>2. TypeOK'
  BY <1>1 DEF Base, TypeOK, rows
<1>3. WorkInv'
  BY <1>1 DEF Base, WorkInv, rows
<1>4. (\A c \in calls : c.day \in Nat) /\ (\A s \in slots : s.day \in Nat)
  BY BudgetAssumption DEF Base, TypeOK, Days
<1>5. CallsInv' /\ SlotsInv'
  BY <1>1, <1>4, Today DEF Base, CallsInv, SlotsInv, rows
<1>6. \A w \in Works : finished[w] \in Nat /\ receipt[w] \in Nat
  BY BudgetAssumption DEF Base, TypeOK, Days
<1>7. ReportInv'
  BY <1>1, <1>6, Today DEF Base, ReportInv, rows
<1> QED BY <1>2, <1>3, <1>5, <1>7 DEF Base

LEMMA BaseOwnerChange ==
  ASSUME Base, NEW a \in Agents, NEW n \in Limits, OwnerChange(a, n)
  PROVE  Base'
<1>1. /\ limit' = [limit EXCEPT ![a] = n] /\ changes' = changes + 1 /\ changes < MaxChanges
      /\ UNCHANGED <<today, rows, calls, slots, at, work, crashes>>
      /\ stale' = (stale \/ (at # "idle" /\ AgentOf[work] = a))
  BY DEF OwnerChange
<1>2. stale' \in BOOLEAN
  BY <1>1 DEF Base, TypeOK
<1>3. changes' \in 0 .. MaxChanges
  BY <1>1, BudgetAssumption DEF Base, TypeOK
<1>4. TypeOK'
  BY <1>1, <1>2, <1>3 DEF Base, TypeOK, rows
<1>5. WorkInv' /\ CallsInv' /\ SlotsInv' /\ ReportInv'
  BY <1>1 DEF Base, WorkInv, CallsInv, SlotsInv, ReportInv, rows
<1> QED BY <1>4, <1>5 DEF Base

LEMMA BaseCrash ==
  ASSUME Base, Crash
  PROVE  Base'
<1>1. /\ status' = [w \in Works |->
           IF status[w] \in {"received", "assessing", "working"} THEN "interrupted" ELSE status[w]]
      /\ at' = "idle" /\ work' = 0 /\ stale' = FALSE /\ crashes < MaxCrashes /\ crashes' = crashes + 1
      /\ UNCHANGED <<today, created, finished, receipt, report, calls, slots, limit, changes>>
  BY DEF Crash
<1>2. crashes' \in 0 .. MaxCrashes
  BY <1>1, BudgetAssumption DEF Base, TypeOK
<1>3. TypeOK'
  BY <1>1, <1>2 DEF Base, TypeOK, Statuses, Runs
<1>4. WorkInv' /\ CallsInv' /\ SlotsInv'
  BY <1>1, BudgetAssumption DEF Base, TypeOK, WorkInv, CallsInv, SlotsInv
<1>5. ReportInv'
  BY <1>1 DEF Base, TypeOK, ReportInv, Reported
<1> QED BY <1>3, <1>4, <1>5 DEF Base

LEMMA BaseStep ==
  ASSUME Base, [Next]_vars
  PROVE  Base'
<1>1. CASE UNCHANGED vars
  BY <1>1 DEF vars, rows, Base, TypeOK, WorkInv, CallsInv, SlotsInv, ReportInv
<1> QED
  BY <1>1, BaseTakeUp, BaseReserveSlot, BaseAssess, BaseResearch, BaseResult, BaseEnds, BasePublish,
     BaseConfirmed, BaseDropped, BaseMidnight, BaseOwnerChange, BaseCrash DEF Next

-----------------------------------------------------------------------------
\* The calls a job still needs.

LEMMA CallsOnType ==
  ASSUME Base, NEW a, NEW day
  PROVE  CallsOn(a, day) \in Nat
  BY CallsOnIs, Counted DEF Base, CallsInv

LEMMA SpentType ==
  ASSUME Base, at # "idle"
  PROVE  Spent \in Nat /\ Cap \in Nat
  BY CallsOnType, WorkNow DEF Spent, Cap

LEMMA SpentSame ==
  ASSUME UNCHANGED <<calls, today, work>>
  PROVE  Spent' = Spent
  BY DEF Spent, CallsOn

LEMMA SpentMore ==
  ASSUME Base, at # "idle", NEW c, calls' = calls \cup {c}, UNCHANGED <<today, work>>
  PROVE  Spent' \in Nat /\ Spent' <= Spent + 1
<1> DEFINE a == AgentOf[work]
<1>1. IsFiniteSet(calls)
  BY DEF Base, CallsInv
<1>2. Spent = Cardinality(Of(calls, a, today)) /\ Spent' = Cardinality(Of(calls', a, today))
  BY DEF Spent, CallsOn, Of
<1>3. IsFiniteSet(calls') /\ Cardinality(Of(calls', a, today)) <= Cardinality(Of(calls, a, today)) + 1
  BY <1>1, CountedMore
<1>4. Cardinality(Of(calls', a, today)) \in Nat
  BY <1>3, Counted
<1> QED BY <1>2, <1>3, <1>4

\* Nothing has been spent on a day that has just begun.
LEMMA SpentNothing ==
  ASSUME Base, today' = today + 1, UNCHANGED <<calls, work>>
  PROVE  Spent' = 0
<1>1. \A c \in calls : c.day # today + 1
  <2>1. \A c \in calls : c.day \in Nat /\ c.day <= today
    BY BudgetAssumption DEF Base, TypeOK, CallsInv, Days
  <2> QED BY <2>1, Today DEF Base
<1>2. Spent' = Cardinality({c \in calls : AgentOf[c.work] = AgentOf[work] /\ c.day = today + 1})
  BY DEF Spent, CallsOn
<1>3. {c \in calls : AgentOf[c.work] = AgentOf[work] /\ c.day = today + 1} = {}
  BY <1>1
<1> QED BY <1>2, <1>3, FS_EmptySet

LEMMA PaidStep ==
  ASSUME Base, PaidInv, [Next]_vars
  PROVE  PaidInv'
<1>1. CASE at' \notin {"slot", "assess"} \/ work' \notin External
  BY <1>1 DEF PaidInv
<1>2. CASE ReserveSlot /\ at' = "slot"
  <2>1. /\ at = "created" /\ Spent + 2 <= Cap /\ UNCHANGED <<calls, today, limit, work>>
    BY <1>2 DEF ReserveSlot, Close, Spent, Cap
  <2>2. Spent' = Spent /\ Cap' = Cap
    BY <2>1, SpentSame DEF Cap
  <2> QED BY <1>2, <2>1, <2>2 DEF PaidInv
<1>3. CASE Assess /\ at' = "assess" /\ work' \in External
  <2>1. /\ at = "slot" /\ UNCHANGED <<today, limit, work>>
        /\ calls' = calls \cup {[work |-> work, phase |-> "assess", day |-> today]}
    BY <1>3 DEF Assess, Reserve, Close
  <2>2. Spent + 2 <= Cap /\ Spent \in Nat /\ Cap \in Nat
    BY <1>3, <2>1, SpentType DEF PaidInv
  <2>3. Spent' \in Nat /\ Spent' <= Spent + 1
    BY <2>1, SpentMore
  <2>4. Cap' = Cap
    BY <2>1 DEF Cap
  <2>5. Spent' + 1 <= Cap
    <3>1. \A a, b, c \in Nat : a + 2 <= c /\ b <= a + 1 => b + 1 <= c
      OBVIOUS
    <3> QED BY <2>2, <2>3, <3>1
  <2>6. Spent' + 1 <= Cap'
    BY <2>4, <2>5
  <2> QED BY <1>3, <2>6 DEF PaidInv
<1>4. CASE Midnight
  <2>1. today' = today + 1 /\ UNCHANGED <<calls, limit, stale, at, work>>
    BY <1>4 DEF Midnight
  <2>2. Spent' = 0 /\ Cap' = Cap
    BY <2>1, SpentNothing DEF Cap
  <2>3. CASE at # "idle"
    <3>1. Spent \in Nat /\ Cap \in Nat
      BY <2>3, SpentType
    <3> QED BY <2>1, <2>2, <3>1 DEF PaidInv
  <2>4. CASE at = "idle"
    BY <2>1, <2>4 DEF PaidInv
  <2> QED BY <2>3, <2>4
<1>5. ASSUME NEW b \in Agents, NEW n \in Limits, OwnerChange(b, n)
      PROVE  PaidInv'
  <2>1. /\ limit' = [limit EXCEPT ![b] = n] /\ UNCHANGED <<today, calls, at, work>> /\ at # "slot"
        /\ stale' = (stale \/ (at # "idle" /\ AgentOf[work] = b))
    BY <1>5 DEF OwnerChange, rows, Runs
  <2>2. CASE at = "assess" /\ ~stale /\ AgentOf[work] # b
    <3>1. Cap' = Cap
      BY <2>1, <2>2, WorkNow DEF Cap, Base, TypeOK
    <3>2. Spent' = Spent
      BY <2>1, SpentSame
    <3> QED BY <2>1, <2>2, <3>1, <3>2 DEF PaidInv
  <2>3. CASE ~(at = "assess" /\ ~stale /\ AgentOf[work] # b)
    BY <2>1, <2>3 DEF PaidInv
  <2> QED BY <2>2, <2>3
<1>6. CASE UNCHANGED <<calls, today, work, at, limit, stale>>
  <2>1. Spent' = Spent /\ Cap' = Cap
    BY <1>6, SpentSame DEF Cap
  <2> QED BY <1>6, <2>1 DEF PaidInv
<1>7. ASSUME NEW w \in Works, TakeUp(w) PROVE PaidInv'
  BY <1>1, <1>7 DEF TakeUp
<1>8. CASE Assess \/ Research \/ Result \/ Ends \/ Publish \/ Crash \/ ReserveSlot
  BY <1>1, <1>2, <1>3, <1>8
     DEF Assess, Research, Reserve, Result, Ends, Publish, Close, Crash, ReserveSlot
<1>9. CASE UNCHANGED vars \/ (\E w \in Works : Dropped(w)) \/ (\E w \in Works, day \in Days : Confirmed(w, day))
  BY <1>6, <1>9 DEF vars, Dropped, Confirmed
<1> QED BY <1>4, <1>5, <1>7, <1>8, <1>9 DEF Next

\* The step that closes a work for want of budget is never that of a job with a slot.
LEMMA HalfPaidStep ==
  ASSUME Base, PaidInv, NoHalfPaidJob, [Next]_vars
  PROVE  NoHalfPaidJob'
<1> SUFFICES ASSUME NEW s \in slots' PROVE status'[s.work] # "budget_limited"
  BY DEF NoHalfPaidJob
<1>0. \A t \in slots : t.work \in External /\ t.work \in Works
  BY BudgetAssumption DEF Base, TypeOK
<1>1. CASE s \notin slots
  <2>1. ReserveSlot /\ s.work = work /\ UNCHANGED status
    BY <1>1 DEF Next, vars, rows, TakeUp, ReserveSlot, ReserveExternalJob, Close, Assess, Research,
                Result, Ends, Publish, Confirmed, Dropped, Midnight, OwnerChange, Crash
  <2>2. at = "created"
    BY <2>1 DEF ReserveSlot
  <2> QED BY <2>1, <2>2, WorkNow
<1>2. CASE s \in slots
  <2>1. CASE ReserveSlot
    <3>1. at = "created" /\ s.work # work
      BY <1>2, <2>1 DEF ReserveSlot, Base, SlotsInv
    <3>2. status'[s.work] = status[s.work]
      BY <1>0, <1>2, <2>1, <3>1 DEF ReserveSlot, Close, Base, TypeOK
    <3> QED BY <1>2, <3>2 DEF NoHalfPaidJob
  <2>2. CASE Assess \/ Research
    <3>1. at \in {"slot", "assess"} /\ (at = "assess" => ~stale)
      BY <2>2 DEF Assess, Research
    <3>2. CASE s.work = work
      <4>0. Spent \in Nat /\ Cap \in Nat
        BY <3>1, SpentType
      <4>1. Spent < Cap
        BY <1>0, <1>2, <3>1, <3>2, <4>0 DEF PaidInv
      <4>2. CallsOn(AgentOf[work], today) = Spent /\ limit[AgentOf[work]] = Cap
        BY DEF Spent, Cap
      <4>3. PICK t \in {"assessing", "working"} : status' = [status EXCEPT ![work] = t]
        BY <2>2, <4>0, <4>1, <4>2 DEF Assess, Research, Reserve
      <4> QED BY <1>0, <1>2, <3>2, <4>3 DEF Base, TypeOK
    <3>3. CASE s.work # work
      <4>1. status'[s.work] = status[s.work]
        BY <1>0, <1>2, <2>2, <3>3 DEF Assess, Research, Reserve, Close, Base, TypeOK
      <4> QED BY <1>2, <4>1 DEF NoHalfPaidJob
    <3> QED BY <3>2, <3>3
  <2>3. CASE UNCHANGED status
    BY <1>2, <2>3 DEF NoHalfPaidJob
  <2>4. ASSUME NEW w \in Works,
               NEW t \in {"received", "paused", "failed", "skipped", "pending", "submitted",
                          "rejected", "delivery_unconfirmed"},
               status' = [status EXCEPT ![w] = t]
        PROVE  status'[s.work] # "budget_limited"
    BY <1>0, <1>2, <2>4 DEF NoHalfPaidJob, Base, TypeOK
  <2>5. CASE Crash
    BY <1>0, <1>2, <2>5 DEF Crash, NoHalfPaidJob
  <2>6. CASE Result \/ Ends \/ Publish
    <3>1. at # "idle"
      BY <2>6 DEF Result, Ends, Publish
    <3>2. CASE UNCHANGED status
      BY <2>3, <3>2
    <3>3. CASE \E t \in {"paused", "failed", "skipped", "pending"} : Close(t)
      BY <2>4, <3>1, <3>3, WorkNow DEF Close
    <3> QED BY <2>6, <3>2, <3>3 DEF Result, Ends, Publish
  <2> QED
    BY <2>1, <2>2, <2>3, <2>4, <2>5, <2>6
    DEF Next, vars, rows, TakeUp, Confirmed, Dropped, Midnight, OwnerChange
<1> QED BY <1>1, <1>2

-----------------------------------------------------------------------------
\* The days an external job has claimed.

LEMMA DaysAre ==
  /\ \A v, d : d \in ExternalDays(v) <=>
       \/ \E s \in slots : s.work = v /\ s.day = d
       \/ v \in report /\ d \in {finished[v], receipt[v]} \ {0}
  /\ \A v, d : d \in ExternalDays(v)' <=>
       \/ \E s \in slots' : s.work = v /\ s.day = d
       \/ v \in report' /\ d \in {finished'[v], receipt'[v]} \ {0}
  BY DEF ExternalDays

LEMMA DaysType ==
  ASSUME Base, NEW v \in External, NEW e \in ExternalDays(v)
  PROVE  e \in Nat /\ e <= today
<1>1. v \in Works
  BY BudgetAssumption
<1>2. CASE \E s \in slots : s.work = v /\ s.day = e
  BY <1>2, BudgetAssumption DEF Base, TypeOK, SlotsInv, Days
<1>3. CASE e \in {finished[v], receipt[v]}
  BY <1>1, <1>3, BudgetAssumption DEF Base, TypeOK, ReportInv, Days
<1> QED BY <1>2, <1>3, DaysAre

\* A pending report has its day of finishing.
LEMMA PendingReport ==
  ASSUME Base, NEW w \in External, status[w] = "pending"
  PROVE  w \in report /\ finished[w] \in Nat /\ finished[w] \in ExternalDays(w)
<1>1. w \in Works
  BY BudgetAssumption
<1>2. w \in report /\ finished[w] # 0
  BY <1>1 DEF Base, ReportInv, Reported
<1> QED BY <1>1, <1>2, DaysAre, BudgetAssumption DEF Base, TypeOK, Days

\* A step that gives no work a day and makes no report pending.
LEMMA DaysSame ==
  ASSUME Base, DaysInv, UNCHANGED <<slots, report, receipt>>,
         \A v \in report : finished'[v] = finished[v],
         \A v \in External : status'[v] = "pending" => status[v] = "pending",
         \/ at' \in {"idle", "created"} \/ work' \notin External
         \/ /\ work' = work /\ at \in UnderWay \ {"created"}
            /\ at' = "publish" => finished'[work] = today \/ (at = "publish" /\ finished' = finished)
  PROVE  DaysInv'
<1>1. \A v : ExternalDays(v)' = ExternalDays(v)
  BY DaysAre DEF ExternalDays
<1>2. \A w, d : Clear(w, d) => \A v \in Others(w) : status'[v] # "pending" /\ \A e \in ExternalDays(v)' : e < d
  BY <1>1 DEF Clear, Others
<1>3. OneExternalADay'
  BY <1>1 DEF DaysInv, OneExternalADay
<1>4. PendingClear'
  <2> SUFFICES ASSUME NEW w \in External, status'[w] = "pending"
               PROVE  \A v \in Others(w) : status'[v] # "pending"
                                           /\ \A e \in ExternalDays(v)' : e < finished'[w]
    BY DEF PendingClear, Clear
  <2>1. status[w] = "pending"
    OBVIOUS
  <2>2. finished'[w] = finished[w]
    BY <2>1, PendingReport
  <2> QED BY <1>2, <2>1, <2>2 DEF DaysInv, PendingClear
<1>5. SlotClear'
  <2> SUFFICES ASSUME at' \in UnderWay \ {"created"}, work' \in External
               PROVE  \E s \in slots' :
                        /\ s.work = work'
                        /\ \A v \in Others(work') : status'[v] # "pending"
                                                   /\ \A e \in ExternalDays(v)' : e < s.day
                        /\ at' = "publish" => s.day <= finished'[work']
    BY DEF SlotClear, Clear
  <2>1. /\ work' = work /\ at \in UnderWay \ {"created"}
        /\ at' = "publish" => finished'[work] = today \/ (at = "publish" /\ finished' = finished)
    BY DEF UnderWay
  <2>2. PICK s \in slots : /\ s.work = work /\ Clear(work, s.day)
                           /\ at = "publish" => s.day <= finished[work]
    BY <2>1 DEF DaysInv, SlotClear
  <2>3. s.day <= today
    BY DEF Base, SlotsInv
  <2> QED BY <1>2, <2>1, <2>2, <2>3
<1> QED BY <1>3, <1>4, <1>5 DEF DaysInv

\* A step that gives days to the job x alone, while its agent's other jobs neither
\* wait for a confirmation nor have those days.
LEMMA DaysDisjoint ==
  ASSUME OneExternalADay, NEW x \in External,
         \A v : v # x => ExternalDays(v)' = ExternalDays(v),
         \A v \in Others(x) : ExternalDays(v) \cap ExternalDays(x)' = {}
  PROVE  OneExternalADay'
<1> SUFFICES ASSUME NEW v \in External, NEW w \in External, v # w, AgentOf[v] = AgentOf[w]
             PROVE  ExternalDays(v)' \cap ExternalDays(w)' = {}
  BY DEF OneExternalADay
<1>1. CASE v # x /\ w # x
  <2>1. ExternalDays(v)' = ExternalDays(v) /\ ExternalDays(w)' = ExternalDays(w)
    BY <1>1
  <2> QED BY <2>1 DEF OneExternalADay
<1>2. CASE v = x
  <2>1. w \in Others(x) /\ ExternalDays(w)' = ExternalDays(w)
    BY <1>2 DEF Others
  <2> QED BY <1>2, <2>1
<1>3. CASE w = x
  <2>1. v \in Others(x) /\ ExternalDays(v)' = ExternalDays(v)
    BY <1>3 DEF Others
  <2> QED BY <1>3, <2>1
<1> QED BY <1>1, <1>2, <1>3

LEMMA PendingOthers ==
  ASSUME PendingClear, NEW x \in External, UNCHANGED finished,
         \A v : v # x => ExternalDays(v)' = ExternalDays(v),
         \A v \in External : v # x => status'[v] = status[v],
         \A v \in Others(x) : status[v] # "pending"
  PROVE  \A w \in External : w # x /\ status'[w] = "pending" => Clear(w, finished[w])'
<1> SUFFICES ASSUME NEW w \in External, w # x, status'[w] = "pending", NEW v \in Others(w)
             PROVE  status'[v] # "pending" /\ \A e \in ExternalDays(v)' : e < finished'[w]
  BY DEF Clear
<1>1. status[w] = "pending" /\ w \notin Others(x)
  OBVIOUS
<1>2. v # x /\ v \in External
  BY <1>1 DEF Others
<1>3. status'[v] = status[v] /\ ExternalDays(v)' = ExternalDays(v)
  BY <1>2
<1> QED BY <1>1, <1>3 DEF PendingClear, Clear

\* The job that takes the slot of the day finds all other jobs of its agent done.
LEMMA DaysReserveSlot ==
  ASSUME Base, DaysInv, ReserveSlot
  PROVE  DaysInv'
<1>1. CASE UNCHANGED slots
  <2>1. at' = "idle" /\ UNCHANGED <<report, receipt, finished>>
        /\ (status' = [status EXCEPT ![work] = "budget_limited"]
            \/ status' = [status EXCEPT ![work] = "skipped"])
    <3>1. ~(ReserveExternalJob(AgentOf[work]) /\ UNCHANGED slots)
      <4>1. [agent |-> AgentOf[work], day |-> today, work |-> work] \notin slots \/ at # "created"
        BY DEF Base, SlotsInv
      <4> QED BY <4>1 DEF ReserveSlot, ReserveExternalJob
    <3> QED BY <1>1, <3>1 DEF ReserveSlot, Close
  <2>2. \A v \in External : status'[v] = "pending" => status[v] = "pending"
    BY <2>1, BudgetAssumption DEF Base, TypeOK
  <2> QED BY <1>1, <2>1, <2>2, DaysSame
<1>2. CASE ReserveExternalJob(AgentOf[work]) /\ at' = "slot" /\ UNCHANGED <<status, work>>
  <2> DEFINE n == [agent |-> AgentOf[work], day |-> today, work |-> work]
  <2>1. /\ at = "created" /\ slots' = slots \cup {n} /\ ~ExternalUsed(AgentOf[work], today)
        /\ UNCHANGED <<today, finished, receipt, report, status, work>>
    BY <1>2 DEF ReserveSlot, ReserveExternalJob
  <2>2. work \in External /\ work \in Works /\ work \notin report /\ status[work] # "pending"
    BY <2>1, WorkNow DEF Base, WorkInv
  <2>x. PICK x \in External : x = work
    BY <2>2
  <2>3. \A v : v # x => ExternalDays(v)' = ExternalDays(v)
    BY <2>x, <2>1, DaysAre DEF ExternalDays
  <2>4. \A e \in ExternalDays(x)' : e = today
    BY <2>x, <2>1, <2>2, DaysAre DEF Base, SlotsInv
  <2>5. \A v \in Others(x) : status[v] # "pending" /\ \A e \in ExternalDays(v) : e < today
    <3> SUFFICES ASSUME NEW v \in Others(x)
                 PROVE  status[v] # "pending" /\ \A e \in ExternalDays(v) : e < today
      OBVIOUS
    <3>1. v \in External /\ v \in Works /\ AgentOf[v] = AgentOf[x]
      BY BudgetAssumption DEF Others
    <3>2. status[v] # "pending"
      BY <2>x, <2>1, <3>1, PendingReport DEF ExternalUsed
    <3>3. today \notin ExternalDays(v)
      BY <2>x, <2>1, <3>1, DaysAre DEF ExternalUsed, Base, SlotsInv
    <3>4. \A e \in ExternalDays(v) : e \in Nat /\ e <= today
      BY <3>1, DaysType
    <3> QED BY <3>2, <3>3, <3>4, Today DEF Base
  <2>6. SlotClear'
    <3>1. n \in slots' /\ n.work = work /\ n.day = today
      BY <2>1
    <3>2. \A v \in Others(x) : v # x
      BY DEF Others
    <3> HIDE DEF n
    <3> QED BY <1>2, <2>x, <2>1, <2>3, <2>5, <3>1, <3>2 DEF SlotClear, Clear
  <2>7. PendingClear'
    <3>1. \A w \in External : w # x /\ status'[w] = "pending" => Clear(w, finished[w])'
      BY <2>1, <2>2, <2>3, <2>5, PendingOthers DEF DaysInv
    <3> QED BY <2>x, <2>1, <2>2, <3>1 DEF PendingClear, Clear
  <2>8. OneExternalADay'
    <3>1. \A v \in Others(x) : ExternalDays(v) \cap ExternalDays(x)' = {}
      <4>1. today \in Nat
        BY Today DEF Base
      <4> QED BY <2>4, <2>5, <4>1
    <3> QED BY <2>3, <3>1, DaysDisjoint DEF DaysInv
  <2> QED BY <2>6, <2>7, <2>8 DEF DaysInv
<1>3. CASE Close("budget_limited") /\ UNCHANGED slots
  BY <1>1, <1>3
<1> QED BY <1>1, <1>2 DEF ReserveSlot

LEMMA DaysPublish ==
  ASSUME Base, DaysInv, Publish
  PROVE  DaysInv'
<1>1. /\ at = "publish" /\ report' = report \cup {work} /\ status' = [status EXCEPT ![work] = "pending"]
      /\ at' = "idle" /\ UNCHANGED <<finished, receipt, slots>>
  BY DEF Publish, Close
<1>2. /\ work \in Works /\ work \notin report /\ finished[work] # 0 /\ finished[work] \in Nat
      /\ receipt[work] = 0
  BY <1>1, WorkNow, BudgetAssumption DEF Base, TypeOK, ReportInv, Days
<1>3. \A v : v # work => ExternalDays(v)' = ExternalDays(v)
  BY <1>1 DEF ExternalDays
<1>4. \A v \in Works : v # work => status'[v] = status[v]
  BY <1>1, <1>2 DEF Base, TypeOK
<1>5. SlotClear'
  BY <1>1 DEF SlotClear, UnderWay
<1>6. CASE work \in External
  <2>x. PICK x \in External : x = work
    BY <1>6
  <2>1. PICK s \in slots : s.work = x /\ Clear(x, s.day) /\ s.day <= finished[x]
    BY <2>x, <1>1, <1>6 DEF DaysInv, SlotClear, UnderWay
  <2>2. \A v \in Others(x) : v \in External /\ v # x
    BY DEF Others
  <2>3. s.day \in Nat
    BY BudgetAssumption DEF Base, TypeOK, Days
  <2>4. \A v \in Others(x) : \A e \in ExternalDays(v) : e \in Nat /\ e < s.day
    BY <2>1, <2>2, DaysType DEF Clear
  <2>5. \A v \in Others(x) : status[v] # "pending" /\ \A e \in ExternalDays(v) : e < finished[x]
    <3>1. \A d \in Nat : d < s.day => d < finished[x]
      BY <2>x, <1>2, <2>1, <2>3
    <3> QED BY <2>1, <2>4, <3>1 DEF Clear
  <2>6. \A e \in ExternalDays(x)' : e \in ExternalDays(x) \cup {finished[x]}
    BY <2>x, <1>1, <1>2, DaysAre
  <2>7. OneExternalADay'
    <3>1. ASSUME NEW v \in Others(x) PROVE ExternalDays(v) \cap ExternalDays(x)' = {}
      <4>1. finished[x] \notin ExternalDays(v)
        BY <2>x, <1>2, <2>5
      <4>2. ExternalDays(v) \cap ExternalDays(x) = {}
        BY <2>x, <1>6 DEF Others, DaysInv, OneExternalADay
      <4> QED BY <2>6, <4>1, <4>2
    <3> QED BY <2>x, <1>3, <1>6, <3>1, DaysDisjoint DEF DaysInv
  <2>8. PendingClear'
    <3>1. \A v \in External : v # x => status'[v] = status[v]
      BY <2>x, <1>4, BudgetAssumption
    <3>2. \A w \in External : w # x /\ status'[w] = "pending" => Clear(w, finished[w])'
      BY <2>x, <1>1, <1>3, <1>6, <2>5, <3>1, PendingOthers DEF DaysInv
    <3>3. \A v \in Others(x) : status'[v] # "pending" /\ \A e \in ExternalDays(v)' : e < finished'[x]
      BY <2>x, <1>1, <1>3, <2>2, <2>5, <3>1
    <3> QED BY <3>2, <3>3 DEF PendingClear, Clear
  <2> QED BY <2>x, <1>5, <2>7, <2>8 DEF DaysInv
<1>7. CASE work \notin External
  <2>1. \A v \in External : v # work /\ v \in Works
    BY <1>7, BudgetAssumption
  <2>2. \A v \in External : status'[v] = status[v] /\ ExternalDays(v)' = ExternalDays(v)
    BY <1>3, <1>4, <2>1
  <2>3. OneExternalADay'
    BY <2>2 DEF DaysInv, OneExternalADay
  <2>4. PendingClear'
    BY <1>1, <2>2 DEF DaysInv, PendingClear, Clear, Others
  <2> QED BY <1>5, <2>3, <2>4 DEF DaysInv
<1> QED BY <1>6, <1>7

\* A late confirmation gives a job a day past its own, and meets no other job.
LEMMA DaysConfirmed ==
  ASSUME Base, DaysInv, NEW w \in Works, NEW day \in Days, Confirmed(w, day)
  PROVE  DaysInv'
<1>1. /\ at = "idle" /\ status[w] = "pending" /\ day \in finished[w] .. today
      /\ receipt' = [receipt EXCEPT ![w] = day] /\ status' = [status EXCEPT ![w] = "submitted"]
      /\ UNCHANGED <<finished, report, slots, at>>
  BY DEF Confirmed
<1>2. \A v : v # w => ExternalDays(v)' = ExternalDays(v)
  <2>1. \A v \in report : v # w => receipt'[v] = receipt[v]
    BY <1>1 DEF Base, TypeOK
  <2> QED BY <1>1, <2>1 DEF ExternalDays
<1>3. \A v \in Works : status'[v] = IF v = w THEN "submitted" ELSE status[v]
  BY <1>1 DEF Base, TypeOK
<1>4. SlotClear'
  BY <1>1 DEF SlotClear, UnderWay
<1>5. CASE w \in External
  <2>1. Clear(w, finished[w])
    BY <1>1, <1>5 DEF DaysInv, PendingClear
  <2>2. \A v \in Others(w) : v \in External /\ v # w
    BY DEF Others
  <2>3. \A e \in ExternalDays(w)' : e \in ExternalDays(w) \cup {day}
    <3>1. receipt'[w] = day
      BY <1>1 DEF Base, TypeOK
    <3> QED BY <1>1, <3>1, DaysAre
  <2>4. OneExternalADay'
    <3>1. ASSUME NEW v \in Others(w) PROVE ExternalDays(v) \cap ExternalDays(w)' = {}
      <4>1. day \notin ExternalDays(v)
        <5>1. \A e \in ExternalDays(v) : e \in Nat /\ e < finished[w]
          BY <2>1, <2>2, DaysType DEF Clear
        <5>2. day \in Nat /\ finished[w] \in Nat /\ finished[w] <= day
          BY <1>1, BudgetAssumption DEF Days, Base, TypeOK
        <5> QED BY <5>1, <5>2
      <4>2. ExternalDays(v) \cap ExternalDays(w) = {}
        BY <1>5 DEF Others, DaysInv, OneExternalADay
      <4> QED BY <2>3, <4>1, <4>2
    <3> QED BY <1>2, <1>5, <3>1, DaysDisjoint DEF DaysInv
  <2>5. PendingClear'
    <3>1. \A v \in External : v # w => status'[v] = status[v]
      BY <1>3, BudgetAssumption
    <3>2. \A v \in External : v # w /\ status'[v] = "pending" => Clear(v, finished[v])'
      BY <1>1, <1>2, <1>5, <2>1, <3>1, PendingOthers DEF DaysInv, Clear
    <3>3. status'[w] # "pending"
      BY <1>3
    <3> QED BY <3>2, <3>3 DEF PendingClear, Clear
  <2> QED BY <1>4, <2>4, <2>5 DEF DaysInv
<1>6. CASE w \notin External
  <2>1. \A v \in External : v # w /\ v \in Works
    BY <1>6, BudgetAssumption
  <2>2. \A v \in External : status'[v] = status[v] /\ ExternalDays(v)' = ExternalDays(v)
    BY <1>2, <1>3, <2>1
  <2>3. OneExternalADay'
    BY <2>2 DEF DaysInv, OneExternalADay
  <2>4. PendingClear'
    BY <1>1, <2>2 DEF DaysInv, PendingClear, Clear, Others
  <2> QED BY <1>4, <2>3, <2>4 DEF DaysInv
<1> QED BY <1>5, <1>6

LEMMA DaysStep ==
  ASSUME Base, DaysInv, [Next]_vars
  PROVE  DaysInv'
<1>0. \A v \in External : v \in Works
  BY BudgetAssumption
<1>1. ASSUME NEW w \in Works, TakeUp(w) PROVE DaysInv'
  <2>1. /\ UNCHANGED <<slots, report, receipt, finished>> /\ status' = [status EXCEPT ![w] = "received"]
        /\ work' = w /\ at' = IF w \in External THEN "created" ELSE "slot"
    BY <1>1 DEF TakeUp
  <2>2. \A v \in External : status'[v] = "pending" => status[v] = "pending"
    BY <1>0, <2>1 DEF Base, TypeOK
  <2> QED BY <2>1, <2>2, DaysSame
<1>2. CASE Assess \/ Research
  <2>1. /\ at \in {"slot", "assess"} /\ UNCHANGED <<slots, report, receipt, finished>>
        /\ at' = "idle" \/ (work' = work /\ at' \in {"assess", "research"})
    BY <1>2 DEF Assess, Research, Reserve, Close
  <2>2. PICK t \in {"assessing", "working", "budget_limited"} : status' = [status EXCEPT ![work] = t]
    BY <1>2 DEF Assess, Research, Reserve, Close
  <2>3. \A v \in External : status'[v] = "pending" => status[v] = "pending"
    BY <1>0, <2>2 DEF Base, TypeOK
  <2> QED BY <2>1, <2>3, DaysSame DEF UnderWay
<1>3. CASE Result
  <2>1. /\ at \in {"assess", "research"} /\ UNCHANGED <<slots, report, receipt>>
        /\ finished' = [finished EXCEPT ![work] = today]
        /\ \/ at' = "idle" /\ status' = [status EXCEPT ![work] = "paused"]
           \/ at' = "publish" /\ UNCHANGED <<status, work>>
    BY <1>3 DEF Result, Close
  <2>2. work \in Works /\ work \notin report
    BY <2>1, WorkNow
  <2>3. finished'[work] = today /\ \A v \in report : finished'[v] = finished[v]
    BY <2>1, <2>2 DEF Base, TypeOK
  <2>4. \A v \in External : status'[v] = "pending" => status[v] = "pending"
    BY <1>0, <2>1 DEF Base, TypeOK
  <2> QED BY <2>1, <2>3, <2>4, DaysSame DEF UnderWay
<1>4. CASE Ends
  <2>1. UNCHANGED <<slots, report, receipt, finished>> /\ at' = "idle"
    BY <1>4 DEF Ends, Close
  <2>2. PICK t \in {"failed", "skipped", "paused"} : status' = [status EXCEPT ![work] = t]
    BY <1>4 DEF Ends, Close
  <2>3. \A v \in External : status'[v] = "pending" => status[v] = "pending"
    BY <1>0, <2>2 DEF Base, TypeOK
  <2> QED BY <2>1, <2>3, DaysSame
<1>5. ASSUME NEW w \in Works, Dropped(w) PROVE DaysInv'
  <2>1. UNCHANGED <<slots, report, receipt, finished, at>> /\ at = "idle"
    BY <1>5 DEF Dropped
  <2>2. PICK t \in {"rejected", "delivery_unconfirmed"} : status' = [status EXCEPT ![w] = t]
    BY <1>5 DEF Dropped
  <2>3. \A v \in External : status'[v] = "pending" => status[v] = "pending"
    BY <1>0, <2>2 DEF Base, TypeOK
  <2> QED BY <2>1, <2>3, DaysSame
<1>6. CASE Crash
  <2>1. UNCHANGED <<slots, report, receipt, finished>> /\ at' = "idle"
    BY <1>6 DEF Crash
  <2>2. \A v \in External : status'[v] = "pending" => status[v] = "pending"
    BY <1>0, <1>6 DEF Crash
  <2> QED BY <2>1, <2>2, DaysSame
<1>7. CASE UNCHANGED <<rows, slots, at, work>>
  BY <1>7 DEF DaysInv, SlotClear, PendingClear, Clear, OneExternalADay, ExternalDays, rows
<1>8. CASE Midnight \/ (\E a \in Agents, n \in Limits : OwnerChange(a, n)) \/ UNCHANGED vars
  BY <1>7, <1>8 DEF Midnight, OwnerChange, vars
<1> QED
  BY <1>1, <1>2, <1>3, <1>4, <1>5, <1>6, <1>8, DaysReserveSlot, DaysPublish, DaysConfirmed DEF Next

-----------------------------------------------------------------------------
\* The invariant and the theorems.

LEMMA IInvInit ==
  ASSUME Init
  PROVE  IInv
<1>1. TypeOK
  <2>1. today \in 1 .. MaxDay /\ 0 \in Days /\ changes \in 0 .. MaxChanges /\ crashes \in 0 .. MaxCrashes
    BY BudgetAssumption DEF Init, Days
  <2>2. status \in [Works -> Statuses]
    BY DEF Init, Statuses
  <2>3. created \in [Works -> Days] /\ finished \in [Works -> Days] /\ receipt \in [Works -> Days]
    BY <2>1 DEF Init
  <2> QED BY <2>1, <2>2, <2>3 DEF Init, TypeOK
<1>2. WorkInv /\ CallsInv
  BY FS_EmptySet DEF Init, WorkInv, CallsInv
<1>3. SlotsInv /\ ReportInv /\ NoHalfPaidJob
  BY BudgetAssumption DEF Init, SlotsInv, ReportInv, Reported, NoHalfPaidJob
<1>4. PaidInv
  BY DEF Init, PaidInv
<1>5. DaysInv
  BY BudgetAssumption DEF Init, DaysInv, SlotClear, PendingClear, OneExternalADay, ExternalDays, UnderWay
<1> QED BY <1>1, <1>2, <1>3, <1>4, <1>5 DEF IInv

LEMMA IInvStep ==
  ASSUME IInv, [Next]_vars
  PROVE  IInv'
<1>1. Base /\ PaidInv /\ DaysInv /\ NoHalfPaidJob
  BY DEF IInv, Base
<1>2. Base' /\ PaidInv' /\ DaysInv' /\ NoHalfPaidJob'
  BY <1>1, BaseStep, PaidStep, DaysStep, HalfPaidStep
<1> QED BY <1>2 DEF IInv, Base

\* A call is added where the limit was not yet reached, and the limit is not changed
\* by that step; a day that begins has no calls.
LEMMA CallsStep ==
  ASSUME IInv, [Next]_vars, NEW c \in calls', c \notin calls
  PROVE  Cardinality({ d \in calls' : AgentOf[d.work] = AgentOf[c.work] /\ d.day = c.day })
           <= limit[AgentOf[c.work]]
<1>1. PICK phase \in {"assess", "research"} :
        /\ at # "idle" /\ CallsOn(AgentOf[work], today) < limit[AgentOf[work]]
        /\ calls' = calls \cup {[work |-> work, phase |-> phase, day |-> today]}
  BY DEF Next, vars, TakeUp, ReserveSlot, Assess, Research, Reserve, Result, Ends, Publish,
         Confirmed, Dropped, Midnight, OwnerChange, Crash
<1>2. Base /\ IsFiniteSet(calls)
  BY DEF IInv, Base, CallsInv
<1>3. c.work = work /\ c.day = today /\ calls' = calls \cup {c}
  BY <1>1
<1> DEFINE a == AgentOf[work]
<1>4. limit[a] \in Nat /\ Cardinality(Of(calls, a, today)) \in Nat
  BY <1>1, <1>2, WorkNow, Counted
<1>5. Cardinality(Of(calls, a, today)) < limit[a]
  BY <1>1 DEF CallsOn, Of
<1>6. /\ Cardinality(Of(calls', a, today)) <= Cardinality(Of(calls, a, today)) + 1
      /\ Cardinality(Of(calls', a, today)) \in Nat
  <2>1. /\ IsFiniteSet(calls \cup {c})
        /\ Cardinality(Of(calls \cup {c}, a, today)) <= Cardinality(Of(calls, a, today)) + 1
    BY <1>2, CountedMore
  <2> QED BY <1>3, <2>1, Counted
<1>7. Cardinality(Of(calls', a, today)) <= limit[a]
  <2>1. \A i, j, k \in Nat : i < k /\ j <= i + 1 => j <= k
    OBVIOUS
  <2> QED BY <1>4, <1>5, <1>6, <2>1
<1> QED BY <1>3, <1>7 DEF Of

\* The strengthening of all of them, which every step preserves.
THEOREM Inductive == Spec => []IInv
<1>1. Init => IInv
  BY IInvInit
<1>2. IInv /\ [Next]_vars => IInv'
  BY IInvStep
<1> QED BY <1>1, <1>2, PTL DEF Spec

\* Every variable keeps its type, and a phase of a work is called once, whatever the
\* policies, pauses and crashes.
THEOREM TypeCorrect == Spec => []TypeOK
<1>1. IInv => TypeOK
  BY DEF IInv
<1> QED BY <1>1, Inductive, PTL

\* A work's external days are its own: one external job of an agent a day, however long
\* a job runs and however late its report is confirmed.
THEOREM OneExternal == Spec => []OneExternalADay
<1>1. IInv => OneExternalADay
  BY DEF IInv, DaysInv
<1> QED BY <1>1, Inductive, PTL

\* The model calls an external job needs stay free from its slot to its second call, so
\* that no job is closed for want of budget once it has its slot.
THEOREM NothingHalfPaid == Spec => []NoHalfPaidJob
<1>1. IInv => NoHalfPaidJob
  BY DEF IInv
<1> QED BY <1>1, Inductive, PTL

\* A call is reserved within the limit in force, for any sequence of policies.
THEOREM LimitHolds == Spec => CallsWithinLimit
<1>1. IInv /\ [Next]_vars =>
        [\A c \in calls' \ calls :
           Cardinality({ d \in calls' : AgentOf[d.work] = AgentOf[c.work] /\ d.day = c.day })
             <= limit[AgentOf[c.work]]]_vars
  BY CallsStep
<1> QED BY <1>1, Inductive, PTL DEF Spec, CallsWithinLimit
=============================================================================
