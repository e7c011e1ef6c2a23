------------------------ MODULE NetworkDeliveryProofs ------------------------
(***************************************************************************)
(* Theorems of NetworkDelivery: the worker keeps the promise of            *)
(* Publication, its journal tells the truth about the rooms and every POST *)
(* is authorised, for any number of agents, requests, policy changes and   *)
(* crashes.                                                                *)
(***************************************************************************)
EXTENDS NetworkDelivery, TLAPS

-----------------------------------------------------------------------------
\* The inductive invariant.

\* A row of the journal stands for a request that was taken up.
OrderInv == \A i \in 1 .. Len(order) : status[order[i]] # "new"

\* The copy of the profile a scan works from is at most as new as the row, and
\* what it says of homeRoomOnly holds as long as the revision is the same.
ScanInv ==
  at \notin {"idle", "off"} =>
    /\ scan \in [agent : Agents, revision : 0 .. MaxChanges, home : BOOLEAN]
    /\ scan.revision <= revision[scan.agent]
    /\ scan.revision = revision[scan.agent] => (scan.home <=> scan.agent \in homeOnly)

\* An outside reply, which a home-room-only policy forbids.
Forbidden(w) == scan.home /\ Origin[w] = "away" /\ Column(w) = "reply"

\* What the worker's place says of the row it is at.
WorkInv ==
  /\ at \notin {"idle", "off", "scan"} => work \in Works /\ AgentOf[work] = scan.agent
  /\ at \in {"work", "saved"} => status[work] = "working"
  /\ at = "work" => \A c \in Columns : env[work][c] = "none"
  /\ at = "saved" =>
       \A c \in Columns : env[work][c] = IF c = FirstColumn(work) THEN "saved" ELSE "none"
  /\ at \in {"pending", "send", "post", "read", "receipt"} => status[work] \in Pendings
  /\ at \in {"send", "post"} => env[work][Column(work)] = "attempted"
  /\ at = "send" => Active /\ ~ Forbidden(work) /\ posts[<<work, Column(work)>>] = 0
  /\ at = "receipt" => env[work][Column(work)] = "confirmed"
  /\ at \in {"mirror", "mirrored"} => status[work] = "reply_confirmed"
  /\ at = "mirror" => env[work]["mirror"] = "none"
  /\ at = "mirrored" => env[work]["mirror"] = "saved"

\* What a row's status says of its two columns.
Row(w) ==
  LET reply == env[w]["reply"]
      mirror == env[w]["mirror"]
  IN /\ status[w] = "new" => reply = "none" /\ mirror = "none"
     /\ status[w] = "reply_pending" => reply # "none" /\ mirror = "none"
     /\ status[w] = "mirror_pending" => mirror # "none"
     /\ status[w] = "reply_confirmed" => reply = "confirmed" /\ mirror \in {"none", "saved"}
     /\ status[w] = "reply_rejected" => mirror = "none"
     /\ status[w] \in {"mirror_pending", "mirror_rejected"} => reply \in {"none", "confirmed"}
     /\ status[w] = "submitted" =>
          /\ reply \in {"none", "confirmed"} /\ mirror \in {"none", "confirmed"}
          /\ reply # "none" \/ mirror # "none"

RowInv == \A w \in Works : Row(w)

\* A rejected message is not in its room and not on its way.
TurnedDown(w) ==
  status[w] \in {"reply_rejected", "mirror_rejected"} =>
    \A c \in Columns : env[w][c] = "attempted" => <<w, c>> \notin room \cup flight

RejectedInv == \A w \in Works : TurnedDown(w)

\* What a column says of its message: no POST before the attempted mark, no
\* message without a POST, and what is called confirmed is in the room.
MessageInv ==
  /\ \A w \in Works, c \in Columns :
       /\ env[w][c] \in {"none", "saved"} => posts[<<w, c>>] = 0
       /\ posts[<<w, c>>] = 0 => <<w, c>> \notin flight \cup room
       /\ env[w][c] = "confirmed" => <<w, c>> \in room
  /\ flight \cap room = {}

IInv == TypeOK /\ OrderInv /\ ScanInv /\ WorkInv /\ RowInv /\ RejectedInv /\ MessageInv

-----------------------------------------------------------------------------
\* The first state, and what the writes to a row do.

Marks == {"none", "saved", "attempted", "confirmed"}

LEMMA InitIInv == Init => IInv
<1> SUFFICES ASSUME Init PROVE IInv
  OBVIOUS
<1> USE DeliveryAssumption DEF Init
<1>1. TypeOK
  BY DEF TypeOK, Statuses, Pendings, Columns, Messages, Awaits, Runs
<1>2. OrderInv /\ ScanInv /\ WorkInv
  BY DEF OrderInv, ScanInv, WorkInv
<1>3. RowInv /\ RejectedInv
  BY DEF RowInv, Row, RejectedInv, TurnedDown, Columns
<1>4. MessageInv
  BY DEF MessageInv, Columns, Messages
<1> QED
  BY <1>1, <1>2, <1>3, <1>4 DEF IInv

\* step() changes one row's status.
LEMMA StepRow ==
  ASSUME TypeOK, NEW w \in Works, NEW s \in Statuses, Step(w, s)
  PROVE  /\ status' \in [Works -> Statuses]
         /\ status'[w] = s
         /\ \A v \in Works : v # w => status'[v] = status[v]
  BY DEF TypeOK, Step

\* A write to a column changes that column of that row.
LEMMA ColumnRow ==
  ASSUME TypeOK, NEW w \in Works, NEW c \in Columns, NEW x \in Marks,
         env' = [env EXCEPT ![w][c] = x]
  PROVE  /\ env' \in [Works -> [Columns -> Marks]]
         /\ \A v \in Works, d \in Columns :
              env'[v][d] = IF v = w /\ d = c THEN x ELSE env[v][d]
  BY DEF TypeOK, Marks

\* deliver() is about a pending row of the scanned agent.
LEMMA DeliveringRow ==
  ASSUME IInv, NEW w \in Works, Delivering(w)
  PROVE  /\ at \in {"scan", "pending"} /\ Active
         /\ AgentOf[w] = scan.agent
         /\ status[w] \in Pendings
<1> USE DEF IInv
<1>1. CASE at = "scan" /\ w \in Window /\ AgentOf[w] = scan.agent
  BY <1>1 DEF Delivering, Window
<1>2. CASE at = "pending" /\ w = work
  BY <1>2 DEF Delivering, WorkInv
<1> QED
  BY <1>1, <1>2 DEF Delivering

\* The column of a pending row holds an envelope.
LEMMA PendingColumn ==
  ASSUME IInv, NEW w \in Works, status[w] \in Pendings
  PROVE  /\ Column(w) \in Columns
         /\ env[w][Column(w)] \in Marks \ {"none"}
  BY DEF IInv, TypeOK, RowInv, Row, Column, Columns, Pendings, Marks

-----------------------------------------------------------------------------
\* Type correctness.

LEMMA TypeStep ==
  ASSUME IInv, [Next]_vars
  PROVE  TypeOK'
<1> USE DEF IInv
<1>w. at \notin {"idle", "off", "scan"} => work \in Works
  BY DEF WorkInv
<1>t. {"working", "failed", "paused", "interrupted", "reply_confirmed", "reply_rejected",
       "mirror_rejected", "delivery_unconfirmed", "submitted", "reply_pending",
       "mirror_pending"} \subseteq Statuses
  BY DEF Statuses, Pendings
<1>a. {"scan", "work", "post", "read", "idle", "off", "saved", "pending", "send", "receipt",
       "mirror", "mirrored"} \subseteq Awaits \cup Runs
  BY DEF Awaits, Runs
<1>1. ASSUME NEW a \in Agents, BeginScan(a) PROVE TypeOK'
  <2>1. Profile(a) \in [agent : Agents, revision : 0 .. MaxChanges, home : BOOLEAN]
    BY DEF Profile, TypeOK
  <2> QED
    BY <1>1, <1>a, <2>1 DEF TypeOK, BeginScan, Back, journal, profiles, venue
<1>2. CASE EndScan \/ Answered \/ NotFound
  BY <1>2, <1>a DEF TypeOK, EndScan, Answered, NotFound, Back, journal, profiles, venue
<1>3. ASSUME NEW w \in Works, TakeUp(w) PROVE TypeOK'
  <2>1. status' \in [Works -> Statuses]
    BY <1>3, <1>t, StepRow DEF TakeUp, Create
  <2>2. order' \in Seq(Works) /\ \A i, j \in 1 .. Len(order') : order'[i] = order'[j] => i = j
    <3>1. \A i \in 1 .. Len(order) : order[i] \in Works /\ order[i] # w
      BY <1>3 DEF TakeUp, Create, OrderInv, TypeOK
    <3>2. order' = Append(order, w) /\ order \in Seq(Works)
      BY <1>3 DEF TakeUp, Create, TypeOK
    <3>3. \A i \in 1 .. Len(order') : order'[i] = IF i = Len(order) + 1 THEN w ELSE order[i]
      BY <3>2
    <3> QED
      BY <3>1, <3>2, <3>3 DEF TypeOK
  <2> QED
    BY <1>3, <1>a, <2>1, <2>2 DEF TypeOK, TakeUp, profiles, venue
<1>4. ASSUME NEW w \in Works, NEW s \in Statuses, Step(w, s),
             at' \in Awaits \cup Runs, work' \in Works \cup {None},
             UNCHANGED <<env, order, profiles, running, scan, crashes, old, venue>>
      PROVE  TypeOK'
  BY <1>4, StepRow DEF TypeOK, profiles, venue
<1>5. ASSUME NEW w \in Works, NEW c \in Columns, NEW x \in Marks,
             env' = [env EXCEPT ![w][c] = x],
             at' \in Awaits \cup Runs, work' \in Works \cup {None},
             UNCHANGED <<status, order, profiles, running, scan, crashes, old, venue>>
      PROVE  TypeOK'
  BY <1>5, ColumnRow DEF TypeOK, profiles, venue, Marks
<1>6. CASE WorkFails \/ WorkPaused \/ EnvelopePending \/ MirrorTooLong \/ MirrorPending
  BY <1>6, <1>4, <1>w, <1>t, <1>a
     DEF WorkFails, WorkPaused, EnvelopePending, MirrorTooLong, MirrorPending, Back, TypeOK
<1>7. CASE WorkDone \/ MirrorSaved
  BY <1>7, <1>5, <1>w, <1>a
     DEF WorkDone, MirrorSaved, Sealed, FirstColumn, Columns, Marks, TypeOK
<1>8. ASSUME NEW w \in Works, Cancel(w) \/ GiveUp(w) PROVE TypeOK'
  BY <1>8, <1>4, <1>t, <1>a DEF Cancel, GiveUp, Back
<1>9. ASSUME NEW w \in Works, MarkAttempted(w) PROVE TypeOK'
  <2>1. Column(w) \in Columns
    BY DEF Column, Columns
  <2> QED
    BY <1>9, <1>5, <1>a, <2>1 DEF MarkAttempted, Marks
<1>10. ASSUME NEW w \in Works, Reconcile(w) PROVE TypeOK'
  BY <1>10, <1>a DEF TypeOK, Reconcile, journal, profiles, venue
<1>11. CASE Send
  <2>1. <<work, Column(work)>> \in Messages
    <3>1. work \in Works /\ Column(work) \in Columns
      BY <1>11, <1>w DEF Send, Column, Columns
    <3> QED
      BY <3>1 DEF Messages
  <2>2. flight' \subseteq Messages
    BY <1>11, <2>1 DEF TypeOK, Send
  <2>3. posts' \in [Messages -> Nat]
    BY <1>11, <2>1 DEF TypeOK, Send
  <2>4. at' = "post" /\ UNCHANGED <<journal, profiles, running, work, scan, crashes, old, room>>
    BY <1>11 DEF Send
  <2> QED
    BY <1>a, <2>2, <2>3, <2>4 DEF TypeOK, journal, profiles
<1>12. CASE Rejected
  <2>1. status' \in [Works -> Statuses]
    BY <1>12, <1>w, <1>t, StepRow DEF Rejected
  <2> QED
    BY <1>12, <1>a, <2>1 DEF TypeOK, Rejected, Back, profiles
<1>13. CASE Found
  <2>1. Column(work) \in Columns
    BY DEF Column, Columns
  <2> QED
    BY <1>13, <1>5, <1>a, <1>w, <2>1 DEF Found, Marks, TypeOK
<1>14. CASE Settle
  <2>1. CASE ~ Active /\ Back /\ UNCHANGED status
    BY <1>14, <1>a, <2>1 DEF TypeOK, Settle, Back, profiles, venue
  <2>2. CASE Step(work, "submitted") /\ Back
    BY <1>14, <1>4, <1>a, <1>w, <1>t, <2>2 DEF Settle, Back
  <2>3. CASE Step(work, "reply_confirmed") /\ at' = "mirror" /\ UNCHANGED work
    BY <1>14, <1>4, <1>a, <1>w, <1>t, <2>3 DEF Settle, TypeOK
  <2> QED
    BY <1>14, <2>1, <2>2, <2>3 DEF Settle
<1>15. CASE Stop \/ Crash
  BY <1>15, <1>a, DeliveryAssumption DEF TypeOK, Stop, Crash, journal, profiles, venue
<1>16. CASE Restart
  <2>1. status' \in [Works -> Statuses]
    BY <1>16, <1>t DEF Restart, TypeOK
  <2> QED
    BY <1>16, <1>a, <2>1 DEF TypeOK, Restart, profiles, venue
<1>17. ASSUME NEW a \in Agents, NEW on \in BOOLEAN, NEW home \in HomeChoices,
              OwnerChange(a, on, home)
       PROVE  TypeOK'
  <2>1. revision' \in [Agents -> 0 .. MaxChanges]
    BY <1>17, DeliveryAssumption DEF OwnerChange, SaveProfile, TypeOK
  <2>2. enabled' \subseteq Agents /\ homeOnly' \subseteq Agents
    BY <1>17 DEF OwnerChange, SaveProfile, TypeOK
  <2> QED
    BY <1>17, <2>1, <2>2 DEF TypeOK, OwnerChange, journal, process, venue
<1>18. ASSUME NEW w \in Works, DayPasses(w) PROVE TypeOK'
  BY <1>18 DEF TypeOK, DayPasses, journal, profiles, process, venue
<1>19. ASSUME NEW m \in Messages, Arrive(m) \/ Lose(m) PROVE TypeOK'
  BY <1>19 DEF TypeOK, Arrive, Lose, journal, profiles, process
<1>20. CASE UNCHANGED vars
  BY <1>20 DEF TypeOK, vars, journal, profiles, process, venue
<1> QED
  BY <1>1, <1>2, <1>3, <1>6, <1>7, <1>8, <1>9, <1>10, <1>11, <1>12, <1>13, <1>14, <1>15,
     <1>16, <1>17, <1>18, <1>19, <1>20 DEF Next, Proceed, Deliver


-----------------------------------------------------------------------------
\* What a step leaves alone.

\* A scan goes on with the profile it began with.
LEMMA ScanKept ==
  ASSUME ScanInv, UNCHANGED <<scan, profiles>>,
         at \notin {"idle", "off"} \/ at' \in {"idle", "off"}
  PROVE  ScanInv'
  BY DEF ScanInv, profiles

\* Steps that write neither the journal nor the rooms.
LEMMA RecordsKept ==
  ASSUME OrderInv, RowInv, RejectedInv, MessageInv, UNCHANGED <<journal, flight, room, posts>>
  PROVE  OrderInv' /\ RowInv' /\ RejectedInv' /\ MessageInv'
<1> USE DEF journal
<1>1. OrderInv'
  BY DEF OrderInv
<1>2. RowInv' /\ RejectedInv'
  BY DEF RowInv, Row, RejectedInv, TurnedDown
<1>3. MessageInv'
  BY DEF MessageInv
<1> QED
  BY <1>1, <1>2, <1>3

\* Steps that change one row's status need a look at that row only.
LEMMA StatusMoved ==
  ASSUME IInv, NEW w \in Works, NEW s \in Statuses \ {"new"}, Step(w, s),
         UNCHANGED <<env, order, flight, room, posts>>,
         Row(w)', TurnedDown(w)'
  PROVE  OrderInv' /\ RowInv' /\ RejectedInv' /\ MessageInv'
<1> USE DEF IInv
<1>1. /\ status'[w] = s
      /\ \A v \in Works : v # w => status'[v] = status[v]
  BY StepRow
<1>2. OrderInv'
  BY <1>1 DEF OrderInv, TypeOK
<1>3. RowInv'
  BY <1>1 DEF RowInv, Row
<1>4. RejectedInv'
  BY <1>1 DEF RejectedInv, TurnedDown
<1>5. MessageInv'
  BY DEF MessageInv
<1> QED
  BY <1>2, <1>3, <1>4, <1>5

Write(w, c, x) == env' = [env EXCEPT ![w][c] = x]

\* Steps that write one column of a row.
LEMMA ColumnWritten ==
  ASSUME IInv, NEW w \in Works, NEW c \in Columns, NEW x \in Marks \ {"none"},
         Write(w, c, x),
         UNCHANGED <<status, order, flight, room, posts>>,
         Row(w)', status[w] \notin {"reply_rejected", "mirror_rejected"},
         x = "saved" => posts[<<w, c>>] = 0,
         x = "confirmed" => <<w, c>> \in room
  PROVE  OrderInv' /\ RowInv' /\ RejectedInv' /\ MessageInv'
<1> USE DEF IInv
<1>1. \A v \in Works, d \in Columns :
        env'[v][d] = IF v = w /\ d = c THEN x ELSE env[v][d]
  BY ColumnRow DEF Write
<1>2. OrderInv'
  BY DEF OrderInv
<1>3. RowInv'
  BY <1>1 DEF RowInv, Row, Columns
<1>4. RejectedInv'
  BY <1>1 DEF RejectedInv, TurnedDown
<1>5. MessageInv'
  BY <1>1 DEF MessageInv
<1> QED
  BY <1>2, <1>3, <1>4, <1>5


\* With the worker between two works there is nothing to say of its place.
LEMMA AtEase ==
  ASSUME at' \in {"idle", "off", "scan"}
  PROVE  WorkInv'
  BY DEF WorkInv

Rest == OrderInv /\ ScanInv /\ WorkInv /\ RowInv /\ RejectedInv /\ MessageInv

-----------------------------------------------------------------------------
\* The worker's steps.

LEMMA ScanStep ==
  ASSUME IInv,
         (\E a \in Agents : BeginScan(a)) \/ EndScan \/ Answered \/ NotFound
  PROVE  Rest'
<1> USE DEF IInv
<1>1. OrderInv' /\ RowInv' /\ RejectedInv' /\ MessageInv'
  BY RecordsKept DEF BeginScan, EndScan, Answered, NotFound, venue
<1>2. WorkInv'
  BY AtEase DEF BeginScan, EndScan, Answered, NotFound, Back
<1>3. ScanInv'
  <2>1. ASSUME NEW a \in Agents, BeginScan(a) PROVE ScanInv'
    <3>1. /\ scan' = [agent |-> a, revision |-> revision[a], home |-> a \in homeOnly]
          /\ UNCHANGED <<revision, homeOnly>>
      BY <2>1 DEF BeginScan, Profile, profiles
    <3>2. revision[a] \in 0 .. MaxChanges /\ revision[a] <= revision[a]
      BY DeliveryAssumption DEF TypeOK
    <3>3. scan' \in [agent : Agents, revision : 0 .. MaxChanges, home : BOOLEAN]
      BY <3>1, <3>2
    <3>4. scan'.agent = a /\ scan'.revision = revision[a] /\ (scan'.home <=> a \in homeOnly)
      BY <3>1
    <3> QED
      BY <3>1, <3>2, <3>3, <3>4 DEF ScanInv
  <2>2. CASE EndScan \/ Answered \/ NotFound
    BY <2>2, ScanKept DEF EndScan, Answered, NotFound, Back, ScanInv
  <2> QED
    BY <2>1, <2>2
<1> QED
  BY <1>1, <1>2, <1>3 DEF Rest

LEMMA TakeUpStep ==
  ASSUME IInv, NEW w \in Works, TakeUp(w)
  PROVE  Rest'
<1> USE DEF IInv
<1>1. status'[w] = "working" /\ \A v \in Works : v # w => status'[v] = status[v]
  BY StepRow DEF TakeUp, Create, Statuses
<1>2. order' = Append(order, w) /\ UNCHANGED <<env, profiles, scan, flight, room, posts>>
  BY DEF TakeUp, Create, venue
<1>3. OrderInv'
  <2>1. order \in Seq(Works)
    BY DEF TypeOK
  <2>2. \A i \in 1 .. Len(order') : order'[i] = IF i = Len(order) + 1 THEN w ELSE order[i]
    BY <1>2, <2>1
  <2>3. \A i \in 1 .. Len(order) : order[i] \in Works /\ status'[order[i]] # "new"
    BY <1>1, <2>1 DEF OrderInv
  <2>4. Len(order') = Len(order) + 1
    BY <1>2, <2>1
  <2> QED
    BY <1>1, <2>1, <2>2, <2>3, <2>4 DEF OrderInv
<1>4. RowInv'
  BY <1>1, <1>2 DEF RowInv, Row
<1>5. RejectedInv'
  BY <1>1, <1>2 DEF RejectedInv, TurnedDown
<1>6. MessageInv'
  BY <1>2 DEF MessageInv
<1>7. ScanInv'
  BY <1>2, ScanKept DEF TakeUp
<1>8. WorkInv'
  <2>1. at' = "work" /\ work' = w /\ AgentOf[w] = scan.agent /\ status[w] = "new"
    BY DEF TakeUp, Create
  <2>2. \A c \in Columns : env'[w][c] = "none"
    BY <1>2, <2>1 DEF RowInv, Row, Columns
  <2> QED
    BY <1>1, <1>2, <2>1, <2>2 DEF WorkInv
<1> QED
  BY <1>3, <1>4, <1>5, <1>6, <1>7, <1>8 DEF Rest

\* A row that leaves the worker for good, or for a later deliver().
LEMMA LeaveStep ==
  ASSUME IInv, NEW w \in Works, NEW s \in Statuses \ {"new"}, Step(w, s), Back,
         at \notin {"idle", "off"},
         UNCHANGED <<env, order, profiles, scan, flight, room, posts>>,
         Row(w)', TurnedDown(w)'
  PROVE  Rest'
<1>1. OrderInv' /\ RowInv' /\ RejectedInv' /\ MessageInv'
  BY StatusMoved
<1>2. ScanInv' /\ WorkInv'
  BY ScanKept, AtEase DEF Back, IInv
<1> QED
  BY <1>1, <1>2 DEF Rest

\* A status that says nothing of the columns.
Silent == {"working", "failed", "paused", "interrupted", "delivery_unconfirmed"}

LEMMA SilentStep ==
  ASSUME IInv,
         WorkFails \/ WorkPaused \/ \E w \in Works : Cancel(w) \/ GiveUp(w)
  PROVE  Rest'
<1>1. ASSUME NEW w \in Works, NEW s \in Silent, Step(w, s), Back, at \notin {"idle", "off"},
             UNCHANGED <<env, order, profiles, running, scan, crashes, old, venue>>
      PROVE  Rest'
  <2>1. s \in Statuses \ {"new"}
    BY DEF Silent, Statuses
  <2>2. status'[w] = s
    BY <1>1, <2>1, StepRow DEF IInv
  <2>3. Row(w)' /\ TurnedDown(w)'
    BY <2>2 DEF Row, TurnedDown, Silent
  <2> QED
    BY <1>1, <2>1, <2>3, LeaveStep DEF venue
<1>2. ASSUME NEW w \in Works, Cancel(w) \/ GiveUp(w) PROVE Rest'
  BY <1>1, <1>2, DeliveringRow DEF Cancel, GiveUp, Silent
<1>3. CASE WorkFails \/ WorkPaused
  <2>1. work \in Works
    BY <1>3 DEF WorkFails, WorkPaused, IInv, WorkInv
  <2> QED
    BY <1>1, <1>3, <2>1 DEF WorkFails, WorkPaused, Silent
<1> QED
  BY <1>2, <1>3


LEMMA WorkDoneStep ==
  ASSUME IInv, WorkDone
  PROVE  Rest'
<1> USE DEF IInv
<1> DEFINE c == FirstColumn(work)
<1>1. /\ work \in Works /\ AgentOf[work] = scan.agent /\ status[work] = "working"
      /\ \A d \in Columns : env[work][d] = "none"
  BY DEF WorkDone, WorkInv
<1>2. c \in Columns
  BY DEF FirstColumn, Columns
<1>3. env' = [env EXCEPT ![work][c] = "saved"] /\ at' = "saved"
  BY DEF WorkDone, Sealed
<1>4. UNCHANGED <<status, order, profiles, work, scan, flight, room, posts>>
  BY DEF WorkDone, venue
<1>5. OrderInv' /\ RowInv' /\ RejectedInv' /\ MessageInv'
  <2>1. Row(work)'
    BY <1>1, <1>4 DEF Row
  <2>2. posts[<<work, c>>] = 0
    BY <1>1, <1>2 DEF MessageInv
  <2> QED
    <3>1. Write(work, c, "saved")
      BY <1>3 DEF Write
    <3>2. status[work] \notin {"reply_rejected", "mirror_rejected"}
      BY <1>1
    <3> QED
      BY <1>1, <1>2, <1>4, <2>1, <2>2, <3>1, <3>2, ColumnWritten DEF Marks
<1>6. ScanInv'
  BY <1>4, ScanKept DEF WorkDone
<1>7. WorkInv'
  <2>1. \A d \in Columns : env'[work][d] = IF d = c THEN "saved" ELSE "none"
    BY <1>1, <1>2, <1>3, ColumnRow DEF Marks
  <2>2. FirstColumn(work)' = c
    BY <1>4 DEF FirstColumn
  <2> QED
    BY <1>1, <1>3, <1>4, <2>1, <2>2 DEF WorkInv
<1> QED
  BY <1>5, <1>6, <1>7 DEF Rest

LEMMA EnvelopePendingStep ==
  ASSUME IInv, EnvelopePending
  PROVE  Rest'
<1> USE DEF IInv
<1> DEFINE s == IF FirstColumn(work) = "reply" THEN "reply_pending" ELSE "mirror_pending"
<1>1. /\ work \in Works /\ AgentOf[work] = scan.agent
      /\ \A d \in Columns : env[work][d] = IF d = FirstColumn(work) THEN "saved" ELSE "none"
  BY DEF EnvelopePending, WorkInv
<1>2. s \in Statuses \ {"new"} /\ s \in Pendings
  BY DEF Statuses, Pendings
<1>3. UNCHANGED <<env, order, profiles, work, scan, flight, room, posts>> /\ at' = "pending"
  BY DEF EnvelopePending, venue
<1>4. Step(work, s) /\ status'[work] = s
  BY <1>1, <1>2, StepRow DEF EnvelopePending
<1>5. OrderInv' /\ RowInv' /\ RejectedInv' /\ MessageInv'
  <2>1. Row(work)' /\ TurnedDown(work)'
    BY <1>1, <1>3, <1>4 DEF Row, TurnedDown, FirstColumn, Columns
  <2> QED
    BY <1>1, <1>2, <1>3, <1>4, <2>1, StatusMoved
<1>6. ScanInv'
  BY <1>3, ScanKept DEF EnvelopePending
<1>7. WorkInv'
  BY <1>1, <1>2, <1>3, <1>4 DEF WorkInv
<1> QED
  BY <1>5, <1>6, <1>7 DEF Rest

LEMMA MarkAttemptedStep ==
  ASSUME IInv, NEW w \in Works, MarkAttempted(w)
  PROVE  Rest'
<1> USE DEF IInv
<1> DEFINE c == Column(w)
<1>1. /\ at \in {"scan", "pending"} /\ Active /\ AgentOf[w] = scan.agent
      /\ status[w] \in Pendings /\ c \in Columns
  BY DeliveringRow, PendingColumn DEF MarkAttempted
<1>2. /\ env[w][c] = "saved" /\ ~ Forbidden(w)
      /\ env' = [env EXCEPT ![w][c] = "attempted"]
      /\ at' = "send" /\ work' = w
  BY DEF MarkAttempted, Forbidden
<1>3. UNCHANGED <<status, order, profiles, running, scan, flight, room, posts>>
  BY DEF MarkAttempted, venue
<1>4. \A v \in Works, d \in Columns :
        env'[v][d] = IF v = w /\ d = c THEN "attempted" ELSE env[v][d]
  BY <1>1, <1>2, ColumnRow DEF Marks
<1>5. OrderInv' /\ RowInv' /\ RejectedInv' /\ MessageInv'
  <2>1. Row(w)'
    BY <1>1, <1>3, <1>4 DEF RowInv, Row, Column, Columns, Pendings
  <2> QED
    <3>1. Write(w, c, "attempted")
      BY <1>2 DEF Write
    <3>2. status[w] \notin {"reply_rejected", "mirror_rejected"}
      BY <1>1 DEF Pendings
    <3> QED
      BY <1>1, <1>3, <2>1, <3>1, <3>2, ColumnWritten DEF Marks
<1>6. ScanInv'
  BY <1>1, <1>3, ScanKept
<1>7. WorkInv'
  <2>1. Column(w)' = c /\ Forbidden(w)' = Forbidden(w) /\ Active'
    BY <1>1, <1>3 DEF Column, Forbidden, Active, profiles
  <2>2. posts[<<w, c>>] = 0
    BY <1>1, <1>2 DEF MessageInv
  <2> QED
    BY <1>1, <1>2, <1>3, <1>4, <2>1, <2>2 DEF WorkInv
<1> QED
  BY <1>5, <1>6, <1>7 DEF Rest

LEMMA ReconcileStep ==
  ASSUME IInv, NEW w \in Works, Reconcile(w)
  PROVE  Rest'
<1> USE DEF IInv
<1>1. at \in {"scan", "pending"} /\ AgentOf[w] = scan.agent /\ status[w] \in Pendings
  BY DeliveringRow DEF Reconcile
<1>2. OrderInv' /\ RowInv' /\ RejectedInv' /\ MessageInv'
  BY RecordsKept DEF Reconcile, venue
<1>3. ScanInv'
  BY <1>1, ScanKept DEF Reconcile
<1>4. WorkInv'
  BY <1>1 DEF WorkInv, Reconcile, journal
<1> QED
  BY <1>2, <1>3, <1>4 DEF Rest


LEMMA SendStep ==
  ASSUME IInv, Send
  PROVE  Rest'
<1> USE DEF IInv
<1> DEFINE c == Column(work)
           m == <<work, c>>
<1>1. /\ work \in Works /\ AgentOf[work] = scan.agent /\ status[work] \in Pendings
      /\ env[work][c] = "attempted" /\ posts[m] = 0
  BY DEF Send, WorkInv
<1>2. c \in Columns /\ m \in Messages
  BY <1>1, PendingColumn DEF Messages
<1>3. /\ flight' = flight \cup {m} /\ at' = "post"
      /\ UNCHANGED <<status, env, order, profiles, work, scan, room>>
  BY DEF Send, journal
<1>4. \A v \in Works, d \in Columns :
        posts'[<<v, d>>] = IF v = work /\ d = c THEN 1 ELSE posts[<<v, d>>]
  <2>1. \A n \in Messages : posts'[n] = IF n = m THEN 1 ELSE posts[n]
    BY <1>1, <1>2 DEF Send, TypeOK
  <2> QED
    BY <2>1 DEF Messages
<1>5. OrderInv' /\ RowInv'
  BY <1>3 DEF OrderInv, RowInv, Row
<1>6. RejectedInv'
  BY <1>1, <1>3 DEF RejectedInv, TurnedDown, Pendings
<1>7. MessageInv'
  <2>1. m \notin flight \cup room
    BY <1>1, <1>2 DEF MessageInv
  <2>2. flight' \cap room' = {}
    BY <1>3, <2>1 DEF MessageInv
  <2>3. ASSUME NEW v \in Works, NEW d \in Columns
        PROVE  /\ env'[v][d] \in {"none", "saved"} => posts'[<<v, d>>] = 0
               /\ posts'[<<v, d>>] = 0 => <<v, d>> \notin flight' \cup room'
               /\ env'[v][d] = "confirmed" => <<v, d>> \in room'
    BY <1>1, <1>3, <1>4 DEF MessageInv
  <2> QED
    BY <2>2, <2>3 DEF MessageInv
<1>8. ScanInv'
  BY <1>3, ScanKept DEF Send
<1>9. WorkInv'
  BY <1>1, <1>3 DEF WorkInv, Column
<1> QED
  BY <1>5, <1>6, <1>7, <1>8, <1>9 DEF Rest

LEMMA RejectedStep ==
  ASSUME IInv, Rejected
  PROVE  Rest'
<1> USE DEF IInv
<1>w. PICK w \in Works : w = work
  BY DEF Rejected, WorkInv
<1> DEFINE c == Column(w)
           m == <<w, c>>
           s == IF c = "reply" THEN "reply_rejected" ELSE "mirror_rejected"
<1>1. status[w] \in Pendings /\ env[w][c] = "attempted"
  BY <1>w DEF Rejected, WorkInv
<1>2. /\ m \in flight /\ flight' = flight \ {m} /\ at' = "scan"
      /\ Step(w, s)
      /\ UNCHANGED <<env, order, profiles, scan, room, posts>>
  BY <1>w DEF Rejected, Back
<1>3. status'[w] = s /\ \A v \in Works : v # w => status'[v] = status[v]
  <2>1. s \in Statuses
    BY DEF Statuses
  <2> QED
    BY <1>1, <1>2, <2>1, StepRow
<1>4. OrderInv'
  BY <1>1, <1>2, <1>3 DEF OrderInv, TypeOK
<1>5. RowInv'
  BY <1>1, <1>2, <1>3 DEF RowInv, Row, Column, Pendings
<1>6. MessageInv'
  BY <1>2 DEF MessageInv
<1>7. RejectedInv'
  <2>1. m \notin room \cup flight'
    BY <1>2 DEF MessageInv
  <2>2. \A d \in Columns : env[w][d] = "attempted" => d = c
    BY <1>1 DEF RowInv, Row, Column, Columns, Pendings
  <2>3. TurnedDown(w)'
    BY <1>2, <2>1, <2>2 DEF TurnedDown
  <2>4. \A v \in Works : v # w => TurnedDown(v)'
    BY <1>2, <1>3 DEF RejectedInv, TurnedDown
  <2> QED
    BY <2>3, <2>4 DEF RejectedInv
<1>8. ScanInv' /\ WorkInv'
  BY <1>2, ScanKept, AtEase DEF Rejected
<1> QED
  BY <1>4, <1>5, <1>6, <1>7, <1>8 DEF Rest

LEMMA FoundStep ==
  ASSUME IInv, Found
  PROVE  Rest'
<1> USE DEF IInv
<1> DEFINE c == Column(work)
<1>1. work \in Works /\ AgentOf[work] = scan.agent /\ status[work] \in Pendings
  BY DEF Found, WorkInv
<1>2. c \in Columns /\ env[work][c] # "none"
  BY <1>1, PendingColumn
<1>3. /\ <<work, c>> \in room /\ at' = "receipt"
      /\ env' = [env EXCEPT ![work][c] = "confirmed"]
      /\ UNCHANGED <<status, order, profiles, work, scan, flight, room, posts>>
  BY DEF Found, OnRecord, venue
<1>4. \A v \in Works, d \in Columns :
        env'[v][d] = IF v = work /\ d = c THEN "confirmed" ELSE env[v][d]
  BY <1>1, <1>2, <1>3, ColumnRow DEF Marks
<1>5. OrderInv' /\ RowInv' /\ RejectedInv' /\ MessageInv'
  <2>1. Row(work)'
    BY <1>1, <1>3, <1>4 DEF RowInv, Row, Column, Columns, Pendings
  <2>2. Write(work, c, "confirmed")
    BY <1>3 DEF Write
  <2>3. status[work] \notin {"reply_rejected", "mirror_rejected"}
    BY <1>1 DEF Pendings
  <2> QED
    BY <1>1, <1>2, <1>3, <2>1, <2>2, <2>3, ColumnWritten DEF Marks
<1>6. ScanInv'
  BY <1>3, ScanKept DEF Found
<1>7. WorkInv'
  BY <1>1, <1>2, <1>3, <1>4 DEF WorkInv, Column
<1> QED
  BY <1>5, <1>6, <1>7 DEF Rest

LEMMA SettleStep ==
  ASSUME IInv, Settle
  PROVE  Rest'
<1> USE DEF IInv
<1>w. PICK w \in Works : w = work
  BY DEF Settle, WorkInv
<1>1. /\ AgentOf[w] = scan.agent /\ at = "receipt"
      /\ status[w] \in Pendings /\ env[w][Column(w)] = "confirmed"
      /\ UNCHANGED <<env, order, profiles, scan, flight, room, posts>>
  BY <1>w DEF Settle, WorkInv, venue
<1>2. CASE ~ Active /\ Back /\ UNCHANGED status
  <2>1. OrderInv' /\ RowInv' /\ RejectedInv' /\ MessageInv'
    BY <1>1, <1>2, RecordsKept DEF journal
  <2>2. ScanInv' /\ WorkInv'
    BY <1>1, <1>2, ScanKept, AtEase DEF Back
  <2> QED
    BY <2>1, <2>2 DEF Rest
<1>3. CASE Step(w, "submitted") /\ Back
  <2>1. status'[w] = "submitted"
    BY <1>1, <1>3, StepRow DEF Statuses
  <2>2. Row(w)' /\ TurnedDown(w)'
    BY <1>1, <2>1 DEF RowInv, Row, TurnedDown, Column, Pendings
  <2> QED
    BY <1>1, <1>3, <2>2, LeaveStep DEF Statuses
<1>4. CASE Column(w) = "reply" /\ Step(w, "reply_confirmed") /\ at' = "mirror" /\ UNCHANGED work
  <2>1. status'[w] = "reply_confirmed"
    BY <1>1, <1>4, StepRow DEF Statuses
  <2>2. status[w] = "reply_pending"
    BY <1>1, <1>4 DEF Column, Pendings
  <2>3. env[w]["reply"] = "confirmed" /\ env[w]["mirror"] = "none"
    BY <1>1, <1>4, <2>2 DEF RowInv, Row
  <2>4. Row(w)' /\ TurnedDown(w)'
    BY <1>1, <2>1, <2>3 DEF Row, TurnedDown
  <2>5. OrderInv' /\ RowInv' /\ RejectedInv' /\ MessageInv'
    BY <1>1, <1>4, <2>4, StatusMoved DEF Statuses
  <2>6. ScanInv'
    BY <1>1, ScanKept
  <2>7. WorkInv'
    BY <1>w, <1>1, <1>4, <2>1, <2>3 DEF WorkInv
  <2> QED
    BY <2>5, <2>6, <2>7 DEF Rest
<1> QED
  BY <1>w, <1>2, <1>3, <1>4 DEF Settle

LEMMA MirrorStep ==
  ASSUME IInv, MirrorSaved \/ MirrorTooLong \/ MirrorPending
  PROVE  Rest'
<1> USE DEF IInv
<1>w. PICK w \in Works : w = work
  BY DEF MirrorSaved, MirrorTooLong, MirrorPending, WorkInv
<1>1. /\ AgentOf[w] = scan.agent /\ status[w] = "reply_confirmed"
      /\ at = "mirror" => env[w]["mirror"] = "none"
      /\ at = "mirrored" => env[w]["mirror"] = "saved"
      /\ at \in {"mirror", "mirrored"}
      /\ UNCHANGED <<order, profiles, scan, flight, room, posts>>
  BY <1>w DEF MirrorSaved, MirrorTooLong, MirrorPending, WorkInv, venue
<1>2. env[w]["reply"] = "confirmed"
  BY <1>1 DEF RowInv, Row
<1>3. CASE MirrorSaved
  <2>1. /\ Write(w, "mirror", "saved") /\ "mirror" \in Columns
        /\ at = "mirror" /\ at' = "mirrored" /\ UNCHANGED <<status, work>>
    BY <1>w, <1>3 DEF MirrorSaved, Sealed, Write, Columns
  <2>2. \A v \in Works, d \in Columns :
          env'[v][d] = IF v = w /\ d = "mirror" THEN "saved" ELSE env[v][d]
    BY <1>1, <2>1, ColumnRow DEF Write, Marks
  <2>3. Row(w)'
    BY <1>1, <1>2, <2>1, <2>2 DEF Row, Columns
  <2>4. posts[<<w, "mirror">>] = 0
    BY <1>1, <2>1 DEF MessageInv
  <2>5. status[w] \notin {"reply_rejected", "mirror_rejected"}
    BY <1>1
  <2>6. OrderInv' /\ RowInv' /\ RejectedInv' /\ MessageInv'
    BY <1>1, <2>1, <2>3, <2>4, <2>5, ColumnWritten DEF Marks
  <2>7. ScanInv'
    BY <1>1, ScanKept
  <2>8. WorkInv'
    BY <1>w, <1>1, <2>1, <2>2 DEF WorkInv
  <2> QED
    BY <2>6, <2>7, <2>8 DEF Rest
<1>4. CASE MirrorTooLong
  <2>1. status'[w] = "mirror_rejected" /\ UNCHANGED env
    BY <1>w, <1>1, <1>4, StepRow DEF MirrorTooLong, Statuses
  <2>2. Row(w)' /\ TurnedDown(w)'
    BY <1>1, <1>2, <1>4, <2>1 DEF Row, TurnedDown, Columns, MirrorTooLong
  <2> QED
    BY <1>w, <1>1, <1>4, <2>2, LeaveStep DEF MirrorTooLong, Statuses
<1>5. CASE MirrorPending
  <2>1. status'[w] = "mirror_pending" /\ UNCHANGED env
    BY <1>w, <1>1, <1>5, StepRow DEF MirrorPending, Statuses, Pendings
  <2>2. Row(w)' /\ TurnedDown(w)'
    BY <1>1, <1>2, <1>5, <2>1 DEF Row, TurnedDown, MirrorPending
  <2> QED
    BY <1>w, <1>1, <1>5, <2>2, LeaveStep DEF MirrorPending, Statuses, Pendings
<1> QED
  BY <1>3, <1>4, <1>5


-----------------------------------------------------------------------------
\* The steps of the process, the owner, time and the venue.

LEMMA ProcessStep ==
  ASSUME IInv, Stop \/ Crash \/ Restart
  PROVE  Rest'
<1> USE DEF IInv
<1>1. CASE Stop
  <2>1. at \in Awaits /\ UNCHANGED <<journal, profiles, at, work, scan, flight, room, posts>>
    BY <1>1 DEF Stop, venue
  <2>2. OrderInv' /\ RowInv' /\ RejectedInv' /\ MessageInv'
    BY <2>1, RecordsKept
  <2>3. ScanInv'
    BY <2>1 DEF ScanInv, profiles
  <2>4. WorkInv'
    BY <2>1 DEF WorkInv, Awaits, FirstColumn, Column, journal
  <2> QED
    BY <2>2, <2>3, <2>4 DEF Rest
<1>2. CASE Crash
  <2>1. at' = "off" /\ UNCHANGED <<journal, profiles, flight, room, posts>>
    BY <1>2 DEF Crash, venue
  <2> QED
    BY <2>1, RecordsKept, AtEase DEF Rest, ScanInv
<1>3. CASE Restart
  <2>1. at' = "idle" /\ UNCHANGED <<env, order, flight, room, posts>>
    BY <1>3 DEF Restart, venue
  <2>2. \A w \in Works :
          status'[w] = IF status[w] = "working" THEN "interrupted" ELSE status[w]
    BY <1>3 DEF Restart
  <2>3. OrderInv'
    BY <2>1, <2>2 DEF OrderInv, TypeOK
  <2>4. RowInv'
    BY <2>1, <2>2 DEF RowInv, Row
  <2>5. RejectedInv'
    BY <2>1, <2>2 DEF RejectedInv, TurnedDown
  <2>6. MessageInv'
    BY <2>1 DEF MessageInv
  <2> QED
    BY <2>1, <2>3, <2>4, <2>5, <2>6, AtEase DEF Rest, ScanInv
<1> QED
  BY <1>1, <1>2, <1>3

LEMMA OwnerStep ==
  ASSUME IInv, NEW a \in Agents, NEW on \in BOOLEAN, NEW home \in HomeChoices,
         OwnerChange(a, on, home)
  PROVE  Rest'
<1> USE DEF IInv
<1>1. /\ at \in Awaits /\ revision' = [revision EXCEPT ![a] = @ + 1]
      /\ homeOnly' = IF home THEN homeOnly \cup {a} ELSE homeOnly \ {a}
      /\ UNCHANGED <<journal, at, work, scan, flight, room, posts>>
  BY DEF OwnerChange, SaveProfile, process, venue
<1>2. OrderInv' /\ RowInv' /\ RejectedInv' /\ MessageInv'
  BY <1>1, RecordsKept
<1>3. WorkInv'
  BY <1>1 DEF WorkInv, Awaits, FirstColumn, Column, journal
<1>4. ScanInv'
  <2> SUFFICES ASSUME at \notin {"idle", "off"} PROVE ScanInv'
    BY <1>1 DEF ScanInv
  <2>1. /\ scan \in [agent : Agents, revision : 0 .. MaxChanges, home : BOOLEAN]
        /\ scan.revision <= revision[scan.agent]
        /\ scan.revision = revision[scan.agent] => (scan.home <=> scan.agent \in homeOnly)
    BY DEF ScanInv
  <2>2. /\ revision[scan.agent] \in Nat /\ scan.revision \in Nat
        /\ revision'[scan.agent] = IF scan.agent = a THEN revision[scan.agent] + 1
                                                     ELSE revision[scan.agent]
    BY <1>1, <2>1, DeliveryAssumption DEF TypeOK
  <2>3. scan.revision <= revision'[scan.agent]
    BY <2>1, <2>2
  <2>4. scan.revision = revision'[scan.agent] => scan.agent # a
    BY <2>1, <2>2
  <2>5. scan.agent # a => (scan.agent \in homeOnly' <=> scan.agent \in homeOnly)
    BY <1>1
  <2> QED
    BY <1>1, <2>1, <2>2, <2>3, <2>4, <2>5 DEF ScanInv
<1> QED
  BY <1>2, <1>3, <1>4 DEF Rest

LEMMA VenueStep ==
  ASSUME IInv,
         (\E w \in Works : DayPasses(w)) \/ \E m \in Messages : Arrive(m) \/ Lose(m)
  PROVE  Rest'
<1> USE DEF IInv
<1>1. UNCHANGED <<journal, profiles, process, posts>>
  BY DEF DayPasses, Arrive, Lose, venue
<1>2. OrderInv' /\ RowInv' /\ ScanInv' /\ WorkInv'
  BY <1>1 DEF OrderInv, RowInv, Row, ScanInv, WorkInv, Active, Forbidden, FirstColumn, Column,
     journal, profiles, process
<1>3. /\ flight' \subseteq flight
      /\ room \subseteq room' /\ room' \cup flight' \subseteq room \cup flight
      /\ flight' \cap room' = {}
  BY DEF DayPasses, Arrive, Lose, venue, MessageInv
<1>4. RejectedInv'
  BY <1>1, <1>3 DEF RejectedInv, TurnedDown, journal
<1>5. MessageInv'
  BY <1>1, <1>3 DEF MessageInv, journal
<1> QED
  BY <1>2, <1>4, <1>5 DEF Rest

LEMMA InvStep ==
  ASSUME IInv, [Next]_vars
  PROVE  IInv'
<1> SUFFICES Rest'
  BY TypeStep DEF IInv, Rest
<1>1. ASSUME NEW w \in Works, TakeUp(w) \/ Deliver(w) \/ DayPasses(w) PROVE Rest'
  BY <1>1, TakeUpStep, SilentStep, MarkAttemptedStep, ReconcileStep, VenueStep DEF Deliver
<1>2. CASE Proceed
  <2>1. CASE WorkFails \/ WorkPaused
    BY <2>1, SilentStep
  <2>2. CASE Answered \/ NotFound
    BY <2>2, ScanStep
  <2>3. CASE MirrorSaved \/ MirrorTooLong \/ MirrorPending
    BY <2>3, MirrorStep
  <2> QED
    BY <1>2, <2>1, <2>2, <2>3, WorkDoneStep, EnvelopePendingStep, SendStep, RejectedStep,
       FoundStep, SettleStep DEF Proceed
<1>3. ASSUME NEW m \in Messages, Arrive(m) \/ Lose(m) PROVE Rest'
  BY <1>3, VenueStep
<1>4. CASE UNCHANGED vars
  <2> USE <1>4 DEF IInv, vars, journal, profiles, process, venue
  <2>1. OrderInv' /\ RowInv' /\ RejectedInv' /\ MessageInv'
    BY RecordsKept
  <2>2. ScanInv'
    BY DEF ScanInv
  <2>3. WorkInv'
    BY DEF WorkInv, Active, Forbidden, FirstColumn, Column
  <2> QED
    BY <2>1, <2>2, <2>3 DEF Rest
<1>5. ASSUME NEW a \in Agents, BeginScan(a) PROVE Rest'
  BY <1>5, ScanStep
<1>6. CASE EndScan
  BY <1>6, ScanStep
<1>7. CASE Stop \/ Crash \/ Restart
  BY <1>7, ProcessStep
<1>8. ASSUME NEW a \in Agents, NEW on \in BOOLEAN, NEW home \in HomeChoices,
             OwnerChange(a, on, home)
      PROVE  Rest'
  BY <1>8, OwnerStep
<1> QED
  BY <1>1, <1>2, <1>3, <1>4, <1>5, <1>6, <1>7, <1>8 DEF Next

\* The inductive invariant holds always.
THEOREM Invariance == Spec => []IInv
<1>1. IInv /\ [Next]_vars => IInv'
  BY InvStep
<1> QED
  BY <1>1, InitIInv, PTL DEF Spec

\* Every variable keeps its type, and the journal has one row per work.
THEOREM TypeCorrect == Spec => []TypeOK
<1>1. IInv => TypeOK
  BY DEF IInv
<1> QED
  BY <1>1, Invariance, PTL

-----------------------------------------------------------------------------
\* What the journal says of a work is true of the rooms, whatever was timed out,
\* crashed or arrived late.
THEOREM JournalTrue == Spec => []JournalIsTrue
<1>1. IInv => JournalIsTrue
  <2> SUFFICES ASSUME IInv, NEW w \in Works
               PROVE  /\ status[w] = "submitted" =>
                           /\ env[w]["reply"] # "none" \/ env[w]["mirror"] # "none"
                           /\ \A c \in Columns : env[w][c] # "none" => <<w, c>> \in room
                      /\ status[w] \in {"reply_confirmed", "mirror_pending", "mirror_rejected"} =>
                           (env[w]["reply"] # "none" => <<w, "reply">> \in room)
                      /\ status[w] \in {"reply_rejected", "mirror_rejected"} =>
                           \A c \in Columns :
                             env[w][c] = "attempted" => <<w, c>> \notin room \cup flight
    BY DEF JournalIsTrue
  <2>1. Row(w) /\ TurnedDown(w)
    BY DEF IInv, RowInv, RejectedInv
  <2>2. \A c \in Columns : env[w][c] = "confirmed" => <<w, c>> \in room
    BY DEF IInv, MessageInv
  <2> QED
    BY <2>1, <2>2 DEF Row, TurnedDown, Columns
<1> QED
  BY <1>1, Invariance, PTL

\* Every POST leaves while its agent is enabled and the owner's current policy
\* allows it, although the worker goes by a copy of the policy.
THEOREM PostsAuthorised == Spec => PostsAreAuthorised
<1> DEFINE Authorised ==
      \A m \in Messages : posts'[m] # posts[m] =>
        /\ AgentOf[m[1]] \in enabled
        /\ Origin[m[1]] = "away" /\ m[2] = "reply" => AgentOf[m[1]] \notin homeOnly
<1>1. IInv /\ [Next]_vars => [Authorised]_vars
  <2> SUFFICES ASSUME IInv, Next, NEW m \in Messages, posts'[m] # posts[m]
               PROVE  /\ AgentOf[m[1]] \in enabled
                      /\ Origin[m[1]] = "away" /\ m[2] = "reply" => AgentOf[m[1]] \notin homeOnly
    OBVIOUS
  <2>1. Send
    BY DEF Next, Proceed, Deliver, BeginScan, EndScan, TakeUp, WorkFails, WorkPaused, WorkDone,
       EnvelopePending, Cancel, MarkAttempted, Answered, Rejected, GiveUp, Reconcile, NotFound,
       Found, Settle, MirrorSaved, MirrorTooLong, MirrorPending, Stop, Crash, Restart,
       OwnerChange, DayPasses, Arrive, Lose, venue
  <2>2. /\ Active /\ ~ Forbidden(work) /\ AgentOf[work] = scan.agent
        /\ scan.revision = revision[scan.agent] => (scan.home <=> scan.agent \in homeOnly)
    BY <2>1 DEF Send, IInv, WorkInv, ScanInv
  <2>3. m = <<work, Column(work)>>
    BY <2>1 DEF Send, IInv, TypeOK
  <2> QED
    BY <2>2, <2>3 DEF Active, Forbidden
<1>2. [][Authorised]_vars => PostsAreAuthorised
  BY DEF PostsAreAuthorised
<1> QED
  BY <1>1, <1>2, Invariance, PTL DEF Spec


-----------------------------------------------------------------------------
\* The worker implements Publication: what each of its steps is there.

Confirmed == { m \in Messages : env[m[1]][m[2]] = "confirmed" }

Stages == [m \in Messages |-> Stage(m)]

\* A message stays at its stage when its column, its POSTs and the rooms do.
LEMMA StageKept ==
  ASSUME NEW m \in Messages,
         m \in room' <=> m \in room, m \in flight' <=> m \in flight,
         posts'[m] = posts[m],
         (env'[m[1]][m[2]] = "none") <=> (env[m[1]][m[2]] = "none")
  PROVE  Stage(m)' = Stage(m)
  BY DEF Stage

LEMMA Stutter ==
  ASSUME UNCHANGED <<env, flight, room, posts>>
  PROVE  UNCHANGED <<Stages, Confirmed>>
  BY StageKept DEF Stages, Confirmed

\* One message moves to its next stage, and nothing is vouched for.
LEMMA Moved ==
  ASSUME NEW m \in Messages, NEW from, NEW to,
         Stage(m) = from, Stage(m)' = to,
         \A n \in Messages : n # m => Stage(n)' = Stage(n),
         Confirmed' = Confirmed
  PROVE  Promise!Move(m, from, to)
  BY DEF Promise!Move, Stages, Confirmed

\* An envelope written in an empty column: the message is sealed.
LEMMA SealImplements ==
  ASSUME IInv, NEW w \in Works, NEW c \in Columns,
         env[w][c] = "none", Write(w, c, "saved"),
         c = "reply" => env[w]["mirror"] = "none",
         c = "mirror" => env[w]["reply"] \in {"none", "confirmed"},
         UNCHANGED <<flight, room, posts>>
  PROVE  Promise!Next
<1> DEFINE m == <<w, c>>
<1>1. m \in Messages /\ m[1] = w /\ m[2] = c
  BY DEF Messages
<1>2. \A v \in Works, d \in Columns : env'[v][d] = IF v = w /\ d = c THEN "saved" ELSE env[v][d]
  BY ColumnRow DEF IInv, Write, Marks
<1>3. ASSUME NEW v \in Works, NEW d \in Columns, env[v][d] = "none"
      PROVE  Stage(<<v, d>>) = "none"
  BY <1>3 DEF IInv, MessageInv, Stage
<1>4. Stage(m)' = "sealed"
  BY <1>1, <1>2 DEF IInv, MessageInv, Stage
<1>5. \A n \in Messages : n # m => Stage(n)' = Stage(n)
  BY <1>1, <1>2, StageKept DEF Messages
<1>6. Confirmed' = Confirmed
  BY <1>1, <1>2 DEF Confirmed, Messages
<1>7. Promise!Move(m, "none", "sealed")
  BY <1>1, <1>3, <1>4, <1>5, <1>6, Moved
<1>8. Promise!Seal(m)
  BY <1>1, <1>3, <1>7 DEF Promise!Seal, Messages, Columns
<1> QED
  BY <1>1, <1>8 DEF Promise!Next

LEMMA SendImplements ==
  ASSUME IInv, Send
  PROVE  Promise!Next
<1>w. PICK w \in Works : w = work
  BY DEF Send, IInv, WorkInv
<1>c. PICK c \in Columns : c = Column(w)
  BY DEF Column, Columns
<1> DEFINE m == <<w, c>>
<1>1. env[w][c] = "attempted" /\ posts[m] = 0
  BY <1>w, <1>c DEF Send, IInv, WorkInv
<1>2. m \in Messages /\ m[1] = w /\ m[2] = c
  BY <1>1 DEF Messages
<1>3. flight' = flight \cup {m} /\ posts' = [posts EXCEPT ![m] = @ + 1] /\ UNCHANGED <<env, room>>
  BY <1>w, <1>c DEF Send, journal
<1>4. m \notin flight \cup room
  BY <1>1 DEF IInv, MessageInv
<1>5. Stage(m) = "sealed" /\ Stage(m)' = "sent"
  BY <1>1, <1>2, <1>3, <1>4 DEF Stage
<1>6. \A n \in Messages : n # m => Stage(n)' = Stage(n)
  BY <1>2, <1>3, StageKept DEF IInv, TypeOK
<1>7. Confirmed' = Confirmed
  BY <1>3 DEF Confirmed
<1> QED
  BY <1>2, <1>5, <1>6, <1>7, Moved DEF Promise!Next, Promise!Send

\* A message that leaves the flight has been POSTed and is not in the room yet.
LEMMA LandingImplements ==
  ASSUME IInv, NEW m \in Messages, m \in flight, flight' = flight \ {m},
         room' = room \/ room' = room \cup {m},
         UNCHANGED <<env, posts>>
  PROVE  Promise!Next
<1>1. m \notin room /\ posts[m] > 0
  BY DEF IInv, MessageInv, TypeOK, Messages
<1>2. Stage(m) = "sent" /\ Stage(m)' = IF m \in room' THEN "there" ELSE "gone"
  BY <1>1 DEF Stage
<1>3. \A n \in Messages : n # m => Stage(n)' = Stage(n)
  BY StageKept
<1>4. Confirmed' = Confirmed
  BY DEF Confirmed
<1> QED
  BY <1>2, <1>3, <1>4, Moved DEF Promise!Next, Promise!Arrive, Promise!Lose

LEMMA FoundImplements ==
  ASSUME IInv, Found
  PROVE  Promise!Next
<1>w. PICK w \in Works : w = work
  BY DEF Found, IInv, WorkInv
<1>c. PICK c \in Columns : c = Column(w)
  BY DEF Column, Columns
<1> DEFINE m == <<w, c>>
<1>1. env[w][c] # "none"
  BY <1>w, <1>c, PendingColumn DEF Found, IInv, WorkInv
<1>2. m \in Messages /\ m[1] = w /\ m[2] = c
  BY <1>1 DEF Messages
<1>3. /\ m \in room /\ env' = [env EXCEPT ![w][c] = "confirmed"]
      /\ UNCHANGED <<flight, room, posts>>
  BY <1>w, <1>c DEF Found, OnRecord, venue
<1>4. \A v \in Works, d \in Columns :
        env'[v][d] = IF v = w /\ d = c THEN "confirmed" ELSE env[v][d]
  <2>1. TypeOK /\ "confirmed" \in Marks
    BY DEF IInv, Marks
  <2> QED
    BY <1>3, <2>1, ColumnRow
<1>5. Stage(m) = "there"
  BY <1>3 DEF Stage
<1>6. \A n \in Messages : Stage(n)' = Stage(n)
  BY <1>1, <1>3, <1>4, StageKept DEF Messages
<1>7. Confirmed' = Confirmed \cup {m}
  BY <1>2, <1>4 DEF Confirmed, Messages
<1>8. Promise!Vouch(m)
  BY <1>2, <1>5, <1>6, <1>7 DEF Promise!Vouch, Confirmed
<1> QED
  BY <1>2, <1>8 DEF Promise!Next

LEMMA StepImplements ==
  ASSUME IInv, [Next]_vars
  PROVE  Promise!Next \/ UNCHANGED <<Stages, Confirmed>>
<1>1. CASE WorkDone
  <2>w. PICK w \in Works : w = work
    BY <1>1 DEF WorkDone, IInv, WorkInv
  <2>1. /\ FirstColumn(w) \in Columns /\ \A d \in Columns : env[w][d] = "none"
        /\ Write(w, FirstColumn(w), "saved") /\ UNCHANGED <<flight, room, posts>>
    BY <1>1, <2>w DEF WorkDone, IInv, WorkInv, Sealed, Write, FirstColumn, Columns, venue
  <2> QED
    BY <2>1, SealImplements DEF Columns
<1>2. CASE MirrorSaved
  <2>w. PICK w \in Works : w = work
    BY <1>2 DEF MirrorSaved, IInv, WorkInv
  <2>1. /\ env[w]["mirror"] = "none" /\ status[w] = "reply_confirmed"
        /\ Write(w, "mirror", "saved") /\ UNCHANGED <<flight, room, posts>>
    BY <1>2, <2>w DEF MirrorSaved, IInv, WorkInv, Sealed, Write, venue
  <2>2. env[w]["reply"] = "confirmed"
    BY <2>1 DEF IInv, RowInv, Row
  <2> QED
    BY <2>1, <2>2, SealImplements DEF Columns
<1>3. ASSUME NEW w \in Works, MarkAttempted(w) PROVE UNCHANGED <<Stages, Confirmed>>
  <2>c. PICK c \in Columns : c = Column(w)
    BY DEF Column, Columns
  <2>1. /\ env[w][c] = "saved" /\ env' = [env EXCEPT ![w][c] = "attempted"]
        /\ UNCHANGED <<flight, room, posts>>
    BY <1>3, <2>c DEF MarkAttempted, venue
  <2>2. \A v \in Works, d \in Columns :
          env'[v][d] = IF v = w /\ d = c THEN "attempted" ELSE env[v][d]
    <3>1. TypeOK /\ "attempted" \in Marks
      BY DEF IInv, Marks
    <3> QED
      BY <2>1, <3>1, ColumnRow
  <2>3. \A n \in Messages : Stage(n)' = Stage(n)
    BY <2>1, <2>2, StageKept DEF Messages
  <2>4. Confirmed' = Confirmed
    BY <2>1, <2>2 DEF Confirmed, Messages
  <2> QED
    BY <2>3, <2>4 DEF Stages
<1>4. CASE Rejected
  <2>1. PICK m \in Messages : m \in flight /\ flight' = flight \ {m}
    BY <1>4 DEF Rejected, IInv, TypeOK
  <2> QED
    BY <1>4, <2>1, LandingImplements DEF Rejected
<1>5. ASSUME NEW m \in Messages, Arrive(m) \/ Lose(m) PROVE Promise!Next
  BY <1>5, LandingImplements DEF Arrive, Lose, journal
<1>6. CASE UNCHANGED <<env, flight, room, posts>>
  BY <1>6, Stutter
<1>7. Next => \/ UNCHANGED <<env, flight, room, posts>>
              \/ WorkDone \/ MirrorSaved \/ Rejected \/ Send \/ Found
              \/ \E w \in Works : MarkAttempted(w)
              \/ \E m \in Messages : Arrive(m) \/ Lose(m)
  BY DEF Next, Proceed, Deliver, BeginScan, EndScan, TakeUp, Create, WorkFails, WorkPaused,
     EnvelopePending, Cancel, Answered, GiveUp, Reconcile, NotFound, Settle, MirrorTooLong,
     MirrorPending, Stop, Crash, Restart, OwnerChange, DayPasses, journal, venue
<1>8. UNCHANGED vars => UNCHANGED <<env, flight, room, posts>>
  BY DEF vars, journal, venue
<1> QED
  BY <1>1, <1>2, <1>3, <1>4, <1>5, <1>6, <1>7, <1>8, SendImplements, FoundImplements

\* The worker keeps the promise of Publication: every envelope is saved before its
\* POST, POSTed at most once and called confirmed only when it is in the room, and a
\* record of a reply is made only after the reply was confirmed.
THEOREM Implements == Spec => PublishesAsPromised
<1>1. Init => Promise!Init
  <2> SUFFICES ASSUME Init PROVE Promise!Init
    OBVIOUS
  <2>1. \A m \in Messages : Stage(m) = "none"
    BY DEF Init, Stage, Messages
  <2>2. Confirmed = {}
    BY DEF Init, Confirmed, Messages
  <2> QED
    BY <2>1, <2>2 DEF Promise!Init, Confirmed
<1>2. IInv /\ [Next]_vars => [Promise!Next]_<<Stages, Confirmed>>
  BY StepImplements
<1> QED
  BY <1>1, <1>2, Invariance, PTL
     DEF Spec, PublishesAsPromised, Promise!Spec, Stages, Confirmed
==============================================================================
