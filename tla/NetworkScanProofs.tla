-------------------------- MODULE NetworkScanProofs --------------------------
(***************************************************************************)
(* Theorems of NetworkScan: the two-minute, seven-day and 72-hour limits   *)
(* and the rule that old messages are not taken up, for any number of      *)
(* agents, messages, policy changes, crashes and settings of the clock.    *)
(***************************************************************************)
EXTENDS NetworkScan, SequenceTheorems, TLAPS

-----------------------------------------------------------------------------
\* The inductive invariant.

Work == <<cur.agent, cur.msg>>

\* The work the scan is at has been received and not ended.
UnderWay == at \in {"created", "execute"} => row[Work].status = "received"

\* Stamps were taken from rows that exist.
Stamps ==
  \A k \in Agents \X Msgs : row[k].status = "none" => row[k].created = 0 /\ row[k].invitation = 0

\* The cooldown remembers every work that lived to see it stamped; the one whose
\* stamp is still to come is already a cooldown later than the stamp it found.
Cooled ==
  /\ \A k \in Agents \X Msgs :
       row[k].created # 0 /\ row[k].status # "interrupted" /\ ~(at = "created" /\ k = Work)
         => row[k].created <= cooldown[<<k[1], row[k].key>>]
  /\ at = "created" =>
       LET stamp == cooldown[<<cur.agent, CooldownKey>>]
       IN /\ row[Work].key = CooldownKey /\ row[Work].created \in 1 .. clock
          /\ stamp = 0 \/ row[Work].created - stamp >= Cooldown

\* A recipient's stamp is that of the last invitation.
Reserved ==
  \A k \in Agents \X Msgs : row[k].invitation <= invited[Sender[k[2]]]

\* The maintenance stamp is that of the last check.
LastCheck ==
  \A i \in 1 .. Len(checks) : checks[i].created # 0 /\ checks[i].created <= checked

IInv ==
  /\ TypeOK /\ UnderWay /\ Stamps
  /\ Cooled /\ Spacing
  /\ Reserved /\ InvitationsApart
  /\ LastCheck /\ ChecksApart

-----------------------------------------------------------------------------
\* What steps do to the rows.

\* The steps that leave the works alone.
RowsRest ==
  \/ \E a \in Agents : BeginScan(a)
  \/ Checked \/ \E i \in 1 .. Len(checks) : CheckSettles(i)
  \/ \E r \in Rooms : ReadRoom(r)
  \/ \E m \in Msgs : Comes(m)
  \/ NoCandidate \/ EndScan
  \/ \E a \in Agents, run \in BOOLEAN, m \in Modes : OwnerChange(a, run, m)
  \/ Tick \/ SetBack
  \/ UNCHANGED vars

\* The three endings of a work.
Ending == Ends \/ Answer \/ AnswerInviting

LEMMA Kinds ==
  ASSUME [Next]_vars
  PROVE  RowsRest \/ (\E m \in Msgs : TakeUp(m)) \/ StartCooldown \/ Ending \/ Crash
  BY DEF Next, RowsRest, Ending

LEMMA Numbers ==
  /\ Cooldown \in Nat \ {0} /\ MaxAge \in Nat \ {0} /\ InviteGap \in Nat \ {0}
  /\ Silence \in Nat \ {0} /\ MaxTime \in Nat \ {0}
  /\ MaxChanges \in Nat /\ MaxCrashes \in Nat /\ MaxSetBacks \in Nat
  BY ScanAssumption

LEMMA Elements ==
  /\ "home" \in Rooms /\ "out" \in Rooms /\ "open" \in Modes /\ "home" \in Modes
  /\ {"all", "home", "external"} \subseteq Keys
  /\ NoOne \in Places /\ NoRow \in WorkRows
  BY DEF Rooms, Modes, Keys, NoOne, NoRow, Places, WorkRows

LEMMA PlaceMoved ==
  ASSUME NEW c \in Places
  PROVE  /\ \A r \in Rooms : [c EXCEPT !.room = r] \in Places
         /\ \A m \in Msgs \cup {None} : [c EXCEPT !.msg = m] \in Places
         /\ \A r \in Rooms, m \in Msgs \cup {None} : [c EXCEPT !.room = r, !.msg = m] \in Places
  BY DEF Places

LEMMA CheckTouched ==
  ASSUME NEW s \in Seq(CheckRows), NEW i, NEW v \in {"reading", "pending", "ended"}
  PROVE  /\ [s EXCEPT ![i].status = v] \in Seq(CheckRows)
         /\ Len([s EXCEPT ![i].status = v]) = Len(s)
         /\ \A j \in 1 .. Len(s) : [s EXCEPT ![i].status = v][j].created = s[j].created
<1> DEFINE t == [s EXCEPT ![i].status = v]
<1>1. PICK n \in Nat : s \in [1 .. n -> CheckRows] /\ Len(s) = n
  BY SeqDef
<1>2. \A j \in 1 .. n : t[j] = s[j] \/ t[j] = [s[j] EXCEPT !.status = v]
  BY <1>1
<1>3. \A j \in 1 .. n : s[j] \in CheckRows /\ [s[j] EXCEPT !.status = v] \in CheckRows
                       /\ [s[j] EXCEPT !.status = v].created = s[j].created
  BY <1>1 DEF CheckRows
<1>4. \A j \in 1 .. n : t[j] \in CheckRows /\ t[j].created = s[j].created
  BY <1>2, <1>3
<1>5. t \in [1 .. n -> CheckRows]
  BY <1>1, <1>4
<1>6. t \in Seq(CheckRows) /\ Len(t) = n
  BY <1>1, <1>5, SeqDef
<1> QED BY <1>1, <1>4, <1>6

LEMMA TypeRest ==
  ASSUME TypeOK, RowsRest
  PROVE  TypeOK'
<1>1. ASSUME NEW a \in Agents, BeginScan(a) PROVE TypeOK'
  <2>1. cur' \in Places /\ cur'.agent = a
    BY <1>1, Elements DEF BeginScan, TypeOK, Places
  <2>2. checks' \in Seq(CheckRows)
    <3>1. [created |-> clock, status |-> "reading"] \in CheckRows
      BY DEF TypeOK, CheckRows
    <3>2. checks' = Append(checks, [created |-> clock, status |-> "reading"]) \/ checks' = checks
      BY <1>1 DEF BeginScan
    <3>3. checks \in Seq(CheckRows)
      BY DEF TypeOK
    <3>4. Append(checks, [created |-> clock, status |-> "reading"]) \in Seq(CheckRows)
      BY <3>1, <3>3
    <3> QED BY <3>2, <3>3, <3>4
  <2>3. checked' \in Nat /\ at' \in {"checking", "rooms"}
    BY <1>1 DEF BeginScan, TypeOK
  <2>4. \A k \in Agents \X Msgs : row[k].status # "received"
    BY <1>1 DEF BeginScan, TypeOK
  <2> QED BY <1>1, <2>1, <2>2, <2>3, <2>4 DEF BeginScan, TypeOK, profiles, counts
<1>2. CASE Checked
  <2>1. checks' \in Seq(CheckRows)
    <3>1. PICK s \in {"ended", "pending"} : checks' = [checks EXCEPT ![Len(checks)].status = s]
      BY <1>2 DEF Checked
    <3>2. checks \in Seq(CheckRows)
      BY DEF TypeOK
    <3>3. [checks EXCEPT ![Len(checks)].status = s] \in Seq(CheckRows)
      BY <3>2, CheckTouched
    <3> QED BY <3>1, <3>3
  <2> QED BY <1>2, <2>1 DEF Checked, TypeOK, profiles, limits, counts
<1>3. ASSUME NEW i \in 1 .. Len(checks), CheckSettles(i) PROVE TypeOK'
  <2>1. checks' \in Seq(CheckRows)
    BY <1>3, CheckTouched DEF CheckSettles, TypeOK
  <2> QED BY <1>3, <2>1 DEF CheckSettles, TypeOK, profiles, limits, counts
<1>4. ASSUME NEW r \in Rooms, ReadRoom(r) PROVE TypeOK'
  <2>1. cur' \in Places /\ cur'.agent = cur.agent
    BY <1>4, PlaceMoved DEF ReadRoom, TypeOK, Places
  <2> QED BY <1>4, <2>1 DEF ReadRoom, TypeOK, profiles, ledger, limits, counts
<1>5. ASSUME NEW m \in Msgs, Comes(m) PROVE TypeOK'
  <2>1. ts' \in [Msgs -> Nat]
    BY <1>5 DEF Comes, TypeOK
  <2> QED BY <1>5, <2>1 DEF Comes, TypeOK, profiles, ledger, limits, counts
<1>6. CASE NoCandidate
  <2>1. cur' \in Places /\ cur'.agent = cur.agent
    BY <1>6, PlaceMoved, Elements DEF NoCandidate, TypeOK, Places
  <2> QED BY <1>6, <2>1 DEF NoCandidate, TypeOK, profiles, ledger, limits, counts
<1>7. CASE EndScan
  BY <1>7, Elements DEF EndScan, TypeOK, profiles, ledger, limits, counts
<1>8. ASSUME NEW a \in Agents, NEW run \in BOOLEAN, NEW m \in Modes, OwnerChange(a, run, m)
      PROVE  TypeOK'
  <2>1. on' \subseteq Agents /\ mode' \in [Agents -> Modes] /\ enabledAt' \in [Agents -> Nat]
        /\ changes' \in Nat
    BY <1>8 DEF OwnerChange, TypeOK
  <2> QED BY <1>8, <2>1 DEF OwnerChange, TypeOK, ledger, limits
<1>9. CASE Tick
  <2>1. clock' \in Nat \ {0}
    BY <1>9 DEF Tick, TypeOK
  <2> QED BY <1>9, <2>1 DEF Tick, TypeOK, profiles, ledger, limits, counts
<1>10. CASE SetBack
  <2>1. clock' \in Nat \ {0} /\ setbacks' \in Nat
    BY <1>10 DEF SetBack, TypeOK
  <2> QED BY <1>10, <2>1 DEF SetBack, TypeOK, profiles, ledger, limits
<1>11. CASE UNCHANGED vars
  BY <1>11 DEF vars, TypeOK, profiles, ledger, limits, counts
<1> QED
  BY <1>1, <1>2, <1>3, <1>4, <1>5, <1>6, <1>7, <1>8, <1>9, <1>10, <1>11 DEF RowsRest

\* What an ending does to the row of the work the scan is at, and to no other.
LEMMA EndingRow ==
  ASSUME TypeOK, Ending
  PROVE  \E s \in {"ended", "answered"}, stamp \in Nat :
           /\ Work \in Agents \X Msgs
           /\ row'[Work] = [row[Work] EXCEPT !.status = s, !.invitation = stamp]
           /\ \A k \in Agents \X Msgs : k # Work => row'[k] = row[k]
           /\ row' \in [Agents \X Msgs -> WorkRows]
           /\ at' = "rooms" /\ cur' = [cur EXCEPT !.room = "home", !.msg = None]
<1>1. PICK s \in {"ended", "answered"}, stamp \in Nat : Executed(s, stamp)
  BY DEF Ending, Ends, Answer, AnswerInviting, TypeOK
<1>2. Work \in Agents \X Msgs
  BY DEF Ending, Ends, Answer, AnswerInviting, TypeOK, Work
<1>3. [row[Work] EXCEPT !.status = s, !.invitation = stamp] \in WorkRows
  <2>1. row[Work] \in WorkRows
    BY <1>2 DEF TypeOK
  <2>2. s \in {"none", "received", "ended", "interrupted", "answered"}
    OBVIOUS
  <2> QED BY <2>1, <2>2 DEF WorkRows
<1>4. row' = [row EXCEPT ![Work] = [row[Work] EXCEPT !.status = s, !.invitation = stamp]]
  BY <1>1, <1>2 DEF Executed, TypeOK, Work
<1>5. row' \in [Agents \X Msgs -> WorkRows]
  BY <1>2, <1>3, <1>4 DEF TypeOK
<1>6. at' = "rooms" /\ cur' = [cur EXCEPT !.room = "home", !.msg = None]
  BY <1>1 DEF Executed
<1> QED BY <1>2, <1>4, <1>5, <1>6 DEF TypeOK

\* What a crash does to a row.
LEMMA CrashRow ==
  ASSUME TypeOK, Crash
  PROVE  /\ row' \in [Agents \X Msgs -> WorkRows]
         /\ \A k \in Agents \X Msgs :
              row'[k] = IF row[k].status = "received" THEN [row[k] EXCEPT !.status = "interrupted"] ELSE row[k]
         /\ checks' \in Seq(CheckRows) /\ Len(checks') = Len(checks)
         /\ \A i \in 1 .. Len(checks) : checks'[i].created = checks[i].created
<1>1. \A k \in Agents \X Msgs : [row[k] EXCEPT !.status = "interrupted"] \in WorkRows
  BY DEF TypeOK, WorkRows
<1>2. /\ row' \in [Agents \X Msgs -> WorkRows]
      /\ \A k \in Agents \X Msgs :
           row'[k] = IF row[k].status = "received" THEN [row[k] EXCEPT !.status = "interrupted"] ELSE row[k]
  BY <1>1 DEF Crash, Recovered, TypeOK
<1>3. PICK n \in Nat : checks \in [1 .. n -> CheckRows] /\ Len(checks) = n
  BY SeqDef DEF TypeOK
<1>4. \A i \in 1 .. n : [checks[i] EXCEPT !.status = "ended"] \in CheckRows /\ checks[i] \in CheckRows
                       /\ [checks[i] EXCEPT !.status = "ended"].created = checks[i].created
  BY <1>3 DEF CheckRows
<1>5. checks' = [i \in 1 .. n |-> IF checks[i].status = "reading"
                                THEN [checks[i] EXCEPT !.status = "ended"] ELSE checks[i]]
  BY <1>3 DEF Crash, Recovered
<1>6. checks' \in [1 .. n -> CheckRows] /\ \A i \in 1 .. n : checks'[i].created = checks[i].created
  BY <1>4, <1>5
<1>7. checks' \in Seq(CheckRows) /\ Len(checks') = n
  BY <1>6, SeqDef
<1> QED BY <1>2, <1>3, <1>6, <1>7

LEMMA TypeStep ==
  ASSUME TypeOK, [Next]_vars
  PROVE  TypeOK'
<1>1. CASE RowsRest
  BY <1>1, TypeRest
<1>2. ASSUME NEW m \in Msgs, TakeUp(m) PROVE TypeOK'
  <2>1. CooldownKey \in Keys /\ cur.agent \in Agents
    BY <1>2, Elements DEF TakeUp, CooldownKey, TypeOK
  <2>2. [status |-> "received", created |-> clock, key |-> CooldownKey, invitation |-> 0] \in WorkRows
    BY <2>1 DEF WorkRows, TypeOK
  <2>3. row' \in [Agents \X Msgs -> WorkRows] /\ \A k \in Agents \X Msgs : row[k].status # "received"
    BY <1>2, <2>2 DEF TakeUp, TypeOK
  <2>4. at' = "created" /\ cur'.agent = cur.agent /\ cur'.msg = m /\ cur' \in Places
    BY <1>2, PlaceMoved DEF TakeUp, TypeOK, Places
  <2>5. \A k \in Agents \X Msgs : k # <<cur.agent, m>> => row'[k] = row[k]
    BY <1>2 DEF TakeUp, TypeOK
  <2> QED BY <1>2, <2>1, <2>3, <2>4, <2>5 DEF TakeUp, TypeOK, profiles, limits, counts
<1>3. CASE StartCooldown
  <2>1. CooldownKey \in Keys /\ cur.agent \in Agents
    BY <1>3, Elements DEF StartCooldown, CooldownKey, TypeOK
  <2>2. cooldown' \in [Agents \X Keys -> Nat]
    BY <1>3, <2>1 DEF StartCooldown, TypeOK
  <2> QED BY <1>3, <2>2 DEF StartCooldown, TypeOK, profiles, ledger, counts
<1>4. CASE Ending
  <2>1. invited' \in [Senders -> Nat]
    BY <1>4 DEF Ending, Ends, Answer, AnswerInviting, Senders, limits, TypeOK
  <2>2. PICK s \in {"ended", "answered"}, stamp \in Nat :
          /\ Work \in Agents \X Msgs
          /\ row'[Work] = [row[Work] EXCEPT !.status = s, !.invitation = stamp]
          /\ \A k \in Agents \X Msgs : k # Work => row'[k] = row[k]
          /\ row' \in [Agents \X Msgs -> WorkRows]
          /\ at' = "rooms" /\ cur' = [cur EXCEPT !.room = "home", !.msg = None]
    BY <1>4, EndingRow
  <2>3. row'[Work].status = s
    BY <2>2 DEF TypeOK, WorkRows
  <2>4. \A k \in Agents \X Msgs : row'[k].status # "received"
    BY <2>2, <2>3 DEF TypeOK, Work
  <2>5. cur' \in Places /\ cur'.agent = cur.agent /\ cur.agent \in Agents
    BY <2>2, PlaceMoved, Elements DEF TypeOK, Places, Work
  <2>6. UNCHANGED <<clock, ts, profiles, checks, cooldown, checked, counts>>
    BY <1>4 DEF Ending, Ends, Answer, AnswerInviting, limits
  <2> QED BY <2>1, <2>2, <2>4, <2>5, <2>6 DEF TypeOK, profiles, counts
<1>5. CASE Crash
  <2>1. \A k \in Agents \X Msgs : row'[k].status # "received"
    BY <1>5, CrashRow DEF TypeOK, WorkRows
  <2>2. crashes' \in Nat
    BY <1>5 DEF Crash, TypeOK
  <2> QED BY <1>5, <2>1, <2>2, CrashRow, Elements DEF Crash, TypeOK, profiles, limits
<1> QED BY <1>1, <1>2, <1>3, <1>4, <1>5, Kinds

LEMMA InitTypeOK == Init => TypeOK
  BY Elements DEF Init, TypeOK, NoRow, NoOne, Senders

\* Every variable keeps its type, and no work is left as received once the scan has
\* gone on or the process has restarted.
THEOREM TypeCorrect == Spec => []TypeOK
<1>1. Init => TypeOK
  BY InitTypeOK
<1>2. TypeOK /\ [Next]_vars => TypeOK'
  BY TypeStep
<1> QED BY <1>1, <1>2, PTL DEF Spec

-----------------------------------------------------------------------------
\* The works and their cooldowns.

LEMMA RestKeeps ==
  ASSUME TypeOK, RowsRest
  PROVE  /\ UNCHANGED <<row, cooldown, invited>>
         /\ at' \in {"created", "execute"} => at' = at /\ cur' = cur
         /\ at = "created" <=> at' = "created"
         /\ at = "created" => clock' >= clock
<1>1. clock \in Nat
  BY DEF TypeOK
<1>2. UNCHANGED <<row, cooldown, invited>>
  BY DEF RowsRest, vars, profiles, ledger, limits, counts, BeginScan, Checked, CheckSettles,
         ReadRoom, Comes, NoCandidate, EndScan, OwnerChange, Tick, SetBack
<1>3. /\ at' \in {"created", "execute"} => at' = at /\ cur' = cur
      /\ at = "created" <=> at' = "created"
  BY DEF RowsRest, vars, profiles, ledger, limits, counts, BeginScan, Checked, CheckSettles,
         ReadRoom, Comes, NoCandidate, EndScan, OwnerChange, Tick, SetBack
<1>4. at = "created" => clock' >= clock
  BY <1>1 DEF RowsRest, vars, profiles, ledger, limits, counts, BeginScan, Checked, CheckSettles,
              ReadRoom, Comes, NoCandidate, EndScan, OwnerChange, Tick, SetBack
<1> QED BY <1>2, <1>3, <1>4

\* A new work is received, and no other row changes.
LEMMA TakenUp ==
  ASSUME TypeOK, NEW m \in Msgs, TakeUp(m)
  PROVE  /\ cur.agent \in Agents /\ Work' = <<cur.agent, m>> /\ row[Work'] = NoRow
         /\ row'[Work'] = [status |-> "received", created |-> clock, key |-> CooldownKey, invitation |-> 0]
         /\ \A k \in Agents \X Msgs : k # Work' => row'[k] = row[k]
         /\ CooldownKey' = CooldownKey
         /\ at = "reading" /\ at' = "created" /\ UNCHANGED <<clock, cooldown, invited>>
         /\ Past(cooldown[<<cur.agent, CooldownKey>>], Cooldown)
<1>1. cur.agent \in Agents /\ cur' = [cur EXCEPT !.msg = m] /\ cur \in Places
  BY DEF TakeUp, TypeOK
<1>2. cur'.agent = cur.agent /\ cur'.mode = cur.mode /\ cur'.room = cur.room /\ cur'.msg = m
  BY <1>1 DEF Places
<1> QED BY <1>1, <1>2 DEF TakeUp, TypeOK, Work, CooldownKey, limits

LEMMA RowsStep ==
  ASSUME TypeOK, UnderWay, Stamps, [Next]_vars
  PROVE  (UnderWay /\ Stamps)'
<1>1. CASE RowsRest
  BY <1>1, RestKeeps DEF UnderWay, Stamps, Work
<1>2. ASSUME NEW m \in Msgs, TakeUp(m) PROVE (UnderWay /\ Stamps)'
  <2>1. UnderWay'
    BY <1>2, TakenUp DEF UnderWay
  <2>2. Stamps'
    BY <1>2, TakenUp DEF Stamps
  <2> QED BY <2>1, <2>2
<1>3. CASE StartCooldown
  BY <1>3 DEF StartCooldown, ledger, UnderWay, Stamps, Work
<1>4. CASE Ending
  <2>1. PICK s \in {"ended", "answered"}, stamp \in Nat :
          /\ Work \in Agents \X Msgs
          /\ row'[Work] = [row[Work] EXCEPT !.status = s, !.invitation = stamp]
          /\ \A k \in Agents \X Msgs : k # Work => row'[k] = row[k]
          /\ at' = "rooms"
    BY <1>4, EndingRow
  <2>2. row'[Work].status = s
    BY <2>1 DEF TypeOK, WorkRows
  <2> QED BY <2>1, <2>2 DEF UnderWay, Stamps
<1>5. CASE Crash
  <2>1. UnderWay'
    BY <1>5 DEF Crash, UnderWay
  <2>2. ASSUME NEW k \in Agents \X Msgs, row'[k].status = "none"
        PROVE  row'[k].created = 0 /\ row'[k].invitation = 0
    <3>1. CASE row[k].status = "received"
      <4>1. row'[k] = [row[k] EXCEPT !.status = "interrupted"] /\ row[k] \in WorkRows
        BY <1>5, <3>1, CrashRow DEF TypeOK
      <4> QED BY <4>1, <2>2 DEF WorkRows
    <3>2. CASE row[k].status # "received"
      BY <1>5, <2>2, <3>2, CrashRow DEF Stamps
    <3> QED BY <3>1, <3>2
  <2> QED BY <2>1, <2>2 DEF Stamps
<1> QED BY <1>1, <1>2, <1>3, <1>4, <1>5, Kinds

LEMMA RowTypes ==
  ASSUME TypeOK, NEW k \in Agents \X Msgs
  PROVE  /\ row[k].created \in Nat /\ row[k].key \in Keys /\ row[k].invitation \in Nat
         /\ k[1] \in Agents /\ k[2] \in Msgs /\ k = <<k[1], k[2]>>
         /\ cooldown[<<k[1], row[k].key>>] \in Nat
<1>1. row[k] \in WorkRows /\ k[1] \in Agents /\ k[2] \in Msgs /\ k = <<k[1], k[2]>>
  BY DEF TypeOK
<1>2. row[k].created \in Nat /\ row[k].key \in Keys /\ row[k].invitation \in Nat
  BY <1>1 DEF WorkRows
<1> QED BY <1>1, <1>2 DEF TypeOK

LEMMA CooledStep ==
  ASSUME TypeOK, UnderWay, Stamps, Cooled, [Next]_vars
  PROVE  Cooled'
<1>0. clock \in Nat \ {0}
  BY DEF TypeOK
<1>1. CASE RowsRest
  <2>1. clock' \in Nat
    BY TypeStep DEF TypeOK
  <2> QED BY <1>0, <1>1, <2>1, RestKeeps DEF Cooled, Work, CooldownKey
<1>2. ASSUME NEW m \in Msgs, TakeUp(m) PROVE Cooled'
  <2>1. ASSUME NEW k \in Agents \X Msgs, row'[k].created # 0, row'[k].status # "interrupted", k # Work'
        PROVE  row'[k].created <= cooldown'[<<k[1], row'[k].key>>]
    BY <1>2, <2>1, TakenUp DEF Cooled
  <2>2. row'[Work'].key = CooldownKey /\ row'[Work'].created = clock
    BY <1>2, TakenUp
  <2>3. cur'.agent = cur.agent
    BY <1>2, TakenUp DEF Work
  <2> QED BY <1>0, <1>2, <2>1, <2>2, <2>3, TakenUp DEF Cooled, Past
<1>3. CASE StartCooldown
  <2> DEFINE c == <<cur.agent, CooldownKey>>
  <2>1. /\ at = "created" /\ at' = "execute" /\ UNCHANGED <<row, clock, cur>>
        /\ cooldown' = [cooldown EXCEPT ![c] = clock]
    BY <1>3 DEF StartCooldown, ledger
  <2>2. c \in Agents \X Keys /\ cooldown[c] \in Nat
    BY <2>1, Elements DEF TypeOK, CooldownKey
  <2>3. row[Work].key = CooldownKey /\ row[Work].created \in 1 .. clock
        /\ (cooldown[c] = 0 \/ row[Work].created - cooldown[c] >= Cooldown)
    BY <2>1 DEF Cooled
  <2>4. cooldown[c] <= clock
    BY <1>0, <2>2, <2>3, Numbers
  <2>5. cooldown'[c] = clock /\ \A d \in Agents \X Keys : d # c => cooldown'[d] = cooldown[d]
    BY <2>1, <2>2 DEF TypeOK
  <2> HIDE DEF c
  <2>6. ASSUME NEW k \in Agents \X Msgs, row[k].created # 0, row[k].status # "interrupted"
        PROVE  row[k].created <= cooldown'[<<k[1], row[k].key>>]
    <3>1. /\ row[k].created \in Nat /\ <<k[1], row[k].key>> \in Agents \X Keys
          /\ cooldown[<<k[1], row[k].key>>] \in Nat
      BY RowTypes
    <3>2. CASE k = Work
      <4>1. <<k[1], row[k].key>> = c
        BY <3>2, <2>3 DEF Work, c
      <4> QED BY <4>1, <3>2, <2>3, <2>5
    <3>3. CASE k # Work
      <4>1. row[k].created <= cooldown[<<k[1], row[k].key>>]
        BY <2>6, <3>3 DEF Cooled
      <4>2. CASE <<k[1], row[k].key>> = c
        BY <1>0, <4>1, <4>2, <3>1, <2>2, <2>4, <2>5
      <4>3. CASE <<k[1], row[k].key>> # c
        BY <4>1, <4>3, <3>1, <2>5
      <4> QED BY <4>2, <4>3
    <3> QED BY <3>2, <3>3
  <2> QED BY <2>1, <2>6 DEF Cooled
<1>4. CASE Ending
  <2>1. PICK s \in {"ended", "answered"}, stamp \in Nat :
          /\ Work \in Agents \X Msgs
          /\ row'[Work] = [row[Work] EXCEPT !.status = s, !.invitation = stamp]
          /\ \A k \in Agents \X Msgs : k # Work => row'[k] = row[k]
          /\ at' = "rooms"
    BY <1>4, EndingRow
  <2>2. row'[Work].created = row[Work].created /\ row'[Work].key = row[Work].key
    BY <2>1 DEF TypeOK, WorkRows
  <2>3. at = "execute" /\ row[Work].status = "received" /\ cooldown' = cooldown
    BY <1>4 DEF Ending, Ends, Answer, AnswerInviting, UnderWay, limits
  <2> QED BY <2>1, <2>2, <2>3 DEF Cooled
<1>5. CASE Crash
  <2>1. at' = "idle" /\ cooldown' = cooldown
    BY <1>5 DEF Crash, limits
  <2>2. ASSUME NEW k \in Agents \X Msgs, row'[k].created # 0, row'[k].status # "interrupted"
        PROVE  row'[k].created <= cooldown[<<k[1], row'[k].key>>]
    <3>1. CASE row[k].status = "received"
      <4>1. row'[k] = [row[k] EXCEPT !.status = "interrupted"] /\ row[k] \in WorkRows
        BY <1>5, <3>1, CrashRow DEF TypeOK
      <4> QED BY <4>1, <2>2 DEF WorkRows
    <3>2. CASE row[k].status # "received"
      <4>1. row'[k] = row[k]
        BY <1>5, <3>2, CrashRow
      <4>2. ~(at = "created" /\ k = Work)
        BY <3>2 DEF UnderWay
      <4> QED BY <4>1, <4>2, <2>2 DEF Cooled
    <3> QED BY <3>1, <3>2
  <2> QED BY <2>1, <2>2 DEF Cooled
<1> QED BY <1>1, <1>2, <1>3, <1>4, <1>5, Kinds

\* A step that takes nothing up keeps the time and the cooldown of every work, and
\* makes none less interrupted.
LEMMA WorksStay ==
  ASSUME TypeOK, UnderWay, [Next]_vars, \A m \in Msgs : ~TakeUp(m), NEW k \in Agents \X Msgs
  PROVE  /\ row'[k].created = row[k].created /\ row'[k].key = row[k].key
         /\ row[k].status = "interrupted" => row'[k].status = "interrupted"
<1>0. row[k] \in WorkRows
  BY DEF TypeOK
<1>1. CASE RowsRest
  BY <1>1, RestKeeps
<1>2. CASE StartCooldown
  BY <1>2 DEF StartCooldown, ledger
<1>3. CASE Ending
  <2>1. PICK s \in {"ended", "answered"}, stamp \in Nat :
          /\ row'[Work] = [row[Work] EXCEPT !.status = s, !.invitation = stamp]
          /\ k # Work => row'[k] = row[k]
    BY <1>3, EndingRow
  <2>2. row[Work].status = "received"
    BY <1>3 DEF Ending, Ends, Answer, AnswerInviting, UnderWay
  <2>3. CASE k = Work
    BY <1>0, <2>1, <2>2, <2>3 DEF WorkRows
  <2> QED BY <2>1, <2>3
<1>4. CASE Crash
  BY <1>0, <1>4, CrashRow DEF WorkRows
<1> QED BY <1>1, <1>2, <1>3, <1>4, Kinds

LEMMA SpacingStep ==
  ASSUME TypeOK, UnderWay, Cooled, Spacing, [Next]_vars
  PROVE  Spacing'
<1> SUFFICES ASSUME NEW a \in Agents, NEW m \in Msgs, NEW n \in Msgs, m # n,
                    row'[<<a, m>>].created # 0, row'[<<a, n>>].created # 0,
                    row'[<<a, m>>].key = row'[<<a, n>>].key,
                    row'[<<a, m>>].status # "interrupted", row'[<<a, n>>].status # "interrupted"
             PROVE  Apart(row'[<<a, m>>].created, row'[<<a, n>>].created, Cooldown)
  BY DEF Spacing
<1>1. ASSUME NEW p \in Msgs, TakeUp(p) PROVE Apart(row'[<<a, m>>].created, row'[<<a, n>>].created, Cooldown)
  <2> DEFINE stamp == cooldown[<<cur.agent, CooldownKey>>]
  <2>1. \A k \in Agents \X Msgs : k # Work' => row'[k] = row[k]
    BY <1>1, TakenUp
  <2>2. row'[Work'].created = clock /\ row'[Work'].key = CooldownKey /\ Work' = <<cur.agent, p>>
    BY <1>1, TakenUp
  <2>3. clock \in Nat /\ at # "created" /\ Past(stamp, Cooldown) /\ CooldownKey \in Keys
    BY <1>1, TakenUp, Elements DEF TypeOK, CooldownKey
  <2>4. ASSUME NEW q \in Msgs, Work' # <<a, q>>, a = cur.agent, row[<<a, q>>].created # 0,
               row[<<a, q>>].status # "interrupted", row[<<a, q>>].key = CooldownKey
        PROVE  row[<<a, q>>].created \in Nat /\ clock - row[<<a, q>>].created >= Cooldown
    <3>1. <<a, q>> \in Agents \X Msgs /\ <<a, q>>[1] = a
      OBVIOUS
    <3>2. row[<<a, q>>].created \in Nat /\ stamp \in Nat
      BY <3>1, <2>4, RowTypes
    <3>3. row[<<a, q>>].created <= stamp
      BY <3>1, <2>3, <2>4 DEF Cooled
    <3> QED BY <3>2, <3>3, <2>3, <2>4, Numbers DEF Past
  <2> HIDE DEF stamp
  <2>5. CASE Work' = <<a, m>>
    BY <2>1, <2>2, <2>3, <2>4, <2>5 DEF Apart
  <2>6. CASE Work' = <<a, n>>
    BY <2>1, <2>2, <2>3, <2>4, <2>6 DEF Apart
  <2>7. CASE Work' # <<a, m>> /\ Work' # <<a, n>>
    BY <2>1, <2>7 DEF Spacing
  <2> QED BY <2>5, <2>6, <2>7
<1>2. CASE \A p \in Msgs : ~TakeUp(p)
  <2>0. <<a, m>> \in Agents \X Msgs /\ <<a, n>> \in Agents \X Msgs
    OBVIOUS
  <2>1. /\ row'[<<a, m>>].created = row[<<a, m>>].created /\ row'[<<a, m>>].key = row[<<a, m>>].key
        /\ row[<<a, m>>].status # "interrupted"
    BY <1>2, <2>0, WorksStay
  <2>2. /\ row'[<<a, n>>].created = row[<<a, n>>].created /\ row'[<<a, n>>].key = row[<<a, n>>].key
        /\ row[<<a, n>>].status # "interrupted"
    BY <1>2, <2>0, WorksStay
  <2>3. Apart(row[<<a, m>>].created, row[<<a, n>>].created, Cooldown)
    BY <2>1, <2>2 DEF Spacing
  <2> QED BY <2>1, <2>2, <2>3
<1> QED BY <1>1, <1>2

-----------------------------------------------------------------------------
\* Invitations.

\* Reserving moves the recipient's stamp a gap ahead, and with it every earlier row.
LEMMA Invitations ==
  ASSUME TypeOK, Reserved, InvitationsApart, [Next]_vars
  PROVE  (Reserved /\ InvitationsApart)'
<1>1. ASSUME UNCHANGED invited,
             \A k \in Agents \X Msgs : row'[k].invitation \in {0, row[k].invitation}
      PROVE  (Reserved /\ InvitationsApart)'
  <2>1. \A k \in Agents \X Msgs : invited[Sender[k[2]]] \in Nat
    BY RowTypes DEF TypeOK, Senders
  <2>2. Reserved'
    BY <1>1, <2>1 DEF Reserved
  <2>3. InvitationsApart'
    BY <1>1 DEF InvitationsApart
  <2> QED BY <2>2, <2>3
<1>2. CASE RowsRest
  BY <1>1, <1>2, RestKeeps
<1>3. ASSUME NEW m \in Msgs, TakeUp(m) PROVE (Reserved /\ InvitationsApart)'
  BY <1>1, <1>3, TakenUp
<1>4. CASE StartCooldown
  BY <1>1, <1>4 DEF StartCooldown, ledger
<1>5. CASE Ends \/ Answer
  <2>1. PICK s \in {"ended", "answered"} : Executed(s, 0)
    BY <1>5 DEF Ends, Answer
  <2>2. Work \in Agents \X Msgs /\ UNCHANGED invited
    BY <1>5 DEF Ends, Answer, limits, TypeOK, Work
  <2>3. row[Work] \in WorkRows
    BY <2>2 DEF TypeOK
  <2>4. row' = [row EXCEPT ![Work] = [row[Work] EXCEPT !.status = s, !.invitation = 0]]
    BY <2>1, <2>2 DEF Executed, Work, TypeOK
  <2>5. \A k \in Agents \X Msgs : row'[k].invitation \in {0, row[k].invitation}
    BY <2>2, <2>3, <2>4 DEF TypeOK, WorkRows
  <2> QED BY <1>1, <2>2, <2>5
<1>6. CASE AnswerInviting
  <2> DEFINE to == Sender[Work[2]]
  <2>1. Work \in Agents \X Msgs /\ Sender[Work[2]] = Sender[cur.msg] /\ to \in Senders
    BY <1>6 DEF AnswerInviting, TypeOK, Work, Senders
  <2>2. /\ invited' = [invited EXCEPT ![to] = clock] /\ Past(invited[to], InviteGap)
    BY <1>6, <2>1 DEF AnswerInviting
  <2>3. /\ \A k \in Agents \X Msgs : k # Work => row'[k] = row[k]
        /\ row'[Work].invitation = clock
    <3>1. row' = [row EXCEPT ![Work] = [row[Work] EXCEPT !.status = "answered", !.invitation = clock]]
      BY <1>6, <2>1 DEF AnswerInviting, Executed, Work, TypeOK
    <3>2. row[Work] \in WorkRows
      BY <2>1 DEF TypeOK
    <3> QED BY <3>1, <3>2, <2>1 DEF TypeOK, WorkRows
  <2>4. clock \in Nat \ {0} /\ invited[to] \in Nat
    BY <2>1 DEF TypeOK
  <2> HIDE DEF to
  <2>5. ASSUME NEW k \in Agents \X Msgs, k # Work, Sender[k[2]] = to, row[k].invitation # 0
        PROVE  row[k].invitation \in Nat /\ clock - row[k].invitation >= InviteGap
    <3>1. row[k].invitation \in Nat /\ row[k].invitation <= invited[to]
      BY <2>5, RowTypes DEF Reserved
    <3> QED BY <3>1, <2>2, <2>4, <2>5, Numbers DEF Past
  <2>6. InvitationsApart'
    <3> SUFFICES ASSUME NEW k \in Agents \X Msgs, NEW l \in Agents \X Msgs, k # l,
                        row'[k].invitation # 0, row'[l].invitation # 0, Sender[k[2]] = Sender[l[2]]
                 PROVE  Apart(row'[k].invitation, row'[l].invitation, InviteGap)
      BY DEF InvitationsApart
    <3>1. CASE k = Work
      BY <3>1, <2>3, <2>4, <2>5 DEF Apart, to
    <3>2. CASE l = Work
      BY <3>2, <2>3, <2>4, <2>5 DEF Apart, to
    <3>3. CASE k # Work /\ l # Work
      BY <3>3, <2>3 DEF InvitationsApart
    <3> QED BY <3>1, <3>2, <3>3
  <2>7. Reserved'
    <3> SUFFICES ASSUME NEW k \in Agents \X Msgs
                 PROVE  row'[k].invitation <= invited'[Sender[k[2]]]
      BY DEF Reserved
    <3>1. row[k].invitation \in Nat /\ row[k].invitation <= invited[Sender[k[2]]]
          /\ Sender[k[2]] \in Senders
      BY RowTypes DEF Reserved, Senders
    <3>2. CASE Sender[k[2]] = to
      <4>1. invited'[Sender[k[2]]] = clock
        BY <3>2, <3>1, <2>2 DEF TypeOK
      <4>2. CASE k = Work
        BY <4>1, <4>2, <2>3, <2>4
      <4>3. CASE k # Work
        BY <4>1, <4>3, <3>1, <3>2, <2>3, <2>4, <2>5, Numbers
      <4> QED BY <4>2, <4>3
    <3>3. CASE Sender[k[2]] # to
      <4>1. k # Work
        BY <3>3 DEF to
      <4> QED BY <4>1, <3>1, <3>3, <2>2, <2>3 DEF TypeOK
    <3> QED BY <3>2, <3>3
  <2> QED BY <2>6, <2>7
<1>7. CASE Crash
  <2>1. \A k \in Agents \X Msgs : row'[k].invitation = row[k].invitation
    BY <1>7, CrashRow DEF TypeOK, WorkRows
  <2>2. UNCHANGED invited
    BY <1>7 DEF Crash, limits
  <2> QED BY <1>1, <2>1, <2>2
<1> QED BY <1>2, <1>3, <1>4, <1>5, <1>6, <1>7, Kinds DEF Ending

-----------------------------------------------------------------------------
\* Maintenance checks.

LEMMA ChecksStep ==
  ASSUME TypeOK, LastCheck, ChecksApart, [Next]_vars
  PROVE  (LastCheck /\ ChecksApart)'
<1>0. clock \in Nat \ {0} /\ checked \in Nat /\ checks \in Seq(CheckRows)
      /\ \A i \in 1 .. Len(checks) : checks[i].created \in Nat
  <2>1. clock \in Nat \ {0} /\ checked \in Nat /\ checks \in Seq(CheckRows)
    BY DEF TypeOK
  <2>2. \A i \in 1 .. Len(checks) : checks[i] \in CheckRows
    BY <2>1
  <2>3. \A c \in CheckRows : c.created \in Nat
    BY DEF CheckRows
  <2> QED BY <2>1, <2>2, <2>3
<1>1. ASSUME checked' = checked, Len(checks') = Len(checks),
             \A i \in 1 .. Len(checks) : checks'[i].created = checks[i].created
      PROVE  (LastCheck /\ ChecksApart)'
  BY <1>1 DEF LastCheck, ChecksApart
<1>2. ASSUME NEW a \in Agents, BeginScan(a), checks' # checks PROVE (LastCheck /\ ChecksApart)'
  <2>1. /\ Past(checked, Silence) /\ checked' = clock
        /\ checks' = Append(checks, [created |-> clock, status |-> "reading"])
    BY <1>2 DEF BeginScan, MaintenanceDue
  <2>2. /\ Len(checks') = Len(checks) + 1 /\ Len(checks) \in Nat
        /\ \A i \in 1 .. Len(checks) : checks'[i] = checks[i]
        /\ checks'[Len(checks) + 1].created = clock
    BY <2>1, <1>0
  <2>3. \A i \in 1 .. Len(checks) : clock - checks[i].created >= Silence /\ checks[i].created # 0
    BY <2>1, <1>0, Numbers DEF Past, LastCheck
  <2>4. \A i \in 1 .. Len(checks') : i \in 1 .. Len(checks) \/ i = Len(checks) + 1
    BY <2>2
  <2>5. LastCheck'
    <3> SUFFICES ASSUME NEW i \in 1 .. Len(checks')
                 PROVE  checks'[i].created # 0 /\ checks'[i].created <= clock
      BY <2>1 DEF LastCheck
    <3> QED BY <2>2, <2>3, <2>4, <1>0, Numbers
  <2>6. ChecksApart'
    <3> SUFFICES ASSUME NEW i \in 1 .. Len(checks'), NEW j \in 1 .. Len(checks'), i # j
                 PROVE  Apart(checks'[i].created, checks'[j].created, Silence)
      BY DEF ChecksApart
    <3>1. CASE i \in 1 .. Len(checks) /\ j \in 1 .. Len(checks)
      BY <3>1, <2>2 DEF ChecksApart
    <3>2. CASE i = Len(checks) + 1 /\ j \in 1 .. Len(checks)
      BY <3>2, <2>2, <2>3 DEF Apart
    <3>3. CASE i \in 1 .. Len(checks) /\ j = Len(checks) + 1
      BY <3>3, <2>2, <2>3 DEF Apart
    <3> QED BY <3>1, <3>2, <3>3, <2>4
  <2> QED BY <2>5, <2>6
<1>3. ASSUME NEW a \in Agents, BeginScan(a), checks' = checks PROVE (LastCheck /\ ChecksApart)'
  <2>1. checks' # Append(checks, [created |-> clock, status |-> "reading"])
    BY <1>0, <1>3
  <2>2. checked' = checked
    BY <1>3, <2>1 DEF BeginScan
  <2> QED BY <1>1, <1>3, <2>2
<1>4. CASE Checked
  <2>1. PICK s \in {"ended", "pending"} : checks' = [checks EXCEPT ![Len(checks)].status = s]
    BY <1>4 DEF Checked
  <2>2. checked' = checked
    BY <1>4 DEF Checked, limits
  <2> QED BY <1>0, <1>1, <2>1, <2>2, CheckTouched
<1>5. ASSUME NEW i \in 1 .. Len(checks), CheckSettles(i) PROVE (LastCheck /\ ChecksApart)'
  BY <1>0, <1>1, <1>5, CheckTouched DEF CheckSettles, limits
<1>6. CASE Crash
  BY <1>1, <1>6, CrashRow DEF Crash, limits
<1>7. CASE UNCHANGED <<checks, checked>>
  BY <1>1, <1>7
<1> QED
  BY <1>2, <1>3, <1>4, <1>5, <1>6, <1>7
  DEF Next, vars, ledger, limits, ReadRoom, TakeUp, Comes, StartCooldown, NoCandidate, Ends, Answer,
      AnswerInviting, EndScan, OwnerChange, Tick, SetBack

-----------------------------------------------------------------------------
\* The theorems.

LEMMA InvInit == Init => IInv
<1> SUFFICES ASSUME Init PROVE IInv
  OBVIOUS
<1>1. \A k \in Agents \X Msgs : row[k] = NoRow
  BY DEF Init
<1>2. UnderWay /\ Stamps /\ Cooled /\ Spacing
  BY <1>1 DEF Init, UnderWay, Stamps, Cooled, Spacing, NoRow
<1>3. Reserved /\ InvitationsApart
  <2>1. \A k \in Agents \X Msgs : invited[Sender[k[2]]] = 0
    BY DEF Init, Senders
  <2> QED BY <1>1, <2>1 DEF Reserved, InvitationsApart, NoRow
<1>4. LastCheck /\ ChecksApart
  BY DEF Init, LastCheck, ChecksApart
<1> QED BY <1>2, <1>3, <1>4, InitTypeOK DEF IInv

LEMMA InvStep == IInv /\ [Next]_vars => IInv'
  BY TypeStep, RowsStep, CooledStep, SpacingStep, Invitations, ChecksStep DEF IInv

\* Two works of an agent under one cooldown are two minutes apart, whatever the owner,
\* the clock and restarts do.
THEOREM WorksApart == Spec => []Spacing
<1>1. IInv => Spacing
  BY DEF IInv
<1> QED BY <1>1, InvInit, InvStep, PTL DEF Spec

\* Nobody gets two invitations within seven days from all agents together.
THEOREM InvitedOnce == Spec => []InvitationsApart
<1>1. IInv => InvitationsApart
  BY DEF IInv
<1> QED BY <1>1, InvInit, InvStep, PTL DEF Spec

\* Maintenance checks are 72 hours apart across agents, those that fail and those a
\* crash cuts short included.
THEOREM CheckedOnce == Spec => []ChecksApart
<1>1. IInv => ChecksApart
  BY DEF IInv
<1> QED BY <1>1, InvInit, InvStep, PTL DEF Spec

\* Only what came since the agent was last switched on is ever taken up, although a
\* scan works on a profile it read before its awaits.
THEOREM NothingBackfilled == Spec => NoBackfill
<1> DEFINE Fresh == \A a \in Agents, m \in Msgs :
       row[<<a, m>>] = NoRow /\ row'[<<a, m>>] # NoRow => a \in on /\ ts[m] >= enabledAt[a]
<1>1. ASSUME IInv, [Next]_vars PROVE Fresh
  <2> USE <1>1 DEF IInv
  <2>0. \A k \in Agents \X Msgs : row[k] = NoRow => row[k].status # "received"
    BY DEF NoRow
  <2>1. CASE RowsRest \/ StartCooldown
    BY <2>1, RestKeeps DEF StartCooldown, ledger
  <2>2. ASSUME NEW p \in Msgs, TakeUp(p) PROVE Fresh
    <3>1. \A k \in Agents \X Msgs : row'[k] # row[k] => k = <<cur.agent, p>>
      BY <2>2, TakenUp
    <3>2. cur.agent \in on /\ ts[p] >= enabledAt[cur.agent]
      BY <2>2 DEF TakeUp, Active, Candidate
    <3> QED BY <3>1, <3>2
  <2>3. CASE Ending
    <3>1. \A k \in Agents \X Msgs : row'[k] # row[k] => k = Work
      BY <2>3, EndingRow
    <3>2. row[Work] # NoRow
      BY <2>3 DEF Ending, Ends, Answer, AnswerInviting, UnderWay, NoRow
    <3> QED BY <3>1, <3>2
  <2>4. CASE Crash
    BY <2>0, <2>4, CrashRow
  <2> QED BY <2>1, <2>2, <2>3, <2>4, Kinds
<1>2. IInv /\ [Next]_vars => [Fresh]_vars
  BY <1>1
<1> QED BY <1>2, InvInit, InvStep, PTL DEF Spec, NoBackfill
=============================================================================
