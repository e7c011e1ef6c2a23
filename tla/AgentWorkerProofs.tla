-------------------------- MODULE AgentWorkerProofs --------------------------
(***************************************************************************)
(* Theorems of TaskBoard and of AgentWorker, which extends it, for any     *)
(* participants, agents, policies, tasks, leases and bounds.               *)
(*                                                                         *)
(* The board: its inductive invariant is the type invariant, the order of  *)
(* time in the room and the agreement of archive and room; everything      *)
(* about winners and verdicts follows from it, through the lemmas about    *)
(* TaskViews. These come first: least and greatest rows exist, and rows    *)
(* that arrive with larger seqs change nothing about the rows there are.   *)
(*                                                                         *)
(* The worker: every step of it and of its surroundings is a step of the   *)
(* board, so that all theorems of the board hold while the agents work on  *)
(* it; what the agents do is then followed from the scan to the journal.   *)
(***************************************************************************)
EXTENDS AgentWorker, WellFoundedInduction, FiniteSetTheorems, TLAPS

-----------------------------------------------------------------------------
\* What the derivation of task state guarantees for every archive.

\* Every row has a natural seq: what insertRoomEvent stores (messageValid).
Numbered(S) == \A e \in S : e.seq \in Nat

\* S is what R has become after rows with larger seqs were added.
Extends(S, R) == R \subseteq S /\ \A e \in S \ R : \A f \in R : f.seq < e.seq

\* A set of naturals that is not empty has a least element.
LEMMA LeastExists ==
  ASSUME NEW S, S \subseteq Nat, S # {}
  PROVE  \E m \in S : \A k \in S : m <= k
<1> DEFINE R == OpToRel(<, Nat)
<1>1. IsWellFoundedOn(R, Nat)
  BY NatLessThanWellFounded
<1>2. PICK m \in S : \A k \in S : ~ (<<k, m>> \in R)
  BY <1>1, WFMin
<1>3. \A k \in S : ~ (k < m)
  BY <1>2 DEF OpToRel
<1> QED BY <1>3

\* find() on rows sorted by seq returns a row whenever some row qualifies.
LEMMA FirstExists ==
  ASSUME NEW S, Numbered(S), S # {}
  PROVE  FirstOf(S) # {}
<1> DEFINE N == { e.seq : e \in S }
<1>1. N \subseteq Nat /\ N # {}
  BY DEF Numbered
<1>2. PICK m \in N : \A k \in N : m <= k
  BY <1>1, LeastExists
<1>3. PICK e \in S : e.seq = m
  BY <1>2
<1> QED BY <1>2, <1>3 DEF FirstOf

\* at(-1) on a bounded set of rows returns a row whenever there is one.
LEMMA LastExists ==
  ASSUME NEW S, Numbered(S), S # {}, NEW top \in Nat, \A e \in S : e.seq <= top
  PROVE  LastOf(S) # {}
<1> DEFINE N == { top - e.seq : e \in S }
<1>1. N \subseteq Nat /\ N # {}
  BY DEF Numbered
<1> HIDE DEF N
<1>2. PICK m \in N : \A k \in N : m <= k
  BY <1>1, LeastExists
<1>3. PICK e \in S : top - e.seq = m
  BY <1>2 DEF N
<1>4. \A f \in S : f.seq <= e.seq
  <2> TAKE f \in S
  <2>1. m <= top - f.seq
    BY <1>2 DEF N
  <2>2. e.seq \in Nat /\ f.seq \in Nat
    BY DEF Numbered
  <2> QED BY <2>1, <2>2, <1>3
<1> QED BY <1>3, <1>4 DEF LastOf

\* The query returns the same oldest rows after newer ones were added, and what
\* it returns beyond them is newer.
LEMMA RowsExtend ==
  ASSUME NEW A, NEW B, Numbered(B), Extends(B, A)
  PROVE  Numbered(Rows(B)) /\ Extends(Rows(B), Rows(A))
<1>1. \A e \in A : { f \in B : f.seq < e.seq } = { f \in A : f.seq < e.seq }
  BY DEF Extends, Numbered
<1>2. \A e \in A : e \in Rows(A) <=> e \in Rows(B)
  BY <1>1 DEF Rows, Extends
<1>3. Rows(A) \subseteq A /\ Rows(B) \subseteq B
  BY DEF Rows
<1> QED BY <1>2, <1>3 DEF Extends, Numbered

\* Neither the posting that opens a view nor the items a view holds are changed
\* by later rows.
LEMMA ItemsExtend ==
  ASSUME NEW R, NEW S, Numbered(S), Extends(S, R), NEW kind, NEW t
  PROVE  /\ Posting(R, t) \subseteq Posting(S, t)
         /\ Items(S, kind, t) \cap R = Items(R, kind, t)
<1>1. Posting(R, t) \subseteq Posting(S, t)
  BY DEF Posting, FirstOf, Extends, Numbered
<1>2. ASSUME NEW e \in R, NEW p \in Posting(S, t), p.seq < e.seq
      PROVE  p \in Posting(R, t)
  BY <1>2 DEF Posting, FirstOf, Extends, Numbered
<1> QED BY <1>1, <1>2 DEF Items, Extends

\* Which claim wins a submission, and so whether the submission is valid, is
\* settled by the rows that precede it.
THEOREM ValidityStable ==
  ASSUME NEW R, NEW S, Numbered(S), Extends(S, R), NEW s \in R
  PROVE  /\ Standing(R, s) = Standing(S, s)
         /\ ValidClaim(R, s) <=> ValidClaim(S, s)
<1>1. Standing(R, s) \subseteq Standing(S, s)
  BY ItemsExtend DEF Standing, Extends
<1>2. ASSUME NEW c \in Standing(S, s)
      PROVE  c \in Standing(R, s)
  <2>1. c \in R
    BY DEF Standing, Items, Extends, Numbered
  <2> QED BY <2>1, ItemsExtend DEF Standing
<1>3. Standing(R, s) = Standing(S, s)
  BY <1>1, <1>2
<1> QED BY <1>3 DEF ValidClaim

\* A submission that counts keeps counting, a decision that counts keeps counting.
LEMMA ValidExtends ==
  ASSUME NEW R, NEW S, Numbered(S), Extends(S, R), NEW t
  PROVE  /\ ValidSubmissions(S, t) \cap R = ValidSubmissions(R, t)
         /\ ValidDecisions(R, t) \subseteq ValidDecisions(S, t)
<1>1. ValidSubmissions(S, t) \cap R = ValidSubmissions(R, t)
  <2>1. Items(S, "submission", t) \cap R = Items(R, "submission", t)
    BY ItemsExtend
  <2>2. \A s \in R : ValidClaim(R, s) <=> ValidClaim(S, s)
    BY ValidityStable
  <2> QED BY <2>1, <2>2 DEF ValidSubmissions
<1>2. ValidDecisions(R, t) \subseteq ValidDecisions(S, t)
  BY <1>1, ItemsExtend DEF ValidDecisions
<1> QED BY <1>1, <1>2

\* The status line: a verdict exactly when some decision counts, "submitted"
\* exactly when none does and some submission counts.
LEMMA StatusMeaning ==
  ASSUME NEW R, NEW t, NEW clock, NEW top \in Nat,
         Numbered(R), \A e \in R : e.seq <= top,
         \A e \in R : e.kind = "decision" => e.verdict \in {"accepted", "rejected"}
  PROVE  LET status == Status(R, t, clock)
         IN /\ status \in {"accepted", "rejected"} <=> ValidDecisions(R, t) # {}
            /\ status = "submitted" <=> /\ ValidDecisions(R, t) = {}
                                        /\ ValidSubmissions(R, t) # {}
            /\ status \in {"accepted", "rejected"} =>
                 \E d \in ValidDecisions(R, t) : d.verdict = status
<1> DEFINE valid == ValidDecisions(R, t)
           status == Status(R, t, clock)
<1>1. valid \subseteq R /\ \A d \in valid : d.verdict \in {"accepted", "rejected"}
  BY DEF ValidDecisions, Items
<1>2. valid # {} <=> Decision(R, t) # {}
  <2>1. Numbered(valid) /\ \A d \in valid : d.seq <= top
    BY <1>1 DEF Numbered
  <2>2. valid # {} => LastOf(valid) # {}
    BY <2>1, LastExists
  <2> QED BY <2>2 DEF Decision, LastOf
<1>3. CASE valid # {}
  <2>1. PICK d \in Decision(R, t) : status = d.verdict
    BY <1>2, <1>3 DEF Status
  <2>2. d \in valid
    BY DEF Decision, LastOf
  <2> QED BY <1>1, <1>3, <2>1, <2>2
<1>4. CASE valid = {}
  <2> DEFINE submitted == ValidSubmissions(R, t) # {}
  <2>1. /\ submitted => status = "submitted"
        /\ ~submitted => status \in {"expired", "claimed", "open"}
    BY <1>2, <1>4 DEF Status
  <2>2. /\ submitted <=> status = "submitted"
        /\ status \notin {"accepted", "rejected"}
    BY <2>1
  <2> QED BY <1>4, <2>2
<1> QED BY <1>3, <1>4

-----------------------------------------------------------------------------
\* The inductive invariant.

IInv == TypeOK /\ RoomInv /\ ArchiveInv

-----------------------------------------------------------------------------

\* Signing an event again gives a row of the same kind.
LEMMA Redated ==
  ASSUME NEW r \in Row, NEW n \in Nat, NEW m \in Nat
  PROVE  LET q == [r EXCEPT !.seq = n, !.ts = m]
         IN q \in Row /\ q.seq = n /\ q.ts = m
<1> DEFINE q == [r EXCEPT !.seq = n, !.ts = m]
<1>1. CASE r \in TaskRow
  BY <1>1 DEF Row, TaskRow
<1>2. CASE r \in ClaimRow
  BY <1>2 DEF Row, ClaimRow
<1>3. CASE r \in SubmissionRow
  BY <1>3 DEF Row, SubmissionRow
<1>4. CASE r \in DecisionRow
  BY <1>4 DEF Row, DecisionRow
<1> QED BY <1>1, <1>2, <1>3, <1>4 DEF Row

\* A message that any participant posts is the next row of the room, dated now.
LEMMA PostedRow ==
  ASSUME TypeOK, Next, room' # room
  PROVE  \E row \in Row : /\ room' = Append(room, row)
                          /\ row.seq = NextSeq /\ row.ts = now
                          /\ UNCHANGED <<archive, cursor, now>>
<1> USE DEF NextSeq, Row, TaskRow, ClaimRow, SubmissionRow, DecisionRow
<1>1. CASE \E d \in Dids, t \in TaskIds, x \in Expiries : PostTask(d, t, x)
  BY <1>1 DEF PostTask, Post, TypeOK
<1>2. CASE \E d \in Dids, t \in TaskIds, lease \in Leases : PostClaim(d, t, lease)
  BY <1>2 DEF PostClaim, Post, TypeOK
<1>3. CASE \E d \in Dids, t \in TaskIds, c \in InRoom("claim") : PostSubmission(d, t, c)
  <2>1. PICK d \in Dids, t \in TaskIds, c \in InRoom("claim") : PostSubmission(d, t, c)
    BY <1>3
  <2>2. room[c].id \in Nat
    BY DEF InRoom, TypeOK
  <2> QED BY <2>1, <2>2 DEF PostSubmission, Post, TypeOK
<1>4. CASE \E d \in Dids, t \in TaskIds, s \in InRoom("submission"), v \in Verdicts :
             PostDecision(d, t, s, v)
  <2>1. PICK d \in Dids, t \in TaskIds, s \in InRoom("submission"), v \in Verdicts :
               PostDecision(d, t, s, v)
    BY <1>4
  <2>2. room[s].id \in Nat
    BY DEF InRoom, TypeOK
  <2> DEFINE row == [kind |-> "decision", id |-> NextSeq, taskId |-> t, author |-> d,
                     submissionId |-> room[s].id, verdict |-> v,
                     seq |-> NextSeq, ts |-> now]
  <2>3. row \in Row /\ row.seq = NextSeq /\ row.ts = now
    BY <2>2 DEF TypeOK
  <2>4. Post(row)
    BY <2>1 DEF PostDecision
  <2> HIDE DEF row
  <2> QED BY <2>3, <2>4 DEF Post
<1>5. CASE \E i \in 1 .. Len(room) : Repost(i)
  <2>1. PICK i \in 1 .. Len(room) : Repost(i)
    BY <1>5
  <2> DEFINE row == [room[i] EXCEPT !.seq = NextSeq, !.ts = now]
  <2>2. room[i] \in Row /\ NextSeq \in Nat /\ now \in Nat
    BY DEF TypeOK
  <2>3. row \in Row /\ row.seq = NextSeq /\ row.ts = now
    BY <2>2, Redated
  <2>4. Post(row)
    BY <2>1 DEF Repost
  <2> HIDE DEF row
  <2> QED BY <2>3, <2>4 DEF Post
<1>6. CASE \E first, last \in 1 .. Len(room) : SyncOnce(first, last)
  BY <1>6 DEF SyncOnce
<1>7. CASE Tick
  BY <1>7 DEF Tick
<1> QED BY <1>1, <1>2, <1>3, <1>4, <1>5, <1>6, <1>7 DEF Next

\* A step that posts nothing is a read of the room, a tick of the clock or none.
LEMMA OtherSteps ==
  ASSUME [Next]_vars, room' = room, TypeOK
  PROVE  \/ \E first, last \in 1 .. Len(room) : SyncOnce(first, last)
         \/ Tick
         \/ UNCHANGED vars
<1>1. ASSUME NEW row, Post(row)
      PROVE  FALSE
  BY <1>1 DEF Post, TypeOK
<1> QED BY <1>1 DEF Next, vars, PostTask, PostClaim, PostSubmission, PostDecision, Repost

-----------------------------------------------------------------------------

LEMMA InitIInv == Init => IInv
  BY DEF Init, IInv, TypeOK, RoomInv, ArchiveInv

LEMMA StepIInv == IInv /\ [Next]_vars => IInv'
<1> SUFFICES ASSUME IInv, [Next]_vars
             PROVE  IInv'
  OBVIOUS
<1> USE DEF IInv
<1>1. CASE room' # room
  <2>1. Next
    BY <1>1 DEF vars
  <2>2. PICK row \in Row : /\ room' = Append(room, row)
                           /\ row.seq = NextSeq /\ row.ts = now
                           /\ UNCHANGED <<archive, cursor, now>>
    BY <1>1, <2>1, PostedRow
  <2>3. TypeOK'
    BY <2>2 DEF TypeOK
  <2>4. /\ Len(room') = Len(room) + 1
        /\ room'[Len(room) + 1] = row
        /\ \A i \in 1 .. Len(room) : room'[i] = room[i]
    BY <2>2 DEF TypeOK
  <2>5. RoomInv'
    BY <2>2, <2>4 DEF RoomInv, TypeOK, NextSeq
  <2>6. ArchiveInv'
    BY <2>2, <2>4 DEF ArchiveInv, TypeOK
  <2> QED BY <2>3, <2>5, <2>6
<1>2. CASE room' = room /\ \E first, last \in 1 .. Len(room) : SyncOnce(first, last)
  <2>1. PICK first \in 1 .. Len(room), last \in 1 .. Len(room) : SyncOnce(first, last)
    BY <1>2
  <2> DEFINE reply == { room[i] : i \in first .. last }
  <2>2. /\ cursor < first /\ first <= last
        /\ archive' = Insert(reply)
        /\ cursor' = last
        /\ UNCHANGED <<room, now>>
    BY <2>1 DEF SyncOnce
  <2>3. \A e \in reply : e \in Row /\ e.seq \in first .. last /\ room[e.seq] = e
    BY DEF TypeOK, RoomInv
  <2> HIDE DEF reply
  <2>4. TypeOK'
    BY <2>2, <2>3 DEF TypeOK, Insert
  <2>5. RoomInv'
    BY <2>2 DEF RoomInv
  <2>6. \A e \in archive' : e.seq \in 1 .. cursor' /\ room'[e.seq] = e
    BY <2>2, <2>3 DEF ArchiveInv, Insert, TypeOK
  <2>7. \A e, f \in reply : e.seq = f.seq => e = f
    BY <2>3
  <2>8. ASSUME NEW e \in archive', NEW f \in archive', e.id = f.id
        PROVE  e = f
    <3>1. CASE e \in archive /\ f \in archive
      BY <3>1, <2>8 DEF ArchiveInv
    <3>2. CASE e \in archive /\ f \notin archive
      BY <3>2, <2>8, <2>2 DEF Insert
    <3>3. CASE e \notin archive /\ f \in archive
      BY <3>3, <2>8, <2>2 DEF Insert
    <3>4. CASE e \notin archive /\ f \notin archive
      <4>1. e.seq <= f.seq /\ f.seq <= e.seq /\ e \in reply /\ f \in reply
        BY <3>4, <2>8, <2>2 DEF Insert
      <4> QED BY <4>1, <2>3, <2>7
    <3> QED BY <3>1, <3>2, <3>3, <3>4
  <2> QED BY <2>4, <2>5, <2>6, <2>8 DEF ArchiveInv
<1>3. CASE Tick
  <2>1. now' = now + 1 /\ UNCHANGED <<room, archive, cursor>>
    BY <1>3 DEF Tick
  <2>2. TypeOK'
    BY <2>1 DEF TypeOK
  <2>3. \A i \in 1 .. Len(room) : room[i].ts \in Nat
    BY DEF TypeOK, Row, TaskRow, ClaimRow, SubmissionRow, DecisionRow
  <2>4. RoomInv'
    BY <2>1, <2>3 DEF RoomInv, TypeOK
  <2> QED BY <2>1, <2>2, <2>4 DEF ArchiveInv
<1>4. CASE UNCHANGED vars
  BY <1>4 DEF vars, TypeOK, RoomInv, ArchiveInv
<1> QED BY <1>1, <1>2, <1>3, <1>4, OtherSteps

\* The inductive invariant holds in every reachable state.
THEOREM Invariance == Spec => []IInv
  BY InitIInv, StepIInv, PTL DEF Spec

\* Every value keeps its type.
THEOREM TypeCorrect == Spec => []TypeOK
<1>1. IInv => TypeOK
  BY DEF IInv
<1> QED BY Invariance, <1>1, PTL

\* The archive never stores what the room does not hold, nothing past the cursor
\* and no event twice, whatever is retried, lost to retention or read in pages.
THEOREM ArchiveCorrect == Spec => []ArchiveInv
<1>1. IInv => ArchiveInv
  BY DEF IInv
<1> QED BY Invariance, <1>1, PTL

-----------------------------------------------------------------------------

\* Whatever a step archives is newer than all that was archived before, because
\* a read asks for what follows the cursor; so the rows a view is made of are the
\* old ones and newer ones.
LEMMA VisibleExtends ==
  ASSUME IInv, IInv', [Next]_vars
  PROVE  Numbered(Visible') /\ Extends(Visible', Visible)
<1> USE DEF IInv
<1>1. Numbered(archive')
  BY DEF Numbered, ArchiveInv, TypeOK
<1>2. Extends(archive', archive)
  <2>1. CASE room' # room
    <3>1. Next
      BY <2>1 DEF vars
    <3>2. archive' = archive
      BY <2>1, <3>1, PostedRow
    <3> QED BY <3>2 DEF Extends
  <2>2. CASE room' = room /\ \E first, last \in 1 .. Len(room) : SyncOnce(first, last)
    <3>1. PICK first \in 1 .. Len(room), last \in 1 .. Len(room) : SyncOnce(first, last)
      BY <2>2
    <3>2. \A e \in archive' \ archive : e.seq \in Nat /\ cursor < e.seq
      BY <3>1 DEF SyncOnce, Insert, RoomInv, TypeOK
    <3>3. \A f \in archive : f.seq \in Nat /\ f.seq <= cursor
      BY DEF ArchiveInv, TypeOK
    <3>4. archive \subseteq archive'
      BY <3>1 DEF SyncOnce, Insert
    <3>5. cursor \in Nat
      BY DEF TypeOK
    <3> QED BY <3>2, <3>3, <3>4, <3>5 DEF Extends
  <2>3. CASE archive' = archive
    BY <2>3 DEF Extends
  <2> QED BY <2>1, <2>2, <2>3, OtherSteps DEF Tick, vars
<1> QED BY <1>1, <1>2, RowsExtend DEF Visible

\* Rows of the archive are numbered and never lie past the cursor.
LEMMA VisibleBounded ==
  ASSUME IInv
  PROVE  /\ Numbered(Visible)
         /\ Visible \subseteq archive
         /\ \A e \in Visible : e \in Row /\ e.seq \in 1 .. Len(room) /\ room[e.seq] = e
         /\ \A e, f \in Visible : e.id = f.id => e = f
  BY DEF IInv, TypeOK, ArchiveInv, Numbered, Visible, Rows

\* Whether an archived submission counts is settled once and for all.
THEOREM ValidityFinal == Spec => ValidityIsFinal
<1>1. IInv /\ IInv' /\ [Next]_vars =>
        [\A s \in Visible : s.kind = "submission" =>
           /\ s \in Visible'
           /\ (s \in ValidSubmissions(Visible, s.taskId))
                <=> (s \in ValidSubmissions(Visible', s.taskId))]_vars
  <2> SUFFICES ASSUME IInv, IInv', [Next]_vars, NEW s \in Visible, s.kind = "submission"
               PROVE  /\ s \in Visible'
                      /\ (s \in ValidSubmissions(Visible, s.taskId))
                           <=> (s \in ValidSubmissions(Visible', s.taskId))
    OBVIOUS
  <2>1. Numbered(Visible') /\ Extends(Visible', Visible)
    BY VisibleExtends
  <2>2. s \in Visible'
    BY <2>1 DEF Extends
  <2>3. ValidSubmissions(Visible', s.taskId) \cap Visible = ValidSubmissions(Visible, s.taskId)
    BY <2>1, ValidExtends
  <2> QED BY <2>2, <2>3
<1> QED BY Invariance, <1>1, PTL DEF Spec, ValidityIsFinal

\* Two credited holders of one task never held it at the same time.
THEOREM OneHolder == Spec => []OneHolderAtATime
<1>1. IInv => OneHolderAtATime
  <2> SUFFICES ASSUME IInv, NEW t \in TaskIds,
                      NEW s1 \in ValidSubmissions(Visible, t),
                      NEW s2 \in ValidSubmissions(Visible, t),
                      s1.seq < s2.seq, s1.claimId # s2.claimId
               PROVE  \E c1, c2 \in Items(Visible, "claim", t) :
                        /\ c1.id = s1.claimId /\ c2.id = s2.claimId
                        /\ c1.seq < c2.seq
                        /\ c1.ts + c1.lease < s2.ts
    BY DEF OneHolderAtATime
  <2>1. /\ s1 \in Visible /\ s1.taskId = t
        /\ s2 \in Visible /\ s2.taskId = t
    BY DEF ValidSubmissions, Items
  <2>2. PICK c1 \in FirstOf(Standing(Visible, s1)) : c1.id = s1.claimId
    BY DEF ValidSubmissions, ValidClaim
  <2>3. PICK c2 \in FirstOf(Standing(Visible, s2)) : c2.id = s2.claimId
    BY DEF ValidSubmissions, ValidClaim
  <2>4. /\ c1 \in Items(Visible, "claim", t) /\ c1.seq < s1.seq
        /\ c1.ts + c1.lease >= s1.ts
        /\ c2 \in Items(Visible, "claim", t) /\ c2.seq < s2.seq
        /\ c2.ts + c2.lease >= s2.ts
    BY <2>1, <2>2, <2>3 DEF FirstOf, Standing
  <2>5. \A c \in {c1, c2} : c.seq \in Nat /\ c.ts \in Nat /\ c.lease \in Nat
    <3>1. \A c \in {c1, c2} : c \in Row /\ c.kind = "claim"
      BY <2>4, VisibleBounded DEF Items
    <3>2. \A c \in {c1, c2} : c \in ClaimRow
      BY <3>1 DEF Row, TaskRow, ClaimRow, SubmissionRow, DecisionRow
    <3> QED BY <3>2, BoardAssumption DEF ClaimRow
  <2>6. /\ s1.seq \in 1 .. Len(room) /\ room[s1.seq] = s1
        /\ s2.seq \in 1 .. Len(room) /\ room[s2.seq] = s2
    BY <2>1, VisibleBounded
  <2>7. s1.ts \in Nat /\ s2.ts \in Nat /\ s1.ts <= s2.ts
    <3>1. s1 \in Row /\ s2 \in Row
      BY <2>1, VisibleBounded
    <3>2. s1.ts \in Nat /\ s2.ts \in Nat
      BY <3>1 DEF Row, TaskRow, ClaimRow, SubmissionRow, DecisionRow
    <3> QED BY <2>6, <3>2 DEF IInv, RoomInv
  <2>8. c1 # c2
    BY <2>2, <2>3
  <2>9. c1.seq # c2.seq
    BY <2>4, <2>8, VisibleBounded DEF Items
  <2>10. c1.seq < c2.seq
    \* Otherwise c2 was before s1 with its lease still running, and would have won s1.
    <3> SUFFICES ASSUME c2.seq < c1.seq
                 PROVE  FALSE
      BY <2>5, <2>9
    <3>1. c2.seq < s1.seq /\ c2.ts + c2.lease >= s1.ts
      <4>1. s1.seq \in Nat /\ c1.seq < s1.seq
        BY <2>4, <2>6
      <4>2. c1.seq \in Nat /\ c2.seq \in Nat /\ c2.ts + c2.lease \in Nat
        BY <2>5
      <4>3. c2.seq < s1.seq
        BY <4>1, <4>2
      <4>4. c2.ts + c2.lease >= s1.ts
        BY <2>4, <2>7, <4>2
      <4> QED BY <4>3, <4>4
    <3>2. c2 \in Standing(Visible, s1)
      BY <3>1, <2>1, <2>4 DEF Standing
    <3> QED BY <3>2, <2>2, <2>5 DEF FirstOf
  <2>11. c1.ts + c1.lease < s2.ts
    \* Otherwise c1, which precedes c2, would have won s2.
    <3> SUFFICES ASSUME c1.ts + c1.lease >= s2.ts
                 PROVE  FALSE
      BY <2>5, <2>7
    <3>1. c1.seq < s2.seq
      BY <2>4, <2>5, <2>6
    <3>2. c1 \in Standing(Visible, s2)
      BY <3>1, <2>1, <2>4 DEF Standing
    <3> QED BY <3>2, <2>3, <2>5, <2>10 DEF FirstOf
  <2> QED BY <2>2, <2>3, <2>4, <2>10, <2>11
<1> QED BY Invariance, <1>1, PTL

-----------------------------------------------------------------------------

\* What the rows say of a task's status, before and after a step.
LEMMA VisibleStatus ==
  ASSUME IInv, NEW t
  PROVE  LET status == Status(Visible, t, now)
         IN /\ status \in Verdicts <=> ValidDecisions(Visible, t) # {}
            /\ status = "submitted" <=> /\ ValidDecisions(Visible, t) = {}
                                        /\ ValidSubmissions(Visible, t) # {}
            /\ status \in Verdicts =>
                 \E d \in ValidDecisions(Visible, t) : d.verdict = status
<1>1. Len(room) \in Nat
  BY DEF IInv, TypeOK
<1>2. Numbered(Visible) /\ \A e \in Visible : e.seq <= Len(room)
  BY VisibleBounded
<1>3. \A e \in Visible : e.kind = "decision" => e.verdict \in {"accepted", "rejected"}
  BY VisibleBounded DEF Row, TaskRow, ClaimRow, SubmissionRow, DecisionRow, Verdicts
<1> QED BY <1>1, <1>2, <1>3, StatusMeaning DEF Verdicts

LEMMA VisibleStatusNext ==
  ASSUME IInv', NEW t
  PROVE  LET status == Status(Visible', t, now')
         IN /\ status \in Verdicts <=> ValidDecisions(Visible', t) # {}
            /\ status = "submitted" <=> /\ ValidDecisions(Visible', t) = {}
                                        /\ ValidSubmissions(Visible', t) # {}
<1>1. Len(room') \in Nat
  BY DEF IInv, TypeOK
<1>2. \A e \in Visible' : e \in Row /\ e.seq \in Nat /\ e.seq <= Len(room')
  BY DEF IInv, TypeOK, ArchiveInv, Visible, Rows
<1>3. \A e \in Visible' : e.kind = "decision" => e.verdict \in {"accepted", "rejected"}
  BY <1>2 DEF Row, TaskRow, ClaimRow, SubmissionRow, DecisionRow, Verdicts
<1> QED BY <1>1, <1>2, <1>3, StatusMeaning DEF Verdicts, Numbered

\* A submitted task is never offered again and a decided one stays decided.
THEOREM ProgressKept == Spec => ProgressIsKept
<1>1. IInv /\ IInv' /\ [Next]_vars =>
        [\A t \in TaskIds :
           LET before == Status(Visible, t, now)
               after == Status(Visible, t, now)'
           IN /\ before = "submitted" => after \in {"submitted"} \cup Verdicts
              /\ before \in Verdicts => after \in Verdicts]_vars
  <2> SUFFICES ASSUME IInv, IInv', [Next]_vars, NEW t \in TaskIds
               PROVE  LET before == Status(Visible, t, now)
                          after == Status(Visible', t, now')
                      IN /\ before = "submitted" => after \in {"submitted"} \cup Verdicts
                         /\ before \in Verdicts => after \in Verdicts
    OBVIOUS
  <2>1. /\ ValidSubmissions(Visible, t) \subseteq ValidSubmissions(Visible', t)
        /\ ValidDecisions(Visible, t) \subseteq ValidDecisions(Visible', t)
    BY VisibleExtends, ValidExtends
  <2>2. LET after == Status(Visible', t, now')
        IN /\ after \in Verdicts <=> ValidDecisions(Visible', t) # {}
           /\ after = "submitted" <=> /\ ValidDecisions(Visible', t) = {}
                                      /\ ValidSubmissions(Visible', t) # {}
    BY VisibleStatusNext
  <2> QED BY <2>1, <2>2, VisibleStatus
<1> QED BY Invariance, <1>1, PTL DEF Spec, ProgressIsKept

\* A verdict is shown only at the end of a complete chain of events.
THEOREM DecidedChain == Spec => []DecidedTaskHasItsChain
<1>1. IInv => DecidedTaskHasItsChain
  <2> SUFFICES ASSUME IInv, NEW t \in TaskIds, Status(Visible, t, now) \in Verdicts
               PROVE  \E p, c, s, d \in Visible :
                        /\ <<p.kind, c.kind, s.kind, d.kind>>
                             = <<"task", "claim", "submission", "decision">>
                        /\ {p.taskId, c.taskId, s.taskId, d.taskId} = {t}
                        /\ p.seq < c.seq /\ c.seq < s.seq /\ p.seq < d.seq
                        /\ s.claimId = c.id /\ s.author = c.author
                        /\ s.ts <= c.ts + c.lease
                        /\ d.submissionId = s.id /\ d.author = p.author
                        /\ d.verdict = Status(Visible, t, now)
    BY DEF DecidedTaskHasItsChain
  <2>1. PICK d \in ValidDecisions(Visible, t) : d.verdict = Status(Visible, t, now)
    BY VisibleStatus
  <2>2. PICK s \in ValidSubmissions(Visible, t) : d.submissionId = s.id
    BY DEF ValidDecisions
  <2>3. PICK q \in Posting(Visible, t) : d.author = q.author
    BY DEF ValidDecisions
  <2>4. /\ d \in Visible /\ d.kind = "decision" /\ d.taskId = t
        /\ s \in Visible /\ s.kind = "submission" /\ s.taskId = t
    BY DEF ValidDecisions, ValidSubmissions, Items
  <2>5. PICK c \in FirstOf(Standing(Visible, s)) : c.id = s.claimId /\ c.author = s.author
    BY DEF ValidSubmissions, ValidClaim
  <2>6. /\ c \in Items(Visible, "claim", t) /\ c.seq < s.seq
        /\ c.ts + c.lease >= s.ts
    BY <2>4, <2>5 DEF FirstOf, Standing
  <2>7. PICK p \in Posting(Visible, t) : p.seq < c.seq
    BY <2>6 DEF Items
  <2>8. PICK r \in Posting(Visible, t) : r.seq < d.seq
    BY DEF ValidDecisions, Items
  <2>9. p = q /\ p = r /\ p \in Visible /\ p.kind = "task" /\ p.id = t
    BY VisibleBounded DEF Posting, FirstOf
  <2>10. p.taskId = t
    <3>1. p \in TaskRow
      BY <2>9, VisibleBounded DEF Row, TaskRow, ClaimRow, SubmissionRow, DecisionRow
    <3> QED BY <3>1, <2>9 DEF TaskRow
  <2> QED BY <2>1, <2>2, <2>3, <2>4, <2>5, <2>6, <2>7, <2>8, <2>9, <2>10 DEF Items
<1> QED BY Invariance, <1>1, PTL

\* The holder that the local clock shows is the one the submission rule accepts,
\* but for the instant at which a lease runs out.
THEOREM ActiveHolder == Spec => []ActiveHolderCanSubmit
<1>1. IInv => ActiveHolderCanSubmit
  <2> SUFFICES ASSUME IInv, NEW t \in TaskIds, NEW c \in ActiveClaim(Visible, t, now),
                      \A b \in Items(Visible, "claim", t) : b.ts + b.lease # now
               PROVE  ValidClaim(Visible,
                        [kind |-> "submission", id |-> NextSeq, taskId |-> t,
                         author |-> c.author, claimId |-> c.id, seq |-> NextSeq, ts |-> now])
    BY DEF ActiveHolderCanSubmit
  <2> DEFINE s == [kind |-> "submission", id |-> NextSeq, taskId |-> t,
                   author |-> c.author, claimId |-> c.id, seq |-> NextSeq, ts |-> now]
             running == { b \in Items(Visible, "claim", t) : b.ts + b.lease > now }
  <2>1. ASSUME NEW b \in Items(Visible, "claim", t)
        PROVE  b.seq < NextSeq /\ (b.ts + b.lease >= now <=> b.ts + b.lease > now)
    <3>1. b \in Row /\ b.kind = "claim" /\ b.seq \in 1 .. Len(room)
      BY VisibleBounded DEF Items
    <3>2. b \in ClaimRow
      BY <3>1 DEF Row, TaskRow, ClaimRow, SubmissionRow, DecisionRow
    <3>3. b.ts \in Nat /\ b.lease \in Nat
      BY <3>2, BoardAssumption DEF ClaimRow
    <3>4. now \in Nat /\ Len(room) \in Nat
      BY DEF IInv, TypeOK
    <3>5. b.ts + b.lease # now
      OBVIOUS
    <3> QED BY <3>1, <3>3, <3>4, <3>5 DEF NextSeq
  <2>2. s.taskId = t /\ s.seq = NextSeq /\ s.ts = now /\ s.claimId = c.id /\ s.author = c.author
    OBVIOUS
  <2> HIDE DEF s
  <2>3. Standing(Visible, s) = running
    BY <2>1, <2>2 DEF Standing
  <2>4. c \in FirstOf(Standing(Visible, s))
    BY <2>3 DEF ActiveClaim
  <2>5. ValidClaim(Visible, s)
    BY <2>2, <2>4 DEF ValidClaim
  <2> QED BY <2>5 DEF s
<1> QED BY Invariance, <1>1, PTL

-----------------------------------------------------------------------------
\* Where the worker is.

OnTask == {"claim", "confirm", "work", "sent"}
OnClaim == {"confirm", "work", "sent"}

\* A turn is that of an agent of the queue; its claim is in the room, on its task.
TurnInv ==
  /\ at \in OnTask => queue # {} /\ task \in TaskIds
  /\ at \in OnClaim => /\ claim \in InRoom("claim")
                       /\ room[claim].author = agent /\ room[claim].taskId = task
  /\ at \in {"idle", "sync", "off"} => queue = {}

\* Nobody repeats an event here, so that but for tasks the id of a message is its seq.
IdsInv == \A i \in 1 .. Len(room) : room[i].kind # "task" => room[i].id = i

\* What an agent of this runtime submits is on an earlier claim on the same task.
SubmissionsInv ==
  \A i \in InRoom("submission") : room[i].author \in Agents =>
    LET c == room[i].claimId
    IN c \in InRoom("claim") /\ c < i /\ room[c].taskId = room[i].taskId

Base == IInv /\ WorkerTypeOK /\ TurnInv /\ IdsInv /\ SubmissionsInv

\* An agent's turn is the turn of one in the queue.
LEMMA AgentIsThere ==
  ASSUME WorkerTypeOK, queue # {}
  PROVE  agent \in queue /\ agent \in Agents /\ agent \in Dids
<1> DEFINE N == { CreatedAt[a] : a \in queue }
<1>1. queue \subseteq Agents /\ CreatedAt \in [Agents -> Nat] /\ Agents \subseteq Dids
  BY WorkerAssumption DEF WorkerTypeOK
<1>2. N \subseteq Nat /\ N # {}
  BY <1>1
<1> HIDE DEF N
<1>3. PICK m \in N : \A k \in N : m <= k
  BY <1>2, LeastExists
<1>4. PICK a \in queue : CreatedAt[a] = m
  BY <1>3 DEF N
<1>5. \A b \in queue : CreatedAt[a] <= CreatedAt[b]
  BY <1>3, <1>4 DEF N
<1>6. agent \in queue
  BY <1>4, <1>5 DEF agent
<1> QED BY <1>1, <1>6

LEMMA SameAgent == ASSUME queue' = queue PROVE agent' = agent
  BY DEF agent

\* The messages of a step of the worker or around it.
NewRow(row) ==
  /\ row.kind # "task" => row.id = NextSeq
  /\ row.kind = "submission" /\ row.author \in Agents =>
       row.claimId \in InRoom("claim") /\ room[row.claimId].taskId = row.taskId

LEMMA PostsClaim ==
  ASSUME NEW d \in Dids, NEW t \in TaskIds, NEW l \in Leases, PostClaim(d, t, l)
  PROVE  /\ Next
         /\ \E row : room' = Append(room, row) /\ NewRow(row) /\ row.kind = "claim"
                     /\ row.author = d /\ row.taskId = t
         /\ UNCHANGED <<archive, cursor, now>>
<1> DEFINE row == [kind |-> "claim", id |-> NextSeq, taskId |-> t, author |-> d,
                   lease |-> l, seq |-> NextSeq, ts |-> now]
<1>1. room' = Append(room, row) /\ UNCHANGED <<archive, cursor, now>>
  BY DEF PostClaim, Post
<1>2. NewRow(row) /\ row.kind = "claim" /\ row.author = d /\ row.taskId = t
  BY DEF NewRow
<1>3. Next
  BY DEF Next
<1> HIDE DEF row
<1> QED BY <1>1, <1>2, <1>3

LEMMA PostsSubmission ==
  ASSUME IdsInv, NEW d \in Dids, NEW t \in TaskIds, NEW c \in InRoom("claim"), PostSubmission(d, t, c),
         d \in Agents => room[c].taskId = t
  PROVE  /\ Next
         /\ \E row : room' = Append(room, row) /\ NewRow(row)
         /\ UNCHANGED <<archive, cursor, now>>
<1> DEFINE row == [kind |-> "submission", id |-> NextSeq, taskId |-> t, author |-> d,
                   claimId |-> room[c].id, seq |-> NextSeq, ts |-> now]
<1>1. room' = Append(room, row) /\ UNCHANGED <<archive, cursor, now>>
  BY DEF PostSubmission, Post
<1>2. room[c].id = c
  BY DEF IdsInv, InRoom
<1>3. NewRow(row)
  BY <1>2 DEF NewRow
<1>4. Next
  BY DEF Next
<1> HIDE DEF row
<1> QED BY <1>1, <1>3, <1>4

LEMMA PostsTask ==
  ASSUME NEW d \in Dids, NEW t \in TaskIds, NEW x \in Expiries, PostTask(d, t, x)
  PROVE  Next /\ (\E row : room' = Append(room, row) /\ NewRow(row))
<1> DEFINE row == [kind |-> "task", id |-> t, taskId |-> t, author |-> d,
                   expiresAt |-> x, seq |-> NextSeq, ts |-> now]
<1>1. room' = Append(room, row)
  BY DEF PostTask, Post
<1>2. NewRow(row)
  BY DEF NewRow
<1>3. Next
  BY DEF Next
<1> HIDE DEF row
<1> QED BY <1>1, <1>2, <1>3

\* Every step is one of the board or leaves it alone.
LEMMA BoardSteps ==
  ASSUME Base, [WorkerNext]_allVars
  PROVE  /\ [Next]_vars
         /\ UNCHANGED room \/ \E row : room' = Append(room, row) /\ NewRow(row)
<1>1. CASE UNCHANGED board
  BY <1>1 DEF board, vars
<1>2. CASE BoardStep
  <2>1. ASSUME NEW d \in Requesters, NEW t \in TaskIds, NEW x \in Expiries, PostTask(d, t, x)
        PROVE  Next /\ \E row : room' = Append(room, row) /\ NewRow(row)
    BY <2>1, PostsTask, WorkerAssumption
  <2>2. ASSUME NEW d \in Rivals, NEW t \in TaskIds, NEW l \in Leases, PostClaim(d, t, l)
        PROVE  Next /\ \E row : room' = Append(room, row) /\ NewRow(row)
    BY <2>2, PostsClaim, WorkerAssumption
  <2>3. ASSUME NEW d \in Rivals, NEW t \in TaskIds, NEW c \in InRoom("claim"), PostSubmission(d, t, c)
        PROVE  Next /\ \E row : room' = Append(room, row) /\ NewRow(row)
    BY <2>3, PostsSubmission, WorkerAssumption DEF Base
  <2>4. ASSUME NEW i \in 1 .. Len(room), NEW j \in 1 .. Len(room), SyncOnce(i, j)
        PROVE  Next /\ UNCHANGED room
    BY <2>4 DEF Next, SyncOnce
  <2>5. ASSUME Tick PROVE Next /\ UNCHANGED room
    BY <2>5 DEF Next, Tick
  <2> QED BY <1>2, <2>1, <2>2, <2>3, <2>4, <2>5 DEF BoardStep
<1>3. CASE PublishClaim /\ at = "claim"
  <2>1. agent \in Dids /\ task \in TaskIds /\ WorkerLease \in Leases
    BY <1>3, AgentIsThere, WorkerAssumption DEF Base, TurnInv, OnTask
  <2> QED BY <1>3, <2>1, PostsClaim DEF PublishClaim
<1>4. CASE SubmissionPosted
  <2>1. /\ agent \in Dids /\ task \in TaskIds /\ claim \in InRoom("claim")
        /\ room[claim].taskId = task /\ PostSubmission(agent, task, claim)
    BY <1>4, AgentIsThere DEF SubmissionPosted, Base, TurnInv, OnTask, OnClaim
  <2> QED BY <2>1, PostsSubmission DEF Base
<1> QED
  BY <1>1, <1>2, <1>3, <1>4
  DEF WorkerNext, Scan, StartScan, ReadViews, EndScan, Pass, Choose, ClaimPosted, ClaimFails, BeginWork,
      ClaimNotWon, WorkFails, SubmissionAcknowledged, Pause, Resume, Crash, Restart, allVars

-----------------------------------------------------------------------------
\* Types, and where the worker is.

LEMMA DayType == ASSUME NEW n \in Nat PROVE Day(n) \in Nat
  BY WorkerAssumption DEF Day

LEMMA DayGrows == ASSUME NEW n \in Nat, NEW m \in Nat, n <= m PROVE Day(n) <= Day(m)
  BY WorkerAssumption DEF Day

\* What is in the room stays there.
LEMMA RoomGrows ==
  ASSUME Base, [WorkerNext]_allVars
  PROVE  /\ \A i \in 1 .. Len(room) : i \in 1 .. Len(room') /\ room'[i] = room[i]
         /\ \A kind : InRoom(kind) \subseteq InRoom(kind)'
<1>1. \A i \in 1 .. Len(room) : i \in 1 .. Len(room') /\ room'[i] = room[i]
  BY BoardSteps DEF Base, IInv, TypeOK
<1> QED BY <1>1 DEF InRoom

LEMMA IdsStep ==
  ASSUME Base, [WorkerNext]_allVars
  PROVE  IInv' /\ IdsInv' /\ SubmissionsInv'
<1>1. IInv'
  BY BoardSteps, StepIInv DEF Base
<1>2. CASE UNCHANGED room
  BY <1>1, <1>2 DEF Base, IdsInv, SubmissionsInv, InRoom
<1>3. ASSUME NEW row, room' = Append(room, row), NewRow(row)
      PROVE  IdsInv' /\ SubmissionsInv'
  <2>1. /\ Len(room') = Len(room) + 1 /\ room'[Len(room) + 1] = row /\ Len(room) \in Nat
        /\ \A i \in 1 .. Len(room) : room'[i] = room[i]
    BY <1>3 DEF Base, IInv, TypeOK
  <2>2. IdsInv'
    BY <1>3, <2>1 DEF Base, IdsInv, NewRow, NextSeq
  <2>3. SubmissionsInv'
    <3> SUFFICES ASSUME NEW i \in InRoom("submission")', room'[i].author \in Agents
                 PROVE  /\ room'[i].claimId \in InRoom("claim")' /\ room'[i].claimId < i
                        /\ room'[room'[i].claimId].taskId = room'[i].taskId
      BY DEF SubmissionsInv
    <3>1. i \in 1 .. Len(room) + 1 /\ room'[i].kind = "submission"
      BY <2>1 DEF InRoom
    <3>2. CASE i \in 1 .. Len(room)
      <4>1. i \in InRoom("submission") /\ room[i].author \in Agents /\ room'[i] = room[i]
        BY <2>1, <3>1, <3>2 DEF InRoom
      <4>2. /\ room[i].claimId \in InRoom("claim") /\ room[i].claimId < i
            /\ room[room[i].claimId].taskId = room[i].taskId
        BY <4>1 DEF Base, SubmissionsInv
      <4>3. room[i].claimId \in InRoom("claim")' /\ room'[room[i].claimId] = room[room[i].claimId]
        BY <4>2, <2>1, RoomGrows DEF InRoom
      <4> QED BY <4>1, <4>2, <4>3
    <3>3. CASE i = Len(room) + 1
      <4>1. row.claimId \in InRoom("claim") /\ room[row.claimId].taskId = row.taskId
        BY <1>3, <2>1, <3>1, <3>3 DEF NewRow
      <4>2. row.claimId \in InRoom("claim")' /\ room'[row.claimId] = room[row.claimId] /\ row.claimId < i
        BY <4>1, <2>1, <3>3, RoomGrows DEF InRoom
      <4> QED BY <2>1, <3>3, <4>1, <4>2
    <3> QED BY <3>1, <3>2, <3>3, <2>1
  <2> QED BY <2>2, <2>3
<1> QED BY <1>1, <1>2, <1>3, BoardSteps

Phases == {"idle", "sync", "turn", "claim", "confirm", "work", "sent", "off"}

LEMMA TypeStep ==
  ASSUME Base, [WorkerNext]_allVars
  PROVE  WorkerTypeOK'
<1>1. TypeOK' /\ now \in Nat
  BY IdsStep DEF Base, IInv, TypeOK
<1>2. executions' \subseteq Execution /\ \A e \in executions' : e.claim \in InRoom("claim")'
  <2>1. InRoom("claim") \subseteq InRoom("claim")' /\ InRoom("claim") \subseteq Nat
    BY RoomGrows DEF InRoom
  <2>2. CASE UNCHANGED executions
    BY <2>1, <2>2 DEF Base, WorkerTypeOK
  <2>3. CASE BeginWork
    <3>1. agent \in Agents /\ task \in TaskIds /\ claim \in InRoom("claim")
          /\ executions' = executions \cup {NewExecution(claim)}
      BY <2>3, AgentIsThere DEF BeginWork, Base, TurnInv, OnTask, OnClaim
    <3>2. NewExecution(claim) \in Execution /\ NewExecution(claim).claim = claim
      BY <1>1, <2>1, <3>1 DEF NewExecution, Execution, None
    <3> QED BY <2>1, <3>1, <3>2 DEF Base, WorkerTypeOK
  <2>4. ASSUME NEW s \in {"submitted", "failed"}, NEW n \in Nat, Finish(s, n)
        PROVE  executions' \subseteq Execution /\ \A e \in executions' : e.claim \in InRoom("claim")
    BY <2>4 DEF Finish, Base, WorkerTypeOK, Execution
  <2>5. CASE WorkFails
    BY <2>1, <2>4, <2>5 DEF WorkFails, None
  <2>6. ASSUME NEW s \in InRoom("submission"), SubmissionAcknowledged(s) PROVE Finish("submitted", s) /\ s \in Nat
    BY <2>6 DEF SubmissionAcknowledged, InRoom
  <2> QED
    BY <2>1, <2>2, <2>3, <2>4, <2>5, <2>6
    DEF WorkerNext, Scan, StartScan, ReadViews, EndScan, Pass, Choose, ClaimPosted, ClaimFails,
        ClaimNotWon, SubmissionPosted, BoardStep, Pause, Resume, Crash, Restart, allVars, workerVars
<1>3. enabled' \subseteq Agents /\ queue' \subseteq Agents /\ offers' \subseteq TaskIds
  BY DEF Base, WorkerTypeOK, WorkerNext, Scan, StartScan, ReadViews, EndScan, Pass, Choose, ClaimPosted,
         ClaimFails, BeginWork, ClaimNotWon, SubmissionPosted, WorkFails, SubmissionAcknowledged, NextAgent,
         BoardStep, Pause, Resume, Crash, Restart, allVars, workerVars, turn
<1>4. at' \in Phases /\ scanDay' \in Nat
  <2>1. Day(now) \in Nat
    BY <1>1, DayType
  <2> QED
    BY <2>1
    DEF Base, WorkerTypeOK, WorkerNext, Scan, StartScan, ReadViews, EndScan, Pass, Choose, ClaimPosted,
        ClaimFails, BeginWork, ClaimNotWon, SubmissionPosted, WorkFails, SubmissionAcknowledged, NextAgent,
        BoardStep, Pause, Resume, Crash, Restart, allVars, workerVars, turn, Phases
<1>5. task' \in TaskIds \cup {None} /\ claim' \in Nat
  <2>1. NextSeq \in Nat /\ 0 \in Nat
    BY DEF Base, IInv, TypeOK, NextSeq
  <2>2. ASSUME NEW t \in TaskIds, Choose(t) PROVE task' \in TaskIds /\ claim' = claim
    BY <2>2 DEF Choose
  <2> QED
    BY <2>1, <2>2
    DEF Base, WorkerTypeOK, WorkerNext, Scan, StartScan, ReadViews, EndScan, Pass, ClaimPosted,
        ClaimFails, BeginWork, ClaimNotWon, SubmissionPosted, WorkFails, SubmissionAcknowledged, NextAgent,
        BoardStep, Pause, Resume, Crash, Restart, allVars, workerVars, turn, None
<1>6. pauses' \in 0 .. MaxPauses /\ crashes' \in 0 .. MaxCrashes
  BY WorkerAssumption
  DEF Base, WorkerTypeOK, WorkerNext, Scan, StartScan, ReadViews, EndScan, Pass, Choose, ClaimPosted,
      ClaimFails, BeginWork, ClaimNotWon, SubmissionPosted, WorkFails, SubmissionAcknowledged, NextAgent,
      BoardStep, Pause, Resume, Crash, Restart, allVars, workerVars
<1>7. issued' \in [Agents -> Nat]
  <2>1. ASSUME NEW t \in TaskIds, Choose(t) PROVE issued' \in [Agents -> Nat]
    <3>1. agent \in Agents
      BY <2>1, AgentIsThere DEF Choose, Base
    <3> QED BY <2>1, <3>1 DEF Choose, Base, WorkerTypeOK
  <2>2. ASSUME NEW a \in Agents, Resume(a) PROVE issued' \in [Agents -> Nat]
    BY <2>2 DEF Resume, Base, WorkerTypeOK
  <2>3. CASE UNCHANGED issued
    BY <2>3 DEF Base, WorkerTypeOK
  <2> QED
    BY <2>1, <2>2, <2>3
    DEF WorkerNext, Scan, StartScan, ReadViews, EndScan, Pass, ClaimPosted,
        ClaimFails, BeginWork, ClaimNotWon, SubmissionPosted, WorkFails, SubmissionAcknowledged,
        BoardStep, Pause, Crash, Restart, allVars, workerVars
<1> QED BY <1>1, <1>2, <1>3, <1>4, <1>5, <1>6, <1>7 DEF WorkerTypeOK, Phases

LEMMA TurnStep ==
  ASSUME Base, [WorkerNext]_allVars
  PROVE  TurnInv'
<1>1. CASE /\ UNCHANGED turn /\ (at \in OnTask <=> at' \in OnTask) /\ (at' \in OnClaim => at \in OnClaim)
           /\ at' \in {"idle", "sync", "off"} => at \in {"idle", "sync", "off"}
  <2>1. at' \in OnClaim => /\ claim \in InRoom("claim") /\ room[claim].author = agent
                           /\ room[claim].taskId = task
    BY <1>1 DEF Base, TurnInv
  <2>2. at' \in OnClaim => claim' \in InRoom("claim")' /\ room'[claim'] = room[claim]
    BY <1>1, <2>1, RoomGrows DEF turn, InRoom
  <2>3. agent' = agent
    BY <1>1, SameAgent DEF turn
  <2> QED BY <1>1, <2>1, <2>2, <2>3 DEF turn, Base, TurnInv
<1>2. CASE at' = "turn"
  BY <1>2 DEF TurnInv, OnTask, OnClaim
<1>3. CASE at' \in {"idle", "sync", "off"} /\ queue' = {}
  BY <1>3 DEF TurnInv, OnTask, OnClaim
<1>4. ASSUME NEW t \in TaskIds, Choose(t) PROVE TurnInv'
  BY <1>4 DEF Choose, TurnInv, OnTask, OnClaim
<1>5. CASE ClaimPosted
  <2>1. /\ at = "claim" /\ at' = "confirm" /\ PublishClaim /\ claim' = NextSeq
        /\ UNCHANGED <<queue, task>>
    BY <1>5 DEF ClaimPosted
  <2>2. queue # {} /\ task \in TaskIds /\ agent \in Dids /\ WorkerLease \in Leases
    BY <2>1, AgentIsThere, WorkerAssumption DEF Base, TurnInv, OnTask
  <2>3. PICK row : /\ room' = Append(room, row) /\ row.kind = "claim"
                   /\ row.author = agent /\ row.taskId = task
    BY <2>1, <2>2, PostsClaim DEF PublishClaim
  <2>4. claim' \in InRoom("claim")' /\ room'[claim'] = row
    BY <2>1, <2>3 DEF NextSeq, InRoom, Base, IInv, TypeOK
  <2>5. agent' = agent
    BY <2>1, SameAgent
  <2> QED BY <2>1, <2>2, <2>3, <2>4, <2>5 DEF TurnInv, OnTask, OnClaim
<1>6. CASE BeginWork \/ SubmissionPosted
  BY <1>1, <1>6 DEF BeginWork, SubmissionPosted, OnTask, OnClaim
<1>7. CASE Restart \/ StartScan \/ EndScan \/ Crash
  BY <1>3, <1>7 DEF Restart, StartScan, EndScan, Crash, turn, Base, TurnInv
<1>8. CASE ReadViews \/ Pass \/ ClaimFails \/ ClaimNotWon \/ WorkFails
           \/ \E s \in InRoom("submission") : SubmissionAcknowledged(s)
  BY <1>2, <1>8 DEF ReadViews, Pass, ClaimFails, ClaimNotWon, WorkFails, SubmissionAcknowledged, NextAgent
<1>9. CASE UNCHANGED <<turn, at>>
  BY <1>1, <1>9
<1>10. CASE BoardStep \/ (\E a \in Agents : Pause(a) \/ Resume(a)) \/ UNCHANGED allVars
  BY <1>9, <1>10 DEF BoardStep, Pause, Resume, allVars, workerVars
<1> QED BY <1>4, <1>5, <1>6, <1>7, <1>8, <1>10 DEF WorkerNext, Scan

LEMMA BaseStep ==
  ASSUME Base, [WorkerNext]_allVars
  PROVE  Base' /\ [Next]_vars
  BY IdsStep, TypeStep, TurnStep, BoardSteps DEF Base

LEMMA BaseInit ==
  ASSUME WorkerInit
  PROVE  Base
<1>1. IInv
  BY InitIInv DEF WorkerInit
<1>2. Len(room) = 0 /\ \A kind : InRoom(kind) = {}
  BY DEF WorkerInit, Init, InRoom
<1>3. WorkerTypeOK
  BY <1>1, WorkerAssumption DEF WorkerInit, IInv, WorkerTypeOK, None
<1>4. TurnInv /\ IdsInv /\ SubmissionsInv
  BY <1>2 DEF WorkerInit, TurnInv, OnTask, OnClaim, IdsInv, SubmissionsInv
<1> QED BY <1>1, <1>3, <1>4 DEF Base

\* What every later argument about the worker rests on: the types, what is known of the
\* turn under way at each of its awaits, and that ids posted in the room are not reused.
THEOREM BaseInvariance == WorkerSpec => []Base
  BY BaseInit, BaseStep, PTL DEF WorkerSpec

\* Every variable of the worker keeps its type, and an execution is on a claim in the
\* room, whatever is posted, lost, paused or cut short by a crash.
THEOREM WorkerTypeCorrect == WorkerSpec => []WorkerTypeOK
<1>1. Base => WorkerTypeOK
  BY DEF Base
<1> QED BY <1>1, BaseInvariance, PTL

\* The worker and its surroundings do on the board only what the board's participants
\* may do: all theorems of the board hold while the agents work.
THEOREM WorkerImplementsBoard == WorkerSpec => Spec
<1>1. WorkerInit => Init
  BY DEF WorkerInit
<1>2. Base /\ [WorkerNext]_allVars => [Next]_vars
  BY BaseStep
<1> QED BY <1>1, <1>2, BaseInvariance, PTL DEF WorkerSpec, Spec

-----------------------------------------------------------------------------
\* Pauses.

\* A paused agent still to have its turn has had no claim issued, but for the claim of
\* the turn that is under way.
PauseInv ==
  /\ \A a \in enabled : issued[a] = 0
  /\ \A a \in Agents : issued[a] <= 1
  /\ \A a \in queue : issued[a] = 0 \/ (at \in OnTask /\ a = agent)

LEMMA PauseStep ==
  ASSUME Base, PauseInv, [WorkerNext]_allVars
  PROVE  PauseInv'
<1>1. ASSUME NEW t \in TaskIds, Choose(t) PROVE PauseInv'
  <2>1. /\ at = "turn" /\ queue # {} /\ at' = "claim" /\ UNCHANGED <<enabled, queue>>
        /\ issued' = IF agent \in enabled THEN issued ELSE [issued EXCEPT ![agent] = @ + 1]
    BY <1>1 DEF Choose
  <2>2. agent \in queue /\ agent \in Agents /\ issued[agent] = 0
    BY <2>1, AgentIsThere DEF Base, PauseInv, OnTask
  <2>3. \A a \in Agents : issued'[a] = IF a = agent /\ agent \notin enabled THEN 1 ELSE issued[a]
    BY <2>1, <2>2 DEF Base, WorkerTypeOK
  <2>4. agent' = agent
    BY <2>1, SameAgent
  <2>5. enabled \subseteq Agents /\ queue \subseteq Agents
    BY DEF Base, WorkerTypeOK
  <2> QED BY <2>1, <2>2, <2>3, <2>4, <2>5 DEF PauseInv, OnTask
<1>2. ASSUME NEW b \in Agents, Resume(b) PROVE PauseInv'
  <2>1. /\ enabled' = enabled \cup {b} /\ issued' = [issued EXCEPT ![b] = 0] /\ UNCHANGED <<queue, at>>
    BY <1>2 DEF Resume, turn
  <2>2. \A a \in Agents : issued'[a] = IF a = b THEN 0 ELSE issued[a]
    BY <2>1 DEF Base, WorkerTypeOK
  <2>3. agent' = agent
    BY <2>1, SameAgent
  <2>4. enabled \subseteq Agents /\ queue \subseteq Agents
    BY DEF Base, WorkerTypeOK
  <2> QED BY <2>1, <2>2, <2>3, <2>4 DEF PauseInv
<1>3. CASE UNCHANGED issued /\ enabled' \subseteq enabled /\ queue' = queue /\ (at \in OnTask => at' \in OnTask)
  BY <1>3, SameAgent DEF PauseInv
<1>4. CASE UNCHANGED <<issued, enabled>> /\ queue' = queue \ {agent}
  BY <1>4 DEF PauseInv
<1>5. CASE UNCHANGED <<issued, enabled>> /\ queue' \subseteq enabled
  BY <1>5 DEF PauseInv
<1>6. CASE StartScan \/ ReadViews \/ EndScan \/ Crash \/ Restart
  BY <1>3, <1>5, <1>6 DEF StartScan, ReadViews, EndScan, Crash, Restart, turn, OnTask
<1>7. CASE Pass \/ ClaimFails \/ ClaimNotWon \/ WorkFails
           \/ \E s \in InRoom("submission") : SubmissionAcknowledged(s)
  BY <1>4, <1>7 DEF Pass, ClaimFails, ClaimNotWon, WorkFails, SubmissionAcknowledged, NextAgent
<1>8. CASE ClaimPosted \/ BeginWork \/ SubmissionPosted \/ BoardStep \/ (\E a \in Agents : Pause(a))
           \/ UNCHANGED allVars
  BY <1>3, <1>8 DEF ClaimPosted, BeginWork, SubmissionPosted, BoardStep, Pause, allVars, workerVars, turn, OnTask
<1> QED BY <1>1, <1>2, <1>6, <1>7, <1>8 DEF WorkerNext, Scan

\* One claim more at most is issued for a paused agent, for any number of agents, scans
\* and pauses.
THEOREM PauseHolds == WorkerSpec => []PauseTakesEffect
<1>1. WorkerInit => PauseInv
  BY WorkerAssumption DEF WorkerInit, PauseInv
<1>2. Base /\ PauseInv /\ [WorkerNext]_allVars => PauseInv'
  BY PauseStep
<1>3. PauseInv => PauseTakesEffect
  BY DEF PauseInv, PauseTakesEffect
<1> QED BY <1>1, <1>2, <1>3, BaseInvariance, PTL DEF WorkerSpec

-----------------------------------------------------------------------------
\* What an execution is based on.

\* The view showed the claim c on t, and showed no older one whose lease ran at d.
Held(c, t, d) ==
  /\ room[c] \in Items(Visible, "claim", t)
  /\ \A b \in Items(Visible, "claim", t) : b.seq < c => b.ts + b.lease <= d

OnRecord(e) ==
  /\ room[e.claim].author = e.agent /\ room[e.claim].taskId = e.task
  /\ e.started <= now
  /\ Held(e.claim, e.task, e.started)
  /\ e.status = "submitted" => /\ e.submission \in InRoom("submission")
                               /\ room[e.submission].claimId = e.claim
                               /\ room[e.submission].author = e.agent

JournalInv == \A e \in executions : OnRecord(e)

\* Later reads bring newer claims only: what was held stays held.
LEMMA HeldKept ==
  ASSUME Base, [WorkerNext]_allVars, NEW c \in InRoom("claim"), NEW t, NEW d, Held(c, t, d)
  PROVE  Held(c, t, d)'
<1>1. IInv /\ IInv' /\ [Next]_vars
  BY BaseStep DEF Base
<1>2. Numbered(Visible') /\ Extends(Visible', Visible)
  BY <1>1, VisibleExtends
<1>3. Items(Visible', "claim", t) \cap Visible = Items(Visible, "claim", t)
  BY <1>2, ItemsExtend
<1>4. room'[c] = room[c] /\ room[c].seq = c /\ room[c] \in Visible /\ c \in Nat
  BY <1>1, RoomGrows DEF InRoom, Held, Items, IInv, RoomInv, TypeOK
<1>5. ASSUME NEW b \in Items(Visible', "claim", t), b.seq < c
      PROVE  b.ts + b.lease <= d
  <2>1. b \in Visible' /\ b.seq \in Nat
    BY <1>2 DEF Items, Numbered
  <2>2. b \in Visible
    BY <1>2, <1>4, <1>5, <2>1 DEF Extends
  <2> QED BY <1>3, <1>5, <2>2 DEF Held
<1>6. room'[c] \in Items(Visible', "claim", t)
  BY <1>3, <1>4 DEF Held
<1>7. \A b \in Items(Visible', "claim", t) : b.seq < c => b.ts + b.lease <= d
  BY <1>5
<1> QED BY <1>6, <1>7 DEF Held

LEMMA RecordKept ==
  ASSUME Base, [WorkerNext]_allVars, NEW e \in executions, OnRecord(e)
  PROVE  OnRecord(e)'
<1>1. e.claim \in InRoom("claim") /\ e.started \in Nat
  BY DEF Base, WorkerTypeOK, Execution
<1>2. Held(e.claim, e.task, e.started)'
  BY <1>1, HeldKept DEF OnRecord
<1>3. room'[e.claim] = room[e.claim]
  BY <1>1, RoomGrows DEF InRoom
<1>4. e.status = "submitted" =>
        e.submission \in InRoom("submission")' /\ room'[e.submission] = room[e.submission]
  BY RoomGrows DEF InRoom, OnRecord
<1>5. now \in Nat /\ now' \in Nat /\ now <= now'
  <2>1. [Next]_vars /\ TypeOK
    BY BaseStep DEF Base, IInv
  <2>2. CASE room' # room
    <3>1. Next
      BY <2>1, <2>2 DEF vars
    <3> QED BY <2>1, <2>2, <3>1, PostedRow DEF TypeOK
  <2>3. CASE room' = room
    <3>1. now' = now \/ now' = now + 1
      BY <2>1, <2>3, OtherSteps DEF SyncOnce, Tick, vars
    <3> QED BY <2>1, <3>1 DEF TypeOK
  <2> QED BY <2>2, <2>3
<1> QED BY <1>1, <1>2, <1>3, <1>4, <1>5 DEF OnRecord

\* The confirmed claim is the oldest that runs, by the room and by the clock.
LEMMA WonIsHeld ==
  ASSUME Base, at = "confirm", Won
  PROVE  Held(claim, task, now)
<1>1. /\ claim \in InRoom("claim") /\ task \in TaskIds /\ IInv
      /\ claim \in 1 .. Len(room) /\ claim \in Nat
  BY DEF Base, TurnInv, OnTask, OnClaim, InRoom, IInv, TypeOK
<1>2. PICK c \in ActiveClaim(Visible, task, now) : c.id = claim
  BY DEF Won, Visible
<1>3. /\ c \in Items(Visible, "claim", task)
      /\ \A b \in Items(Visible, "claim", task) : b.ts + b.lease > now => c.seq <= b.seq
  BY DEF ActiveClaim, FirstOf
<1>4. c \in Visible /\ c.kind = "claim"
  BY <1>3 DEF Items
<1>5. c.seq \in 1 .. Len(room) /\ room[c.seq] = c
  BY <1>1, <1>4, VisibleBounded
<1>6. c.id = c.seq
  BY <1>4, <1>5 DEF Base, IdsInv
<1>7. ASSUME NEW b \in Items(Visible, "claim", task), b.seq < claim
      PROVE  b.ts + b.lease <= now
  <2>1. b \in Row /\ b.kind = "claim"
    BY <1>1, VisibleBounded DEF Items
  <2>2. b.ts \in Nat /\ b.lease \in Nat /\ b.seq \in Nat
    BY <2>1, BoardAssumption DEF Row, TaskRow, ClaimRow, SubmissionRow, DecisionRow
  <2>3. now \in Nat
    BY <1>1 DEF IInv, TypeOK
  <2> QED BY <1>1, <1>2, <1>3, <1>6, <1>7, <2>2, <2>3
<1> QED BY <1>2, <1>3, <1>5, <1>6, <1>7 DEF Held

LEMMA JournalStep ==
  ASSUME Base, JournalInv, [WorkerNext]_allVars
  PROVE  JournalInv'
<1>0. \A e \in executions : OnRecord(e)'
  BY RecordKept DEF JournalInv
<1>1. CASE UNCHANGED executions
  BY <1>0, <1>1 DEF JournalInv
<1>2. CASE BeginWork
  <2> DEFINE n == NewExecution(claim)
  <2>1. at = "confirm" /\ Won /\ executions' = executions \cup {n} /\ UNCHANGED <<board, turn>>
    BY <1>2 DEF BeginWork
  <2>2. PICK e : e = n
    OBVIOUS
  <2>3. e.claim = claim /\ e.task = task /\ e.agent = agent /\ e.started = now /\ e.status = "running"
    BY <2>2 DEF NewExecution
  <2>4. room[claim].author = agent /\ room[claim].taskId = task /\ now \in Nat
    BY <2>1 DEF Base, TurnInv, OnClaim, IInv, TypeOK
  <2>5. Held(e.claim, e.task, e.started)
    BY <2>1, <2>3, WonIsHeld
  <2>6. OnRecord(e)
    BY <2>3, <2>4, <2>5 DEF OnRecord
  <2>7. OnRecord(e)'
    BY <2>1, <2>6 DEF OnRecord, Held, Visible, board, InRoom
  <2> QED BY <1>0, <2>1, <2>2, <2>7 DEF JournalInv
<1>3. ASSUME NEW s \in {"submitted", "failed"}, NEW k, Finish(s, k), at \in OnClaim, UNCHANGED board,
             s = "submitted" => /\ k \in InRoom("submission") /\ room[k].claimId = claim
                                /\ room[k].author = agent
      PROVE  JournalInv'
  <2> SUFFICES ASSUME NEW f \in executions'
               PROVE  OnRecord(f)'
    BY DEF JournalInv
  <2>1. PICK e \in executions :
          f = IF e.agent = agent /\ e.claim = claim
              THEN [e EXCEPT !.status = s, !.submission = k] ELSE e
    BY <1>3 DEF Finish
  <2>2. CASE f = e
    BY <1>0, <2>2
  <2>3. CASE e.agent = agent /\ e.claim = claim
    <3>1. /\ f.claim = e.claim /\ f.task = e.task /\ f.agent = e.agent /\ f.started = e.started
          /\ f.status = s /\ (s = "submitted" => f.submission = k)
      BY <2>1, <2>3 DEF Base, WorkerTypeOK, Execution
    <3>2. OnRecord(f)
      <4>1. /\ room[f.claim].author = f.agent /\ room[f.claim].taskId = f.task /\ f.started <= now
            /\ Held(f.claim, f.task, f.started)
        BY <3>1 DEF JournalInv, OnRecord
      <4>2. f.status = "submitted" => /\ f.submission \in InRoom("submission")
                                      /\ room[f.submission].claimId = f.claim
                                      /\ room[f.submission].author = f.agent
        BY <1>3, <2>3, <3>1
      <4> QED BY <4>1, <4>2 DEF OnRecord
    <3> QED BY <1>3, <3>2 DEF OnRecord, Held, Visible, board, InRoom
  <2> QED BY <2>1, <2>2, <2>3
<1>4. CASE WorkFails
  BY <1>3, <1>4 DEF WorkFails, OnClaim
<1>5. ASSUME NEW s \in InRoom("submission"), SubmissionAcknowledged(s) PROVE JournalInv'
  BY <1>3, <1>5 DEF SubmissionAcknowledged, OnClaim
<1> QED
  BY <1>1, <1>2, <1>4, <1>5
  DEF WorkerNext, Scan, StartScan, ReadViews, EndScan, Pass, Choose, ClaimPosted, ClaimFails,
      ClaimNotWon, SubmissionPosted, BoardStep, Pause, Resume, Crash, Restart, allVars, workerVars

\* The executions journal agrees with the room: every execution is on a claim that won
\* its task, and a submitted one on a submission in the room.
THEOREM JournalInvariance == WorkerSpec => []JournalInv
<1>1. WorkerInit => JournalInv
  BY DEF WorkerInit, JournalInv
<1>2. Base /\ JournalInv /\ [WorkerNext]_allVars => JournalInv'
  BY JournalStep
<1> QED BY <1>1, <1>2, BaseInvariance, PTL DEF WorkerSpec

\* No two executions of a task, of any agents and across any crashes, overlap in their
\* leases.
THEOREM ExecutionsExclude == WorkerSpec => []ExclusiveExecutions
<1>1. Base /\ JournalInv => ExclusiveExecutions
  <2> SUFFICES ASSUME Base, JournalInv, NEW e \in executions, NEW f \in executions,
                      e.task = f.task, e.claim < f.claim
               PROVE  Lease(e.claim) <= f.started
    BY DEF ExclusiveExecutions
  <2>1. room[e.claim] \in Items(Visible, "claim", f.task) /\ room[e.claim].seq = e.claim
    BY DEF JournalInv, OnRecord, Held, Base, WorkerTypeOK, IInv, RoomInv, InRoom
  <2> QED BY <2>1 DEF JournalInv, OnRecord, Held, Lease
<1> QED BY <1>1, BaseInvariance, JournalInvariance, PTL

\* Work the journal calls submitted, sent while its lease ran, is credited by the views,
\* whatever rivals did and whatever was never read.
THEOREM OnTimeIsCredited == WorkerSpec => []SubmittedOnTimeIsCredited
<1>1. Base /\ JournalInv => SubmittedOnTimeIsCredited
  <2> SUFFICES ASSUME Base, JournalInv, NEW e \in executions, e.status = "submitted",
                      e.started < room[e.submission].ts,
                      room[e.submission].ts <= Lease(e.claim)
               PROVE  ValidClaim(Visible, room[e.submission])
    BY DEF SubmittedOnTimeIsCredited, Visible
  <2> DEFINE s == room[e.submission]
             c == room[e.claim]
  <2>1. /\ e.submission \in InRoom("submission") /\ s.claimId = e.claim /\ s.author = e.agent
        /\ c.author = e.agent /\ c.taskId = e.task /\ e.agent \in Agents /\ e.started \in Nat
        /\ Held(e.claim, e.task, e.started) /\ e.claim \in InRoom("claim")
    BY DEF JournalInv, OnRecord, Base, WorkerTypeOK, Execution
  <2>2. e.claim < e.submission /\ s.taskId = e.task
    BY <2>1 DEF Base, SubmissionsInv
  <2>3. s.seq = e.submission /\ c.seq = e.claim /\ c.id = e.claim
    BY <2>1 DEF Base, IInv, RoomInv, IdsInv, InRoom
  <2>4. s.ts \in Nat
    BY <2>1 DEF Base, IInv, TypeOK, InRoom, Row, TaskRow, ClaimRow, SubmissionRow, DecisionRow
  <2>5. c \in Standing(Visible, s)
    BY <2>1, <2>2, <2>3, <2>4 DEF Standing, Held, Lease
  <2>6. ASSUME NEW b \in Standing(Visible, s) PROVE c.seq <= b.seq
    <3>1. b \in Items(Visible, "claim", e.task) /\ b.ts + b.lease >= s.ts
      BY <2>2 DEF Standing
    <3>2. b \in Row /\ b.kind = "claim"
      BY <3>1, VisibleBounded DEF Items, Base
    <3>3. b.ts \in Nat /\ b.lease \in Nat /\ b.seq \in Nat
      BY <3>2, BoardAssumption DEF Row, TaskRow, ClaimRow, SubmissionRow, DecisionRow
    <3>4. b.seq < e.claim => b.ts + b.lease <= e.started
      BY <2>1, <3>1 DEF Held
    <3>5. e.claim \in Nat
      BY <2>1 DEF InRoom
    <3> QED BY <2>1, <2>3, <2>4, <3>1, <3>3, <3>4, <3>5
  <2>7. c \in FirstOf(Standing(Visible, s))
    BY <2>5, <2>6 DEF FirstOf
  <2> HIDE DEF s, c
  <2> QED BY <2>1, <2>3, <2>7 DEF ValidClaim, s
<1> QED BY <1>1, BaseInvariance, JournalInvariance, PTL

-----------------------------------------------------------------------------
\* One attempt at a time.

\* The task of a turn is new to its agent, the claim newer than all executions, until
\* the execution that is begun on it; that one runs until the turn is over.
CurrentInv ==
  /\ at \in {"claim", "confirm"} => ~HasExecution(task, agent)
  /\ at = "confirm" => \A e \in executions : e.claim # claim
  /\ at \in {"work", "sent"} => \A e \in executions : e.claim = claim => e.status = "running"
  /\ NoDoubleWork

\* finishExecution() changes one row at most, the one that runs.
LEMMA FinishOne ==
  ASSUME Base, JournalInv, CurrentInv, at \in {"work", "sent"}, NEW s, NEW k, Finish(s, k)
  PROVE  \/ executions' = executions
         \/ \E x \in executions :
              /\ x.claim = claim /\ x.agent = agent /\ x.task = task /\ x.status = "running"
              /\ executions' = (executions \ {x}) \cup {[x EXCEPT !.status = s, !.submission = k]}
<1>1. CASE \A e \in executions : e.claim # claim
  BY <1>1 DEF Finish
<1>2. ASSUME NEW x \in executions, x.claim = claim
      PROVE  /\ x.agent = agent /\ x.task = task /\ x.status = "running"
             /\ executions' = (executions \ {x}) \cup {[x EXCEPT !.status = s, !.submission = k]}
  <2>1. \A e \in executions : e.claim = claim => /\ e.agent = agent /\ e.task = task
                                                 /\ e.status = "running"
    BY DEF JournalInv, OnRecord, CurrentInv, Base, TurnInv, OnClaim
  <2>2. \A e \in executions : e.claim = claim => e = x
    BY <1>2, <2>1 DEF CurrentInv, NoDoubleWork
  <2>3. \A e \in executions : (e.agent = agent /\ e.claim = claim) <=> e = x
    BY <1>2, <2>1, <2>2
  <2>4. executions' = { IF e = x THEN [e EXCEPT !.status = s, !.submission = k] ELSE e : e \in executions }
    BY <2>3 DEF Finish
  <2> QED BY <1>2, <2>1, <2>4
<1> QED BY <1>1, <1>2

LEMMA CurrentStep ==
  ASSUME Base, JournalInv, CurrentInv, [WorkerNext]_allVars
  PROVE  CurrentInv'
<1>1. CASE UNCHANGED executions /\ at' \notin OnTask
  BY <1>1 DEF CurrentInv, NoDoubleWork, OnTask
<1>2. CASE UNCHANGED <<executions, turn>> /\ (at' = at \/ (at = "work" /\ at' = "sent"))
  BY <1>2, SameAgent DEF CurrentInv, NoDoubleWork, HasExecution, turn
<1>3. ASSUME NEW t \in TaskIds, Choose(t) PROVE CurrentInv'
  <2>1. at' = "claim" /\ task' = t /\ UNCHANGED <<executions, queue>> /\ ~HasExecution(t, agent)
    BY <1>3 DEF Choose, Newest, Candidates
  <2>2. agent' = agent
    BY <2>1, SameAgent
  <2> QED BY <2>1, <2>2 DEF CurrentInv, NoDoubleWork, HasExecution
<1>4. CASE ClaimPosted
  <2>1. at = "claim" /\ at' = "confirm" /\ claim' = NextSeq /\ UNCHANGED <<executions, queue, task>>
    BY <1>4 DEF ClaimPosted
  <2>2. agent' = agent
    BY <2>1, SameAgent
  <2>3. \A e \in executions : e.claim # NextSeq
    BY DEF Base, WorkerTypeOK, InRoom, NextSeq, IInv, TypeOK
  <2> QED BY <2>1, <2>2, <2>3 DEF CurrentInv, NoDoubleWork, HasExecution
<1>5. CASE BeginWork
  <2>1. /\ at = "confirm" /\ at' = "work" /\ UNCHANGED <<queue, task, claim>>
        /\ executions' = executions \cup {NewExecution(claim)}
    BY <1>5 DEF BeginWork, turn
  <2>2. PICK n : n = NewExecution(claim)
    OBVIOUS
  <2>3. n.agent = agent /\ n.task = task /\ n.claim = claim /\ n.status = "running"
    BY <2>2 DEF NewExecution
  <2>4. \A e \in executions : e.claim # claim /\
          (e.agent = agent /\ e.task = task => e.status = "failed")
    BY <2>1 DEF CurrentInv, HasExecution, Base, WorkerTypeOK, Execution
  <2>5. NoDoubleWork'
    BY <2>1, <2>2, <2>3, <2>4 DEF CurrentInv, NoDoubleWork
  <2> QED BY <2>1, <2>2, <2>3, <2>4, <2>5 DEF CurrentInv
<1>6. ASSUME NEW s \in {"submitted", "failed"}, NEW k, Finish(s, k), at \in {"work", "sent"}, at' = "turn"
      PROVE  CurrentInv'
  <2>1. CASE executions' = executions
    BY <1>1, <1>6, <2>1 DEF OnTask
  <2>2. ASSUME NEW x \in executions, x.status = "running",
               executions' = (executions \ {x}) \cup {[x EXCEPT !.status = s, !.submission = k]}
        PROVE  NoDoubleWork'
    <3>1. PICK y : y = [x EXCEPT !.status = s, !.submission = k]
      OBVIOUS
    <3>2. y.agent = x.agent /\ y.task = x.task
      BY <3>1 DEF Base, WorkerTypeOK, Execution
    <3>3. \A e \in executions \ {x} : e.agent = x.agent /\ e.task = x.task => e.status = "failed"
      BY <2>2 DEF CurrentInv, NoDoubleWork
    <3>4. \A e, f \in executions \ {x} :
            /\ e.agent = f.agent /\ e.task = f.task
            /\ e.status # "failed" /\ f.status # "failed"
            => e = f
      <4>1. NoDoubleWork
        BY DEF CurrentInv
      <4> QED BY <4>1 DEF NoDoubleWork
    <3>5. executions' = (executions \ {x}) \cup {y}
      BY <2>2, <3>1
    <3> QED BY <3>2, <3>3, <3>4, <3>5 DEF NoDoubleWork
  <2>3. NoDoubleWork'
    BY <1>6, <2>1, <2>2, FinishOne DEF CurrentInv, NoDoubleWork
  <2> QED BY <1>6, <2>3 DEF CurrentInv
<1>7. CASE WorkFails
  BY <1>6, <1>7 DEF WorkFails, NextAgent
<1>8. ASSUME NEW s \in InRoom("submission"), SubmissionAcknowledged(s) PROVE CurrentInv'
  BY <1>6, <1>8 DEF SubmissionAcknowledged, NextAgent
<1>9. CASE StartScan \/ ReadViews \/ EndScan \/ Pass \/ ClaimFails \/ ClaimNotWon \/ Crash \/ Restart
  BY <1>1, <1>9 DEF StartScan, ReadViews, EndScan, Pass, ClaimFails, ClaimNotWon, NextAgent, Crash, Restart, OnTask
<1>10. CASE SubmissionPosted \/ BoardStep \/ (\E a \in Agents : Pause(a) \/ Resume(a)) \/ UNCHANGED allVars
  BY <1>2, <1>10 DEF SubmissionPosted, BoardStep, Pause, Resume, allVars, workerVars
<1> QED BY <1>3, <1>4, <1>5, <1>7, <1>8, <1>9, <1>10 DEF WorkerNext, Scan

\* The turn under way has one execution at most, the running one on its own claim.
THEOREM CurrentInvariance == WorkerSpec => []CurrentInv
<1>1. WorkerInit => CurrentInv
  BY DEF WorkerInit, CurrentInv, NoDoubleWork
<1>2. Base /\ JournalInv /\ CurrentInv /\ [WorkerNext]_allVars => CurrentInv'
  BY CurrentStep
<1> QED BY <1>1, <1>2, BaseInvariance, JournalInvariance, PTL DEF WorkerSpec

\* An agent has one execution of a task at most that runs or was submitted.
THEOREM NothingTwice == WorkerSpec => []NoDoubleWork
<1>1. CurrentInv => NoDoubleWork
  BY DEF CurrentInv
<1> QED BY <1>1, CurrentInvariance, PTL

-----------------------------------------------------------------------------
\* The daily quota.

Done(X, a, day) == { e \in X : e.agent = a /\ e.status = "submitted" /\ Day(e.started) = day }

\* A turn is given while the quota of the scan's day is open. What began on a later day
\* is of agents that had their turn, or is what is under way.
QuotaInv ==
  /\ IsFiniteSet(executions)
  /\ \A a \in Agents, day \in Nat : CompletedToday(a, day) <= TasksPerDay
  /\ at \in OnTask => CompletedToday(agent, scanDay) < TasksPerDay
  /\ at \in OnTask \cup {"turn"} =>
       /\ scanDay <= Day(now)
       /\ \A e \in executions : e.agent \in queue /\ Day(e.started) > scanDay =>
            at \in {"work", "sent"} /\ e.claim = claim
  /\ at \in {"work", "sent"} => \A e \in executions : e.claim = claim => Day(e.started) >= scanDay

LEMMA CompletedIs ==
  /\ \A a, day : CompletedToday(a, day) = Cardinality(Done(executions, a, day))
  /\ \A a, day : CompletedToday(a, day)' = Cardinality(Done(executions', a, day))
  BY DEF CompletedToday, Done

LEMMA DoneType ==
  ASSUME NEW X, IsFiniteSet(X), NEW a, NEW day
  PROVE  IsFiniteSet(Done(X, a, day)) /\ Cardinality(Done(X, a, day)) \in Nat
  BY FS_Subset, FS_CardinalityType DEF Done

\* Time goes on.
LEMMA ClockStep ==
  ASSUME Base, [WorkerNext]_allVars
  PROVE  /\ now \in Nat /\ now' \in Nat /\ now <= now'
         /\ Day(now) \in Nat /\ Day(now') \in Nat /\ Day(now) <= Day(now')
<1>1. [Next]_vars /\ TypeOK
  BY BaseStep DEF Base, IInv
<1>2. now' = now \/ now' = now + 1
  <2>1. CASE room' # room
    <3>1. Next
      BY <1>1, <2>1 DEF vars
    <3> QED BY <1>1, <2>1, <3>1, PostedRow
  <2>2. CASE room' = room
    BY <1>1, <2>2, OtherSteps DEF SyncOnce, Tick, vars
  <2> QED BY <2>1, <2>2
<1>3. now \in Nat /\ now' \in Nat /\ now <= now'
  BY <1>1, <1>2 DEF TypeOK
<1> QED BY <1>3, DayType, DayGrows

\* The submission of the turn's execution is one more on the day it began, on which the
\* quota was open.
LEMMA QuotaFinish ==
  ASSUME Base, JournalInv, CurrentInv, QuotaInv, at \in {"work", "sent"},
         NEW s \in {"submitted", "failed"}, NEW k, Finish(s, k)
  PROVE  /\ IsFiniteSet(executions')
         /\ \A a \in Agents, day \in Nat : CompletedToday(a, day)' <= TasksPerDay
<1>0. TasksPerDay \in Nat /\ TasksPerDay >= 1 /\ scanDay \in Nat /\ at \in OnTask /\ agent \in queue
  BY WorkerAssumption, AgentIsThere DEF Base, WorkerTypeOK, TurnInv, OnTask
<1>1. CASE executions' = executions
  BY <1>1, CompletedIs DEF QuotaInv
<1>2. ASSUME NEW x \in executions, x.claim = claim, x.agent = agent, x.status = "running",
             executions' = (executions \ {x}) \cup {[x EXCEPT !.status = s, !.submission = k]}
      PROVE  /\ IsFiniteSet(executions')
             /\ \A a \in Agents, day \in Nat : CompletedToday(a, day)' <= TasksPerDay
  <2>1. PICK y : y = [x EXCEPT !.status = s, !.submission = k]
    OBVIOUS
  <2>2. y.agent = x.agent /\ y.started = x.started /\ x.started \in Nat
    BY <2>1 DEF Base, WorkerTypeOK, Execution
  <2>3. IsFiniteSet(executions \ {x}) /\ IsFiniteSet(executions')
    BY <1>2, FS_RemoveElement, FS_AddElement DEF QuotaInv
  <2>4. \A a, day : Done(executions', a, day) \subseteq Done(executions, a, day) \cup {y}
    BY <1>2, <2>1 DEF Done
  <2>5. ASSUME NEW a \in Agents, NEW day \in Nat
        PROVE  Cardinality(Done(executions', a, day)) <= TasksPerDay
    <3> DEFINE S == Done(executions, a, day)
               T == Done(executions', a, day)
    <3> SUFFICES Cardinality(T) <= TasksPerDay
      OBVIOUS
    <3>1. /\ IsFiniteSet(S) /\ Cardinality(S) \in Nat /\ Cardinality(S) <= TasksPerDay
          /\ IsFiniteSet(T) /\ Cardinality(T) \in Nat
      BY <2>3, CompletedIs, DoneType DEF QuotaInv
    <3>0. \A t, u, c, q \in Nat : t <= u /\ u \in {c, c + 1} /\ c < q => t <= q
      OBVIOUS
    <3>2. CASE y \notin T
      <4>1. T \subseteq S
        BY <2>4, <3>2
      <4>2. Cardinality(T) <= Cardinality(S)
        BY <3>1, <4>1, FS_Subset
      <4> QED BY <1>0, <3>1, <4>2
    <3>3. CASE y \in T
      <4>1. a = agent /\ day = Day(x.started)
        BY <1>2, <2>2, <3>3 DEF Done
      <4>2. day >= scanDay
        BY <1>2, <4>1 DEF QuotaInv
      <4>0. day = scanDay \/ day > scanDay
        BY <1>0, <4>2
      <4>3. T \subseteq S \cup {y} /\ IsFiniteSet(S \cup {y})
            /\ Cardinality(S \cup {y}) \in {Cardinality(S), Cardinality(S) + 1}
            /\ Cardinality(S \cup {y}) \in Nat
        BY <2>4, <3>1, FS_AddElement, FS_CardinalityType
      <4>4. Cardinality(T) <= Cardinality(S \cup {y})
        BY <4>3, FS_Subset
      <4>5. CASE day = scanDay
        <5>1. Cardinality(S) < TasksPerDay
          BY <1>0, <4>1, <4>5, CompletedIs DEF QuotaInv
        <5> HIDE DEF S, T
        <5> QED BY <1>0, <3>0, <3>1, <4>3, <4>4, <5>1
      <4>6. CASE day > scanDay
        <5>1. S = {}
          <6>1. ASSUME NEW e \in S PROVE FALSE
            <7>1. e \in executions /\ e.agent = agent /\ e.status = "submitted" /\ Day(e.started) = day
              BY <4>1, <6>1 DEF Done
            <7>2. e.claim = claim
              BY <1>0, <4>6, <7>1 DEF QuotaInv
            <7> QED BY <7>1, <7>2 DEF CurrentInv
          <6> QED BY <6>1
        <5>2. Cardinality(S) = 0
          BY <5>1, FS_EmptySet
        <5>3. Cardinality(S) < TasksPerDay
          <6> HIDE DEF S
          <6> QED BY <1>0, <5>2
        <5> HIDE DEF S, T
        <5> QED BY <1>0, <3>0, <3>1, <4>3, <4>4, <5>3
      <4> HIDE DEF S, T
      <4> QED BY <4>0, <4>5, <4>6
    <3> QED BY <3>2, <3>3
  <2> QED BY <2>3, <2>5, CompletedIs
<1>3. CASE executions' # executions
  <2>1. PICK x \in executions :
          /\ x.claim = claim /\ x.agent = agent /\ x.task = task /\ x.status = "running"
          /\ executions' = (executions \ {x}) \cup {[x EXCEPT !.status = s, !.submission = k]}
    BY <1>3, FinishOne
  <2> QED BY <1>2, <2>1
<1> QED BY <1>1, <1>3

LEMMA QuotaStep ==
  ASSUME Base, Base', JournalInv, CurrentInv, QuotaInv, [WorkerNext]_allVars
  PROVE  QuotaInv'
<1>0. scanDay \in Nat /\ now \in Nat /\ Day(now) \in Nat /\ Day(now') \in Nat /\ Day(now) <= Day(now')
  BY ClockStep DEF Base, WorkerTypeOK
<1>s. scanDay <= Day(now) => scanDay <= Day(now')
  BY <1>0
<1> DEFINE First == /\ IsFiniteSet(executions)
                    /\ \A a \in Agents, day \in Nat : CompletedToday(a, day) <= TasksPerDay
<1>2. CASE UNCHANGED executions
  <2>1. First'
    BY <1>2, CompletedIs DEF QuotaInv
  <2>2. CASE at' \notin OnTask \cup {"turn"}
    BY <2>1, <2>2 DEF QuotaInv, OnTask
  <2>3. CASE /\ UNCHANGED turn /\ at \in OnTask \cup {"turn"}
             /\ at' = at \/ (at = "work" /\ at' = "sent")
    <3>1. agent' = agent /\ queue' = queue /\ scanDay' = scanDay /\ claim' = claim
      BY <2>3, SameAgent DEF turn
    <3>2. CompletedToday(agent, scanDay)' = CompletedToday(agent, scanDay)
      BY <1>2, <3>1 DEF CompletedToday
    <3>3. at' \in OnTask => CompletedToday(agent, scanDay)' < TasksPerDay
      BY <2>3, <3>2 DEF QuotaInv, OnTask
    <3> QED BY <1>s, <1>2, <2>1, <2>3, <3>1, <3>3 DEF QuotaInv, OnTask
  <2>4. ASSUME NEW t \in TaskIds, Choose(t) PROVE QuotaInv'
    <3>1. /\ at = "turn" /\ at' = "claim" /\ CompletedToday(agent, scanDay) < TasksPerDay
          /\ UNCHANGED <<queue, scanDay, board>>
      BY <2>4 DEF Choose
    <3>2. agent' = agent
      BY <3>1, SameAgent
    <3>3. CompletedToday(agent, scanDay)' < TasksPerDay
      BY <1>2, <3>1, <3>2 DEF CompletedToday
    <3> QED BY <1>s, <1>2, <2>1, <3>1, <3>3 DEF QuotaInv, OnTask
  <2>5. CASE ClaimPosted
    <3>1. at = "claim" /\ at' = "confirm" /\ UNCHANGED <<queue, scanDay>>
      BY <2>5 DEF ClaimPosted
    <3>2. agent' = agent
      BY <3>1, SameAgent
    <3>3. CompletedToday(agent, scanDay)' < TasksPerDay
      BY <1>2, <3>1, <3>2 DEF CompletedToday, QuotaInv, OnTask
    <3> QED BY <1>s, <1>2, <2>1, <3>1, <3>3 DEF QuotaInv, OnTask
  <2>6. CASE NextAgent /\ at \in OnTask \cup {"turn"}
    <3>1. at' = "turn" /\ queue' = queue \ {agent} /\ scanDay' = scanDay
      BY <2>6 DEF NextAgent
    <3>2. \A e \in executions : e.claim = claim /\ at \in {"work", "sent"} => e.agent = agent
      BY DEF JournalInv, OnRecord, Base, TurnInv, OnClaim
    <3> QED BY <1>s, <1>2, <2>1, <2>6, <3>1, <3>2 DEF QuotaInv, OnTask
  <2>7. CASE ReadViews
    <3>1. at' = "turn" /\ scanDay' = Day(now) /\ now' = now
      BY <2>7 DEF ReadViews, board
    <3>2. \A e \in executions : e.started \in Nat /\ e.started <= now
      BY DEF JournalInv, OnRecord, Base, WorkerTypeOK, Execution
    <3>3. \A e \in executions : Day(e.started) \in Nat /\ Day(e.started) <= Day(now)
      BY <1>0, <3>2, DayType, DayGrows
    <3>4. Day(now') = Day(now)
      BY <3>1 DEF Day
    <3>5. \A e \in executions' : ~(Day(e.started) > scanDay')
      BY <1>0, <1>2, <3>1, <3>3
    <3>6. scanDay' <= Day(now')
      BY <1>0, <3>1, <3>4
    <3> QED BY <2>1, <3>1, <3>5, <3>6 DEF QuotaInv, OnTask, Day
  <2>8. CASE SubmissionPosted
    BY <2>3, <2>8 DEF SubmissionPosted, OnTask
  <2>9. CASE Pass \/ ClaimFails \/ ClaimNotWon
    BY <2>6, <2>9 DEF Pass, ClaimFails, ClaimNotWon, OnTask
  <2>10. CASE StartScan \/ EndScan \/ Crash \/ Restart
    BY <2>2, <2>10 DEF StartScan, EndScan, Crash, Restart, OnTask
  <2>11. CASE BoardStep \/ (\E a \in Agents : Pause(a) \/ Resume(a)) \/ UNCHANGED allVars
    <3>1. UNCHANGED <<turn, at>>
      BY <2>11 DEF BoardStep, Pause, Resume, allVars, workerVars
    <3> QED BY <2>2, <2>3, <3>1
  <2>12. CASE BeginWork \/ WorkFails \/ \E s \in InRoom("submission") : SubmissionAcknowledged(s)
    <3>1. at' \in {"turn", "work"} /\ at \in OnTask
      BY <2>12 DEF BeginWork, WorkFails, SubmissionAcknowledged, NextAgent, OnTask
    <3>2. CASE NextAgent
      BY <2>6, <3>1, <3>2
    <3>3. CASE BeginWork
      <4>1. NewExecution(claim) \in executions /\ NewExecution(claim).claim = claim /\ at = "confirm"
        BY <1>2, <3>3 DEF BeginWork, NewExecution
      <4> QED BY <4>1 DEF CurrentInv
    <3> QED BY <2>12, <3>2, <3>3 DEF WorkFails, SubmissionAcknowledged
  <2> QED
    BY <2>4, <2>5, <2>7, <2>8, <2>9, <2>10, <2>11, <2>12 DEF WorkerNext, Scan
<1>3. CASE BeginWork
  <2>1. /\ at = "confirm" /\ at' = "work" /\ UNCHANGED <<queue, scanDay, claim, now>>
        /\ executions' = executions \cup {NewExecution(claim)}
    BY <1>3 DEF BeginWork, turn, board
  <2>2. PICK n : n = NewExecution(claim)
    OBVIOUS
  <2>3. n.agent = agent /\ n.claim = claim /\ n.status = "running" /\ n.started = now
    BY <2>2 DEF NewExecution
  <2>4. IsFiniteSet(executions')
    BY <2>1, FS_AddElement DEF QuotaInv
  <2>5. \A a, day : Done(executions', a, day) = Done(executions, a, day)
    BY <2>1, <2>2, <2>3 DEF Done
  <2>6. First'
    BY <2>4, <2>5, CompletedIs DEF QuotaInv
  <2>7. CompletedToday(agent, scanDay)' < TasksPerDay
    <3>1. agent' = agent
      BY <2>1, SameAgent
    <3>2. CompletedToday(agent, scanDay)' = Cardinality(Done(executions', agent, scanDay))
      BY <2>1, <3>1 DEF CompletedToday, Done
    <3>3. CompletedToday(agent, scanDay) = Cardinality(Done(executions, agent, scanDay))
      BY CompletedIs
    <3> QED BY <2>1, <2>5, <3>2, <3>3 DEF QuotaInv, OnTask
  <2>8. scanDay <= Day(now) /\ \A e \in executions : ~(e.agent \in queue /\ Day(e.started) > scanDay)
    BY <2>1 DEF QuotaInv, OnTask
  <2>9. Day(n.started) >= scanDay
    BY <1>0, <2>3, <2>8
  <2>10. \A e \in executions' : e.claim = claim => Day(e.started) >= scanDay
    BY <2>1, <2>2, <2>9 DEF CurrentInv
  <2>11. Day(now') = Day(now)
    BY <2>1 DEF Day
  <2>12. \A e \in executions' : e.agent \in queue /\ Day(e.started) > scanDay => e.claim = claim
    BY <2>1, <2>2, <2>3, <2>8
  <2> HIDE DEF First
  <2> QED BY <2>1, <2>6, <2>7, <2>8, <2>10, <2>11, <2>12 DEF QuotaInv, OnTask, First, Day
<1>4. ASSUME NEW s \in {"submitted", "failed"}, NEW k, Finish(s, k), at \in {"work", "sent"}, NextAgent
      PROVE  QuotaInv'
  <2>1. First'
    BY <1>4, QuotaFinish
  <2>2. at' = "turn" /\ queue' = queue \ {agent} /\ scanDay' = scanDay
    BY <1>4 DEF NextAgent
  <2>3. \A e \in executions : e.claim = claim => e.agent = agent
    BY <1>4 DEF JournalInv, OnRecord, Base, TurnInv, OnClaim
  <2>4. \A e \in executions : ~(e.agent \in queue' /\ Day(e.started) > scanDay)
    BY <1>4, <2>2, <2>3 DEF QuotaInv, OnTask
  <2>5. \A f \in executions' : \E e \in executions : f.agent = e.agent /\ f.started = e.started
    <3> SUFFICES ASSUME NEW f \in executions'
                 PROVE  \E e \in executions : f.agent = e.agent /\ f.started = e.started
      OBVIOUS
    <3>1. PICK e \in executions :
            f = IF e.agent = agent /\ e.claim = claim
                THEN [e EXCEPT !.status = s, !.submission = k] ELSE e
      BY <1>4 DEF Finish
    <3> QED BY <3>1 DEF Base, WorkerTypeOK, Execution
  <2>6. \A f \in executions' : ~(f.agent \in queue' /\ Day(f.started) > scanDay)
    BY <2>4, <2>5
  <2>7. scanDay <= Day(now')
    BY <1>s, <1>4 DEF QuotaInv, OnTask
  <2> HIDE DEF First
  <2> QED BY <2>1, <2>2, <2>6, <2>7 DEF QuotaInv, OnTask, First, Day
<1>5. CASE WorkFails
  BY <1>4, <1>5 DEF WorkFails
<1>6. ASSUME NEW s \in InRoom("submission"), SubmissionAcknowledged(s) PROVE QuotaInv'
  BY <1>4, <1>6 DEF SubmissionAcknowledged
<1> QED
  BY <1>2, <1>3, <1>5, <1>6
  DEF WorkerNext, Scan, StartScan, ReadViews, EndScan, Pass, Choose, ClaimPosted, ClaimFails,
      ClaimNotWon, SubmissionPosted, BoardStep, Pause, Resume, Crash, Restart, allVars, workerVars

\* maxTasksPerDay holds for every UTC day on which executions began, whatever the day
\* was when the scan, the work or the submission happened.
THEOREM QuotaHolds == WorkerSpec => []DailyQuota
<1>1. WorkerInit => QuotaInv
  <2>1. ASSUME WorkerInit PROVE QuotaInv
    <3>1. IsFiniteSet(executions) /\ \A a, day : Done(executions, a, day) = {}
      BY <2>1, FS_EmptySet DEF WorkerInit, Done
    <3>2. \A a, day : CompletedToday(a, day) = 0
      BY <3>1, CompletedIs, FS_EmptySet
    <3> QED BY <2>1, <3>1, <3>2, WorkerAssumption DEF WorkerInit, QuotaInv, OnTask
  <2> QED BY <2>1
<1>2. Base /\ Base' /\ JournalInv /\ CurrentInv /\ QuotaInv /\ [WorkerNext]_allVars => QuotaInv'
  BY QuotaStep
<1>3. Base /\ QuotaInv => DailyQuota
  <2>1. ASSUME Base, QuotaInv, NEW a \in Agents, NEW e \in executions
        PROVE  CompletedToday(a, Day(e.started)) <= TasksPerDay
    <3>1. Day(e.started) \in Nat
      BY <2>1, DayType DEF Base, WorkerTypeOK, Execution
    <3> QED BY <2>1, <3>1 DEF QuotaInv
  <2> QED BY <2>1 DEF DailyQuota
<1> QED BY <1>1, <1>2, <1>3, BaseInvariance, JournalInvariance, CurrentInvariance, PTL DEF WorkerSpec
=============================================================================
