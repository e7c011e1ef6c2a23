---------------------------- MODULE RoomSyncProofs ----------------------------
(***************************************************************************)
(* Theorems of RoomSync: no event is lost in silence and the point from    *)
(* which reads ask never goes back, for any venue, any page size and any   *)
(* number of messages and crashes.                                         *)
(***************************************************************************)
EXTENDS RoomSync, TLAPS

-----------------------------------------------------------------------------
\* Maxima and minima.

LEMMA MaxIs ==
  ASSUME NEW S \in SUBSET Int, NEW m \in S, \A x \in S : x <= m
  PROVE  Max(S) = m
<1>1. m \in S /\ \A y \in S : m >= y
  OBVIOUS
<1>2. Max(S) \in S /\ \A y \in S : Max(S) >= y
  BY <1>1, Zenon DEF Max
<1>3. Max(S) \in Int /\ m \in Int /\ m >= Max(S) /\ Max(S) >= m
  BY <1>1, <1>2, Zenon
<1> QED BY <1>3

LEMMA MinIs ==
  ASSUME NEW S \in SUBSET Int, NEW m \in S, \A x \in S : m <= x
  PROVE  Min(S) = m
<1>1. m \in S /\ \A y \in S : m <= y
  OBVIOUS
<1>2. Min(S) \in S /\ \A y \in S : Min(S) <= y
  BY <1>1, Zenon DEF Min
<1>3. Min(S) \in Int /\ m \in Int /\ m <= Min(S) /\ Min(S) <= m
  BY <1>1, <1>2, Zenon
<1> QED BY <1>3

LEMMA MaxOfTwo ==
  ASSUME NEW a \in Int, NEW b \in Int
  PROVE  Max({a, b}) = IF a >= b THEN a ELSE b
<1>1. CASE a >= b
  BY <1>1, MaxIs
<1>2. CASE b > a
  BY <1>2, MaxIs
<1> QED BY <1>1, <1>2

LEMMA MinOfTwo ==
  ASSUME NEW a \in Int, NEW b \in Int
  PROVE  Min({a, b}) = IF a <= b THEN a ELSE b
<1>1. CASE a <= b
  BY <1>1, MinIs
<1>2. CASE b < a
  BY <1>2, MinIs
<1> QED BY <1>1, <1>2

-----------------------------------------------------------------------------
\* The inductive invariant.

\* The archive has a last seq.
Bounded == \E m \in archive \cup {0} : \A s \in archive : s <= m

\* Nothing was ever asked from a point that the archive and the cursor have not
\* reached, and what is applied was sent.
ReadInv ==
  \A r \in Readers :
    /\ reads[r].stage \notin {"idle", "down"} => reads[r].since <= Since
    /\ reads[r].stage \in {"replied", "applying"} => reads[r].from >= 1 /\ reads[r].to <= last

Covered(k) == \A s \in (begun .. k) \ Chatter : s \in archive \/ s \in reported

\* Until a first read is applied there is nothing; from then on all is covered up to
\* the point from which reads ask, and up to the next row of a reply being applied.
CoverInv ==
  /\ begun = 0 => /\ archive = {} /\ cursor = 0
                  /\ \A r \in Readers : reads[r].stage # "applying"
  /\ begun > 0 => /\ Covered(Since)
                  /\ \A r \in Readers :
                       reads[r].stage = "applying" => Covered(reads[r].from - 1)

IInv == TypeOK /\ Bounded /\ ReadInv /\ CoverInv

-----------------------------------------------------------------------------

\* What Since is.
LEMMA SinceIs ==
  ASSUME NEW A \in SUBSET Nat, NEW c \in Nat, NEW m \in A \cup {0}, \A s \in A : s <= m
  PROVE  /\ Max(A \cup {0}) = m
         /\ Max({Max(A \cup {0}), c}) = IF m >= c THEN m ELSE c
<1>1. m \in Int /\ A \cup {0} \in SUBSET Int /\ \A x \in A \cup {0} : x <= m
  OBVIOUS
<1>2. Max(A \cup {0}) = m
  BY <1>1, MaxIs
<1> QED BY <1>1, <1>2, MaxOfTwo

LEMMA SinceBounds ==
  ASSUME TypeOK, Bounded
  PROVE  /\ Since \in 0 .. last
         /\ cursor <= Since /\ \A s \in archive : s <= Since
         /\ Since \in archive \cup {0, cursor}
<1>1. PICK m \in archive \cup {0} : \A s \in archive : s <= m
  BY DEF Bounded
<1>2. archive \in SUBSET Nat /\ cursor \in Nat /\ last \in Nat /\ m \in 0 .. last
  BY SyncAssumption DEF TypeOK
<1>3. Since = IF m >= cursor THEN m ELSE cursor
  BY <1>1, <1>2, SinceIs DEF Since, LastRoomSeq
<1> QED BY <1>1, <1>2, <1>3 DEF TypeOK

\* A row more moves Since to its seq, or not at all; so does the cursor.
LEMMA SinceGrows ==
  ASSUME TypeOK, Bounded, NEW k \in Nat, NEW c \in Nat, cursor <= c,
         archive' \in {archive, archive \cup {k}}, cursor' = c
  PROVE  /\ Bounded' /\ Since' \in Nat /\ Since' >= Since
         /\ archive' = archive => Since' \in {Since, c}
         /\ cursor' = cursor => Since' \in {Since, k}
<1>1. PICK m \in archive \cup {0} : \A s \in archive : s <= m
  BY DEF Bounded
<1>2. archive \in SUBSET Nat /\ cursor \in Nat /\ m \in Nat
  BY SyncAssumption DEF TypeOK
<1>3. Since = IF m >= cursor THEN m ELSE cursor
  BY <1>1, <1>2, SinceIs DEF Since, LastRoomSeq
<1>4. ASSUME NEW n \in archive' \cup {0}, \A s \in archive' : s <= n
      PROVE  Bounded' /\ Since' = IF n >= c THEN n ELSE c
  <2>1. archive' \in SUBSET Nat /\ n \in archive' \cup {0}
    BY <1>2
  <2>2. Since' = IF n >= c THEN n ELSE c
    BY <1>4, <2>1, SinceIs DEF Since, LastRoomSeq
  <2> QED BY <1>4, <2>2 DEF Bounded
<1>5. CASE archive' = archive
  <2>1. Bounded' /\ Since' = IF m >= c THEN m ELSE c
    BY <1>1, <1>4, <1>5
  <2> QED BY <1>2, <1>3, <1>5, <2>1
<1>6. CASE archive' = archive \cup {k} /\ k >= m
  <2>1. Bounded' /\ Since' = IF k >= c THEN k ELSE c
    <3>1. k \in archive' \cup {0} /\ \A s \in archive' : s <= k
      BY <1>1, <1>2, <1>6
    <3> QED BY <1>4, <3>1
  <2>2. archive' = archive => k <= m
    BY <1>1, <1>6
  <2> QED BY <1>2, <1>3, <1>6, <2>1, <2>2
<1>7. CASE archive' = archive \cup {k} /\ k < m
  <2>1. Bounded' /\ Since' = IF m >= c THEN m ELSE c
    <3>1. m \in archive' \cup {0} /\ \A s \in archive' : s <= m
      BY <1>1, <1>2, <1>7
    <3> QED BY <1>4, <3>1
  <2> QED BY <1>2, <1>3, <1>7, <2>1
<1> QED BY <1>2, <1>5, <1>6, <1>7

\* The fields of a read.
LEMMA ReadFields ==
  ASSUME TypeOK, NEW r \in Readers
  PROVE  /\ reads[r].stage \in {"idle", "down", "asked", "replied", "applying"}
         /\ reads[r].stage \notin {"idle", "down"} => reads[r].since \in Nat
         /\ reads[r].stage \in {"replied", "applying"} =>
              reads[r].from \in Nat /\ reads[r].to \in Nat
<1>1. reads[r] \in Read
  BY DEF TypeOK
<1>2. Seqs \subseteq Nat
  BY SyncAssumption DEF Seqs
<1> QED BY <1>1, <1>2 DEF Read

-----------------------------------------------------------------------------
\* Every step keeps the invariant.

LEMMA InitHolds == Init => IInv
<1> SUFFICES ASSUME Init PROVE IInv
  OBVIOUS
<1>1. TypeOK
  BY SyncAssumption DEF Init, TypeOK, Idle, Read, Seqs
<1>2. Bounded /\ CoverInv
  BY DEF Init, Bounded, CoverInv, Idle
<1>3. ReadInv
  BY DEF Init, ReadInv, Idle
<1> QED BY <1>1, <1>2, <1>3 DEF IInv

\* Reads that end, and the venue, touch nothing that is covered.
LEMMA FrameStep ==
  ASSUME IInv, TypeOK', UNCHANGED <<archive, cursor, reported, begun>>, last' >= last,
         \A r \in Readers : reads'[r] = reads[r] \/ reads'[r].stage \in {"idle", "down"}
  PROVE  IInv'
<1>1. Since' = Since
  BY DEF Since, LastRoomSeq
<1>2. Bounded'
  BY DEF IInv, Bounded
<1>3. ReadInv'
  <2>1. last \in Nat /\ last' \in Nat
    BY DEF IInv, TypeOK
  <2> SUFFICES ASSUME NEW r \in Readers
               PROVE  ReadInv!(r)'
    BY DEF ReadInv
  <2> QED BY <1>1, <2>1, ReadFields DEF IInv, ReadInv
<1>4. CoverInv'
  BY <1>1 DEF IInv, CoverInv, Covered
<1> QED BY <1>2, <1>3, <1>4 DEF IInv

LEMMA AskStep ==
  ASSUME IInv, NEW r \in Readers, Ask(r)
  PROVE  IInv'
<1>0. TypeOK /\ Bounded /\ ReadInv /\ CoverInv /\ reads \in [Readers -> Read]
  BY DEF IInv, TypeOK
<1>1. Since \in 0 .. last /\ last <= MaxSeq /\ last \in Nat
  BY <1>0, SinceBounds, SyncAssumption DEF TypeOK
<1>2. Since' = Since
  BY DEF Ask, Since, LastRoomSeq
<1>3. TypeOK'
  <2>1. Since \in Seqs
    BY <1>1, SyncAssumption DEF Seqs
  <2>2. reads' \in [Readers -> Read]
    BY <1>0, <2>1 DEF Ask, Read
  <2> QED BY <1>0, <2>2 DEF TypeOK, Ask, venue
<1>4. Bounded'
  BY <1>0 DEF Bounded, Ask
<1>5. ReadInv'
  BY <1>0, <1>1, <1>2 DEF Ask, ReadInv, venue
<1>6. CoverInv'
  BY <1>0, <1>2 DEF Ask, CoverInv, Covered
<1> QED BY <1>3, <1>4, <1>5, <1>6 DEF IInv

LEMMA RepliedFields ==
  ASSUME TypeOK, NEW r \in Readers, reads[r].stage \in {"replied", "applying"}
  PROVE  reads[r] \in
           [stage : {"replied", "applying"}, since : Seqs, from : Seqs, to : Seqs]
<1>1. reads[r] \in Read
  BY DEF TypeOK
<1> QED BY <1>1 DEF Read

LEMMA ReplyStep ==
  ASSUME IInv, NEW r \in Readers, Reply(r)
  PROVE  IInv'
<1>0. TypeOK /\ Bounded /\ ReadInv /\ CoverInv /\ reads \in [Readers -> Read]
  BY DEF IInv, TypeOK
<1> DEFINE since == reads[r].since
           from == IF since > 0 THEN Max({first, since + 1})
                   ELSE Max({first, last - PageLimit + 1})
           to == Min({last, from + PageLimit - 1})
<1>1. /\ first \in 1 .. (MaxSeq + 1) /\ last \in 0 .. MaxSeq
      /\ PageLimit \in Nat \ {0} /\ MaxSeq \in Nat
  BY <1>0, SyncAssumption DEF TypeOK
<1>2. since \in 0 .. last /\ since <= Since
  <2>1. since \in Nat /\ since <= Since
    BY <1>0, ReadFields DEF Reply, ReadInv
  <2> QED BY <2>1, <1>0, <1>1, SinceBounds
<1>3. from \in 1 .. (MaxSeq + 1)
  <2>1. Max({first, since + 1}) \in 1 .. (MaxSeq + 1)
    BY <1>1, <1>2, MaxOfTwo
  <2>2. Max({first, last - PageLimit + 1}) \in 1 .. (MaxSeq + 1)
    BY <1>1, MaxOfTwo
  <2> QED BY <2>1, <2>2
<1>4. to \in 0 .. last
  <2> HIDE DEF from
  <2>1. from + PageLimit - 1 \in Nat /\ last \in Nat
    BY <1>1, <1>3
  <2> QED BY <2>1, MinOfTwo
<1>5. reads' = [reads EXCEPT ![r] =
                 [stage |-> "replied", since |-> since, from |-> from, to |-> to]]
  BY DEF Reply
<1>6. Since' = Since
  BY DEF Reply, Since, LastRoomSeq
<1> HIDE DEF since, from, to
<1>7. TypeOK'
  <2>1. since \in Seqs /\ from \in Seqs /\ to \in Seqs
    BY <1>1, <1>2, <1>3, <1>4 DEF Seqs
  <2>2. reads' \in [Readers -> Read]
    BY <1>0, <1>5, <2>1 DEF Read
  <2> QED BY <1>0, <2>2 DEF TypeOK, Reply, venue
<1>8. Bounded'
  BY <1>0 DEF Bounded, Reply
<1>9. ReadInv'
  BY <1>0, <1>2, <1>3, <1>4, <1>5, <1>6 DEF Reply, ReadInv, venue
<1>10. CoverInv'
  BY <1>0, <1>5, <1>6 DEF Reply, CoverInv, Covered
<1> QED BY <1>7, <1>8, <1>9, <1>10 DEF IInv

\* The hole before a reply is recorded, so that all is covered up to its first row; a
\* read without "since" may leave the newest beginning later, never earlier.
LEMMA BeginApplyStep ==
  ASSUME IInv, NEW r \in Readers, BeginApply(r)
  PROVE  IInv'
<1> DEFINE d == reads[r]
<1>0. TypeOK /\ Bounded /\ ReadInv /\ CoverInv /\ reads \in [Readers -> Read]
  BY DEF IInv, TypeOK
<1>1. /\ d \in [stage : {"replied", "applying"}, since : Seqs, from : Seqs, to : Seqs]
      /\ d.stage = "replied"
  BY <1>0, RepliedFields DEF BeginApply
<1>2. /\ d.since \in Nat /\ d.from \in Nat /\ d.to \in Nat /\ begun \in Nat
      /\ last \in Nat /\ d.from >= 1 /\ d.to <= last /\ d.since <= Since
  BY <1>0, <1>1, SyncAssumption DEF Seqs, TypeOK, ReadInv
<1>3. Since' = Since /\ Since \in 0 .. last
  BY <1>0, SinceBounds DEF BeginApply, Since, LastRoomSeq
<1>4. CASE d.from > d.to
  <2>1. reads' = [reads EXCEPT ![r] = Idle] /\ UNCHANGED <<reported, begun>>
    <3> DEFINE e == [d EXCEPT !.stage = "applying"]
    <3>1. reads' = [reads EXCEPT ![r] = IF d.from <= d.to THEN e ELSE Idle]
      BY DEF BeginApply
    <3>2. ~(d.from <= d.to)
      BY <1>2, <1>4
    <3> HIDE DEF e
    <3>3. UNCHANGED <<reported, begun>>
      BY <3>2 DEF BeginApply
    <3> QED BY <3>1, <3>2, <3>3
  <2>2. TypeOK'
    <3>1. reads' \in [Readers -> Read]
      BY <1>0, <2>1 DEF Idle, Read
    <3> QED BY <1>0, <2>1, <3>1 DEF TypeOK, BeginApply, venue
  <2>3. \A x \in Readers : reads'[x] = reads[x] \/ reads'[x].stage \in {"idle", "down"}
    BY <1>0, <2>1 DEF Idle
  <2> QED BY <1>2, <2>1, <2>2, <2>3, FrameStep DEF BeginApply, venue
<1>5. CASE d.from <= d.to
  <2> DEFINE e == [d EXCEPT !.stage = "applying"]
  <2>1. /\ e \in [stage : {"applying"}, since : Seqs, from : Seqs, to : Seqs]
        /\ e.since = d.since /\ e.from = d.from /\ e.to = d.to
    BY <1>1
  <2>2. /\ reads' = [reads EXCEPT ![r] = e]
        /\ reported' = IF d.since > 0 THEN reported \cup ((d.since + 1) .. (d.from - 1))
                        ELSE reported
        /\ begun' = IF d.since = 0 THEN Max({begun, d.from}) ELSE begun
        /\ UNCHANGED <<archive, cursor, crashes, first, last>>
    BY <1>5 DEF BeginApply, venue
  <2> HIDE DEF e
  <2>3. begun' = IF d.since = 0 /\ d.from > begun THEN d.from ELSE begun
    BY <1>2, <2>2, MaxOfTwo
  <2>4. TypeOK'
    <3>1. reads' \in [Readers -> Read]
      BY <1>0, <2>1, <2>2 DEF Read
    <3>2. reported' \subseteq 1 .. last'
      <4>1. reported \subseteq 1 .. last
        BY <1>0 DEF TypeOK
      <4>2. ((d.since + 1) .. (d.from - 1)) \subseteq 1 .. last
        BY <1>2, <1>5
      <4> QED BY <2>2, <4>1, <4>2
    <3>3. begun' \in Seqs
      BY <1>0, <1>1, <2>3 DEF TypeOK
    <3> QED BY <1>0, <2>2, <3>1, <3>2, <3>3 DEF TypeOK
  <2>5. Bounded'
    BY <1>0, <2>2 DEF Bounded
  <2>6. ReadInv'
    BY <1>0, <1>1, <1>3, <2>1, <2>2 DEF ReadInv
  <2>7. CoverInv'
    <3>1. begun' \in Nat /\ begun' > 0 /\ begun' >= begun
      \* Before anything was applied nothing is asked from a point above 0.
      <4>1. CASE begun = 0
        <5>1. Since = 0
          BY <1>0, <4>1, SinceBounds DEF CoverInv
        <5> QED BY <1>2, <2>3, <4>1, <5>1
      <4>2. CASE begun > 0
        BY <1>2, <2>3, <4>2
      <4> QED BY <1>2, <4>1, <4>2
    <3>2. ASSUME NEW k \in Int, begun > 0, Covered(k) PROVE Covered(k)'
      <4>1. reported \subseteq reported' /\ archive' = archive
        BY <2>2
      <4>2. (begun' .. k) \subseteq (begun .. k)
        BY <1>2, <2>3
      <4> QED BY <3>2, <4>1, <4>2 DEF Covered
    <3>3. Covered(Since)'
      <4>1. CASE begun = 0
        <5>1. Since = 0
          BY <1>0, <4>1, SinceBounds DEF CoverInv
        <5> QED BY <1>3, <3>1, <5>1 DEF Covered
      <4>2. CASE begun > 0
        <5>1. Covered(Since)
          BY <1>0, <4>2 DEF CoverInv
        <5>2. \A s \in (begun' .. Since) \ Chatter : s \in archive' \/ s \in reported'
          BY <1>3, <3>2, <4>2, <5>1 DEF Covered
        <5> QED BY <1>3, <5>2 DEF Covered
      <4> QED BY <1>2, <4>1, <4>2
    <3>4. \A s \in (begun' .. (d.from - 1)) \ Chatter : s \in archive' \/ s \in reported'
      <4>1. CASE d.since = 0
        BY <1>2, <2>3, <4>1
      <4>2. CASE d.since > 0
        <5> SUFFICES ASSUME NEW s \in begun' .. (d.from - 1), s \notin Chatter
                     PROVE  s \in archive' \/ s \in reported'
          OBVIOUS
        <5>1. CASE s > d.since
          BY <1>2, <2>2, <4>2, <5>1
        <5>2. CASE s <= d.since
          <6>1. s \in (begun' .. Since)
            BY <1>2, <1>3, <2>3, <5>2
          <6> QED BY <1>3, <3>3, <6>1 DEF Covered
        <5> QED BY <1>2, <2>3, <5>1, <5>2
      <4> QED BY <1>2, <4>1, <4>2
    <3>5. ASSUME NEW x \in Readers, reads'[x].stage = "applying"
          PROVE  \A s \in (begun' .. (reads'[x].from - 1)) \ Chatter :
                   s \in archive' \/ s \in reported'
      <4>1. CASE x = r
        BY <1>0, <2>1, <2>2, <3>4, <4>1
      <4>2. CASE x # r
        \* No other reply is being applied meanwhile.
        BY <1>0, <2>2, <3>5, <4>2 DEF BeginApply, Busy
      <4> QED BY <4>1, <4>2
    <3> QED BY <1>2, <3>1, <3>3, <3>5 DEF CoverInv, Covered
  <2> QED BY <2>4, <2>5, <2>6, <2>7 DEF IInv
<1> QED BY <1>2, <1>4, <1>5

\* A row goes in after all rows before it, so that Since never passes a hole.
LEMMA InsertRowStep ==
  ASSUME IInv, NEW r \in Readers, InsertRow(r)
  PROVE  IInv' /\ Since' >= Since
<1> DEFINE d == reads[r]
           e == [d EXCEPT !.from = @ + 1]
<1>0. TypeOK /\ Bounded /\ ReadInv /\ CoverInv /\ reads \in [Readers -> Read]
  BY DEF IInv, TypeOK
<1>1. /\ d \in [stage : {"replied", "applying"}, since : Seqs, from : Seqs, to : Seqs]
      /\ d.stage = "applying"
  BY <1>0, RepliedFields DEF InsertRow, Applying
<1>2. /\ d.from \in Nat /\ d.to \in Nat /\ begun \in Nat /\ last \in 0 .. MaxSeq
      /\ d.from >= 1 /\ d.from <= d.to /\ d.to <= last /\ MaxSeq \in Nat
  BY <1>0, <1>1, SyncAssumption DEF Seqs, TypeOK, ReadInv, InsertRow
<1>3. /\ e \in [stage : {"applying"}, since : Seqs, from : Seqs, to : Seqs]
      /\ e.since = d.since /\ e.from = d.from + 1 /\ e.to = d.to
  BY <1>1, <1>2 DEF Seqs
<1>4. /\ reads' = [reads EXCEPT ![r] = e]
      /\ archive' = archive \cup ({d.from} \ Chatter)
      /\ UNCHANGED <<first, last, cursor, crashes, reported, begun>>
  BY DEF InsertRow, Kept, venue
<1> HIDE DEF e
<1>5. archive' \in {archive, archive \cup {d.from}}
  BY <1>4
<1>6. cursor \in Nat /\ Since \in Nat /\ cursor <= cursor
  BY <1>0, <1>2, SinceBounds DEF TypeOK
<1>7. Bounded' /\ Since' \in Nat /\ Since' >= Since /\ Since' \in {Since, d.from}
  BY <1>0, <1>2, <1>4, <1>5, <1>6, SinceGrows
<1>8. TypeOK'
  <2>1. archive' \subseteq 1 .. last' /\ archive' \cap Chatter = {}
    <3>1. archive \subseteq 1 .. last /\ archive \cap Chatter = {}
      BY <1>0 DEF TypeOK
    <3>2. d.from \in 1 .. last
      BY <1>2
    <3>3. archive' = archive \cup ({d.from} \ Chatter) /\ last' = last
      BY <1>4
    <3> HIDE DEF d
    <3>4. archive' \subseteq 1 .. last'
      BY <3>1, <3>2, <3>3
    <3>5. archive' \cap Chatter = {}
      BY <3>1, <3>3
    <3> QED BY <3>4, <3>5
  <2>2. reads' \in [Readers -> Read]
    BY <1>0, <1>3, <1>4 DEF Read
  <2> QED BY <1>0, <1>4, <2>1, <2>2 DEF TypeOK
<1>9. ReadInv'
  <2> SUFFICES ASSUME NEW x \in Readers
               PROVE  ReadInv!(x)'
    BY DEF ReadInv
  <2>1. CASE x = r
    BY <1>0, <1>1, <1>2, <1>3, <1>4, <1>6, <1>7, <2>1, ReadFields DEF ReadInv
  <2>2. CASE x # r
    BY <1>0, <1>4, <1>6, <1>7, <2>2, ReadFields DEF ReadInv
  <2> QED BY <2>1, <2>2
<1>10. CoverInv'
  <2>1. begun > 0 /\ Covered(Since) /\ Covered(d.from - 1)
    BY <1>0, <1>1, <1>2 DEF CoverInv
  <2>2. \A s \in (begun .. d.from) \ Chatter : s \in archive' \/ s \in reported
    <3> SUFFICES ASSUME NEW s \in begun .. d.from, s \notin Chatter
                 PROVE  s \in archive' \/ s \in reported
      OBVIOUS
    <3>1. CASE s = d.from
      BY <1>4, <3>1
    <3>2. CASE s # d.from
      <4>1. s \in begun .. (d.from - 1)
        BY <1>2, <3>2
      <4> QED BY <1>4, <2>1, <4>1 DEF Covered
    <3> QED BY <3>1, <3>2
  <2>3. \A s \in (begun .. Since) \ Chatter : s \in archive' \/ s \in reported
    BY <1>4, <2>1 DEF Covered
  <2>4. \A s \in (begun .. Since') \ Chatter : s \in archive' \/ s \in reported
    BY <1>7, <2>2, <2>3
  <2>5. ASSUME NEW x \in Readers, reads'[x].stage = "applying"
        PROVE  \A s \in (begun .. (reads'[x].from - 1)) \ Chatter : s \in archive' \/ s \in reported
    <3>1. CASE x = r
      <4>1. reads'[x].from - 1 = d.from
        BY <1>0, <1>2, <1>3, <1>4, <3>1
      <4> QED BY <2>2, <4>1
    <3>2. CASE x # r
      <4>1. reads'[x] = reads[x]
        BY <1>0, <1>4, <3>2
      <4>2. Covered(reads[x].from - 1)
        BY <1>0, <2>1, <2>5, <4>1 DEF CoverInv
      <4> QED BY <1>4, <4>1, <4>2 DEF Covered
    <3> QED BY <3>1, <3>2
  <2> QED BY <1>2, <1>4, <2>1, <2>4, <2>5 DEF CoverInv, Covered
<1> QED BY <1>7, <1>8, <1>9, <1>10 DEF IInv

\* The cursor moves to the last seq of a reply all of whose rows are in.
LEMMA AdvanceStep ==
  ASSUME IInv, NEW r \in Readers, Advance(r)
  PROVE  IInv' /\ Since' >= Since
<1> DEFINE d == reads[r]
<1>0. TypeOK /\ Bounded /\ ReadInv /\ CoverInv /\ reads \in [Readers -> Read]
  BY DEF IInv, TypeOK
<1>1. /\ d \in [stage : {"replied", "applying"}, since : Seqs, from : Seqs, to : Seqs]
      /\ d.stage = "applying"
  BY <1>0, RepliedFields DEF Advance, Applying
<1>2. /\ d.from \in Nat /\ d.to \in Nat /\ begun \in Nat /\ last \in Nat /\ cursor \in Nat
      /\ d.from > d.to /\ d.to <= last /\ cursor <= last
  BY <1>0, <1>1, SyncAssumption DEF Seqs, TypeOK, ReadInv, Advance
<1>3. /\ reads' = [reads EXCEPT ![r] = Idle]
      /\ UNCHANGED <<first, last, archive, crashes, reported, begun>>
  BY DEF Advance, venue
<1>4. cursor' = IF cursor >= d.to THEN cursor ELSE d.to
  BY <1>2, MaxOfTwo DEF Advance
<1>5. cursor' \in 0 .. last /\ cursor <= cursor'
  BY <1>2, <1>4
<1>6. Since \in Nat
  BY <1>0, <1>2, SinceBounds
<1>7. Bounded' /\ Since' \in Nat /\ Since' >= Since /\ Since' \in {Since, cursor'}
  BY <1>0, <1>2, <1>3, <1>5, SinceGrows
<1>8. TypeOK'
  <2>1. reads' \in [Readers -> Read]
    BY <1>0, <1>3 DEF Idle, Read
  <2> QED BY <1>0, <1>3, <1>5, <2>1 DEF TypeOK
<1>9. ReadInv'
  <2> SUFFICES ASSUME NEW x \in Readers
               PROVE  ReadInv!(x)'
    BY DEF ReadInv
  <2>1. CASE x = r
    BY <1>0, <1>3, <2>1 DEF Idle
  <2>2. CASE x # r
    BY <1>0, <1>3, <1>6, <1>7, <2>2, ReadFields DEF ReadInv
  <2> QED BY <2>1, <2>2
<1>10. CoverInv'
  <2>1. begun > 0 /\ Covered(Since) /\ Covered(d.from - 1)
    BY <1>0, <1>1, <1>2 DEF CoverInv
  <2>2. cursor' <= Since \/ cursor' <= d.from - 1
    BY <1>0, <1>2, <1>4, <1>6, SinceBounds
  <2>3. Since' <= Since \/ Since' <= d.from - 1
    BY <1>2, <1>6, <1>7, <2>2
  <2>4. \A s \in (begun .. Since') \ Chatter : s \in archive \/ s \in reported
    <3> SUFFICES ASSUME NEW s \in begun .. Since', s \notin Chatter
                 PROVE  s \in archive \/ s \in reported
      OBVIOUS
    <3>1. s \in begun .. Since \/ s \in begun .. (d.from - 1)
      BY <1>2, <1>6, <1>7, <2>3
    <3> QED BY <2>1, <3>1 DEF Covered
  <2>5. ASSUME NEW x \in Readers, reads'[x].stage = "applying"
        PROVE  \A s \in (begun .. (reads'[x].from - 1)) \ Chatter : s \in archive \/ s \in reported
    <3>1. reads'[x] = reads[x]
      BY <1>0, <1>3, <2>5 DEF Idle
    <3>2. Covered(reads[x].from - 1)
      BY <1>0, <2>1, <2>5, <3>1 DEF CoverInv
    <3> QED BY <3>1, <3>2 DEF Covered
  <2> QED BY <1>2, <1>3, <2>1, <2>4, <2>5 DEF CoverInv, Covered
<1> QED BY <1>7, <1>8, <1>9, <1>10 DEF IInv

\* Any step keeps the invariant and lets Since move on only.
LEMMA NextHolds ==
  ASSUME IInv, [Next]_vars
  PROVE  IInv' /\ Since' >= Since
<1>0. TypeOK /\ reads \in [Readers -> Read] /\ last \in Nat /\ Since \in Nat
  BY SinceBounds DEF IInv, TypeOK
<1> DEFINE Still == UNCHANGED <<archive, cursor>>
<1>1. ASSUME Still PROVE Since' >= Since
  BY <1>0, <1>1 DEF Since, LastRoomSeq
<1>2. CASE UNCHANGED vars
  <2>1. TypeOK'
    BY <1>0, <1>2 DEF vars, venue, TypeOK
  <2> QED BY <1>0, <1>1, <1>2, <2>1, FrameStep DEF vars, venue
<1>3. ASSUME NEW r \in Readers, Ask(r) PROVE IInv' /\ Still
  BY <1>3, AskStep DEF Ask
<1>4. ASSUME NEW r \in Readers, Reply(r) PROVE IInv' /\ Still
  BY <1>4, ReplyStep DEF Reply
<1>5. ASSUME NEW r \in Readers, BeginApply(r) PROVE IInv' /\ Still
  BY <1>5, BeginApplyStep DEF BeginApply
<1>6. ASSUME NEW r \in Readers, Fail(r) PROVE IInv' /\ Still
  <2>1. TypeOK'
    BY <1>0, <1>6 DEF Fail, TypeOK, venue, Idle, Read
  <2> QED BY <1>0, <1>6, <2>1, FrameStep DEF Fail, venue, Idle
<1>7. CASE Crash
  <2>1. TypeOK'
    BY <1>0, <1>7, SyncAssumption DEF Crash, TypeOK, venue, Idle, Read
  <2> QED BY <1>0, <1>1, <1>7, <2>1, FrameStep DEF Crash, venue, Idle
<1>8. CASE Grow
  <2>1. TypeOK'
    BY <1>0, <1>8, SyncAssumption DEF Grow, TypeOK
  <2> QED BY <1>0, <1>1, <1>8, <2>1, FrameStep DEF Grow
<1>9. CASE Forget
  <2>1. TypeOK'
    BY <1>0, <1>9, SyncAssumption DEF Forget, TypeOK
  <2> QED BY <1>0, <1>1, <1>9, <2>1, FrameStep DEF Forget
<1> QED BY <1>1, <1>2, <1>3, <1>4, <1>5, <1>6, <1>7, <1>8, <1>9, InsertRowStep, AdvanceStep
       DEF Next, Apply

-----------------------------------------------------------------------------

\* The archive stays within what the venue has sent, and every read within its type.
THEOREM SyncTypeCorrect == Spec => []TypeOK
<1>1. IInv => TypeOK
  BY DEF IInv
<1>2. IInv /\ [Next]_vars => IInv'
  BY NextHolds
<1> QED BY InitHolds, <1>1, <1>2, PTL DEF Spec

\* No event is lost in silence, for any page size, retention and number of crashes.
THEOREM NothingLostInSilence == Spec => []NoSilentLoss
<1>1. IInv => NoSilentLoss
  BY DEF IInv, CoverInv, Covered, NoSilentLoss
<1>2. IInv /\ [Next]_vars => IInv'
  BY NextHolds
<1> QED BY InitHolds, <1>1, <1>2, PTL DEF Spec

\* What a late reply adds below the point from which reads ask was reported missing, or
\* is older than the newest first read, for any order of replies and crashes.
THEOREM BackfillAnnounced == Spec => BackfillIsAnnounced
<1>1. IInv /\ [Next]_vars
        => IInv' /\ [\A s \in archive' \ archive : s <= Since => s \in reported \/ s < begun]_vars
  <2>1. ASSUME IInv, [Next]_vars, NEW s \in archive' \ archive, s <= Since
        PROVE  s \in reported \/ s < begun
    <3>1. s \in Nat /\ s >= 1 /\ s \notin Chatter /\ begun \in Nat
      BY <2>1, NextHolds DEF IInv, TypeOK, Seqs
    <3>2. CASE begun > 0
      BY <2>1, <3>1, <3>2 DEF IInv, CoverInv, Covered
    <3>3. CASE begun = 0
      <4>1. archive = {} /\ cursor = 0
        BY <2>1, <3>3 DEF IInv, CoverInv
      <4>2. Since = 0
        BY <4>1, SinceIs DEF Since, LastRoomSeq
      <4> QED BY <2>1, <3>1, <4>2
    <3> QED BY <3>1, <3>2, <3>3
  <2> QED BY <2>1, NextHolds
<1> QED BY InitHolds, <1>1, PTL DEF Spec, BackfillIsAnnounced

\* The point from which reads ask never goes back.
THEOREM SinceNeverGoesBack == Spec => SinceMovesOn
<1>1. IInv /\ [Next]_vars => IInv' /\ [Since' >= Since]_vars
  BY NextHolds
<1> QED BY InitHolds, <1>1, PTL DEF Spec, SinceMovesOn
=============================================================================
