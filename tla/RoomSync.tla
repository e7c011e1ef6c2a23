------------------------------- MODULE RoomSync -------------------------------
(***************************************************************************)
(* How the runtime reads the room: TechnocoreClient.syncOnce, called by    *)
(* the background loop of start() and by the agent worker at the same      *)
(* time, over the archive and the cursor in SQLite.                        *)
(*                                                                         *)
(* A read asks for what follows the larger of the archive's last seq and   *)
(* the cursor AS THEY WERE when it was asked, and its reply is applied     *)
(* whenever it comes. Applying it is one callback, but every row and the   *)
(* cursor are written on their own, so a crash may fall between any two.   *)
(*                                                                         *)
(* The venue is external: it keeps the messages from "first" on, answers   *)
(* with the oldest PageLimit messages it still has after "since", or with  *)
(* the newest ones when asked without, and names the first it returns.     *)
(* Messages are their seqs; TaskBoard says what is in them.                *)
(***************************************************************************)
EXTENDS Integers, FiniteSets, FiniteSetsExt

CONSTANTS
  Loop, Worker, \* the two callers of syncOnce
  Chatter,      \* seqs of messages that are no valid PACT event
  PageLimit,    \* limit=200 in the code
  MaxSeq,       \* bound on the messages
  MaxCrashes    \* bound on crashes

ASSUME SyncAssumption ==
  /\ Loop # Worker
  /\ Chatter \subseteq Nat
  /\ PageLimit \in Nat \ {0} /\ MaxSeq \in Nat /\ MaxCrashes \in Nat

VARIABLES
  first, last,  \* the venue's oldest and newest message
  archive,      \* seqs in room_events
  cursor,       \* technocore-cursor
  reads,        \* the read each caller has under way
  crashes,
  reported,     \* ghost: what technocore_gap ever named as lost
  begun         \* ghost: where the newest read without "since" began

venue == <<first, last>>
vars == <<venue, archive, cursor, reads, crashes, reported, begun>>

Readers == {Loop, Worker}

Idle == [stage |-> "idle"]

Seqs == 0 .. (MaxSeq + 1)

Read ==
  [stage : {"idle", "down"}] \cup [stage : {"asked"}, since : Seqs]
  \cup [stage : {"replied", "applying"}, since : Seqs, from : Seqs, to : Seqs]

\* Every variable keeps its type and stays within what the venue has sent.
TypeOK ==
  /\ first \in 1 .. (MaxSeq + 1) /\ last \in 0 .. MaxSeq
  /\ archive \subseteq 1 .. last /\ archive \cap Chatter = {}
  /\ cursor \in 0 .. last
  /\ reads \in [Readers -> Read]
  /\ crashes \in 0 .. MaxCrashes
  /\ reported \subseteq 1 .. last /\ begun \in Seqs

Init ==
  /\ first = 1 /\ last = 0
  /\ archive = {} /\ cursor = 0
  /\ reads = [r \in Readers |-> Idle]
  /\ crashes = 0 /\ reported = {} /\ begun = 0

-----------------------------------------------------------------------------

\* Between the steps of applying a reply no other callback runs.
Busy == \E r \in Readers : reads[r].stage = "applying"

LastRoomSeq == Max(archive \cup {0})

Since == Max({LastRoomSeq, cursor})

Ask(r) ==
  /\ ~Busy /\ reads[r] = Idle
  /\ reads' = [reads EXCEPT ![r] = [stage |-> "asked", since |-> Since]]
  /\ UNCHANGED <<venue, archive, cursor, crashes, reported, begun>>

\* The venue answers; nothing new is an empty range.
Reply(r) ==
  /\ ~Busy /\ reads[r].stage = "asked"
  /\ LET since == reads[r].since
         from == IF since > 0 THEN Max({first, since + 1})
                 ELSE Max({first, last - PageLimit + 1})
     IN reads' = [reads EXCEPT ![r] =
          [stage |-> "replied", since |-> since, from |-> from,
           to |-> Min({last, from + PageLimit - 1})]]
  /\ UNCHANGED <<venue, archive, cursor, crashes, reported, begun>>

\* Mutant of Fail: an error ends the loop.
FailForGood(r) ==
  /\ ~Busy /\ reads[r].stage = "asked"
  /\ reads' = [reads EXCEPT ![r] = [stage |-> "down"]]
  /\ UNCHANGED <<venue, archive, cursor, crashes, reported, begun>>

\* An error or a timeout: the loop and the worker's timer try again.
Fail(r) ==
  /\ ~Busy /\ reads[r].stage = "asked"
  /\ reads' = [reads EXCEPT ![r] = Idle]
  /\ UNCHANGED <<venue, archive, cursor, crashes, reported, begun>>

\* A hole between what was asked for and what came first is recorded.
BeginApply(r) ==
  /\ ~Busy /\ reads[r].stage = "replied"
  /\ LET d == reads[r]
         some == d.from <= d.to
     IN /\ reported' = IF some /\ d.since > 0
                       THEN reported \cup ((d.since + 1) .. (d.from - 1)) ELSE reported
        /\ begun' = IF some /\ d.since = 0 THEN Max({begun, d.from}) ELSE begun
        /\ reads' = [reads EXCEPT ![r] =
             IF some THEN [d EXCEPT !.stage = "applying"] ELSE Idle]
  /\ UNCHANGED <<venue, archive, cursor, crashes>>

Applying(r) == reads[r].stage = "applying"

\* A message that is malformed or no PACT event is passed over.
Kept(s) == {s} \ Chatter

\* Mutant of InsertRow: the newest row of a reply is inserted first.
InsertRowBackwards(r) ==
  /\ Applying(r) /\ reads[r].from <= reads[r].to
  /\ archive' = archive \cup Kept(reads[r].to)
  /\ reads' = [reads EXCEPT ![r].to = @ - 1]
  /\ UNCHANGED <<venue, cursor, crashes, reported, begun>>

\* What is left to insert of a reply that is being applied starts at "from".
InsertRow(r) ==
  /\ Applying(r) /\ reads[r].from <= reads[r].to
  /\ archive' = archive \cup Kept(reads[r].from)
  /\ reads' = [reads EXCEPT ![r].from = @ + 1]
  /\ UNCHANGED <<venue, cursor, crashes, reported, begun>>

\* Mutant of Advance: the cursor is set to the seq expected next.
AdvanceTooFar(r) ==
  /\ Applying(r) /\ reads[r].from > reads[r].to
  /\ cursor' = Max({cursor, reads[r].to + 1})
  /\ reads' = [reads EXCEPT ![r] = Idle]
  /\ UNCHANGED <<venue, archive, crashes, reported, begun>>

\* All rows are in: the cursor moves to the reply's last seq, never back.
Advance(r) ==
  /\ Applying(r) /\ reads[r].from > reads[r].to
  /\ cursor' = Max({cursor, reads[r].to})
  /\ reads' = [reads EXCEPT ![r] = Idle]
  /\ UNCHANGED <<venue, archive, crashes, reported, begun>>

Crash ==
  /\ crashes < MaxCrashes
  /\ crashes' = crashes + 1
  /\ reads' = [r \in Readers |-> Idle]
  /\ UNCHANGED <<venue, archive, cursor, reported, begun>>

-----------------------------------------------------------------------------

Grow ==
  /\ ~Busy /\ last < MaxSeq
  /\ last' = last + 1
  /\ UNCHANGED <<first, archive, cursor, reads, crashes, reported, begun>>

\* Retention: the venue forgets its oldest message.
Forget ==
  /\ ~Busy /\ first <= last
  /\ first' = first + 1
  /\ UNCHANGED <<last, archive, cursor, reads, crashes, reported, begun>>

Apply(r) == BeginApply(r) \/ InsertRow(r) \/ Advance(r)

Next ==
  \/ \E r \in Readers : Ask(r) \/ Reply(r) \/ Fail(r) \/ Apply(r)
  \/ Crash
  \/ Grow \/ Forget

Spec == Init /\ [][Next]_vars

\* The loop asks again and again, what it asks is answered now and then, and a
\* callback that began ends. Nothing is assumed of the worker.
Fairness ==
  /\ WF_vars(Ask(Loop)) /\ SF_vars(Reply(Loop))
  /\ WF_vars(Apply(Loop)) /\ WF_vars(Apply(Worker))

FairSpec == Spec /\ Fairness

-----------------------------------------------------------------------------

\* No event is lost in silence: of the seqs from the tail on that the newest first
\* read returned, up to the point from which the next read will ask, every event is
\* archived or was named by a recorded gap, through crashes between two writes and
\* replies that overlap or come late.
NoSilentLoss ==
  begun > 0 =>
    \A s \in (begun .. Since) \ Chatter : s \in archive \/ s \in reported

\* A row that a late reply adds below the point from which reads ask, where it can
\* change what the views said of later rows, was named by a recorded gap until then, or
\* is older than what the newest first read returned: all else that reads have passed
\* is settled.
BackfillIsAnnounced ==
  [][\A s \in archive' \ archive : s <= Since => s \in reported \/ s < begun]_vars

\* The point from which reads ask never goes back, so that nothing is fetched again
\* and again: it follows the archive and the cursor together, whichever of two
\* overlapping replies is applied last.
SinceMovesOn == [][Since' >= Since]_vars

\* An event that the venue keeps is archived at last, as long as the archive begins
\* before it.
EventuallyArchived ==
  \A s \in (1 .. MaxSeq) \ Chatter :
    [](s <= last => <>(s \in archive \/ s < first \/ s < begun))
=============================================================================
