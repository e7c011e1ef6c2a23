------------------------------ MODULE TaskBoard ------------------------------
(***************************************************************************)
(* The work exchange seen from one runtime: participants post signed       *)
(* PACT/1 events to the venue's room (through POST /v1/messages, their own *)
(* tools or the agent worker), the venue numbers and dates them, and the   *)
(* runtime archives what its reads return and derives every task's state.  *)
(*                                                                         *)
(* Reads follow one another here: a reply begins past the cursor. Reads    *)
(* that overlap are the subject of RoomSync.                               *)
(*                                                                         *)
(* The venue is external: it appends accepted messages, gives each the     *)
(* next seq and a ts that never decreases, and answers a read with a block *)
(* of consecutive messages that may begin later than asked (retention) and *)
(* end earlier than the room does (page size, a reply already under way).  *)
(* Event bodies no rule reads (titles, sources, summaries) are left out, as *)
(* are the signatures, which the model takes to be verified, and the       *)
(* status entries of a sync (gap, last sync), which no view reads.         *)
(***************************************************************************)
EXTENDS TaskViews, Sequences

CONSTANTS
  Dids,       \* requesters and workers
  TaskIds,    \* ids of task events
  Leases,     \* leaseSeconds a claim may ask for
  Expiries,   \* expiresAt of a task; 0 is none
  MaxEvents,  \* bound on the messages of each kind in the room
  MaxReposts, \* bound on the messages that repeat an earlier event
  MaxTime     \* bound on the clock

ASSUME BoardAssumption ==
  /\ Leases \subseteq Nat \ {0}
  /\ Expiries \subseteq Nat
  /\ MaxEvents \in [{"task", "claim", "submission", "decision"} -> Nat]
  /\ MaxReposts \in Nat
  /\ MaxTime \in Nat
  /\ TaskIds \cap Nat = {}

VARIABLES
  room,       \* the venue's messages, in seq order
  archive,    \* the room_events table
  cursor,     \* the sync cursor: the largest seq of any reply
  now         \* the clock, venue's and runtime's

vars == <<room, archive, cursor, now>>

EventIds == TaskIds \cup Nat

Verdicts == {"accepted", "rejected"}

TaskRow == { r \in [kind : {"task"}, id : TaskIds, taskId : TaskIds, author : Dids,
                     expiresAt : Expiries, seq : Nat, ts : Nat] : r.taskId = r.id }

ClaimRow == [kind : {"claim"}, id : Nat, taskId : TaskIds, author : Dids,
             lease : Leases, seq : Nat, ts : Nat]

SubmissionRow == [kind : {"submission"}, id : Nat, taskId : TaskIds,
                  author : Dids, claimId : Nat, seq : Nat, ts : Nat]

DecisionRow == [kind : {"decision"}, id : Nat, taskId : TaskIds, author : Dids,
                submissionId : Nat, verdict : Verdicts, seq : Nat, ts : Nat]

Row == TaskRow \cup ClaimRow \cup SubmissionRow \cup DecisionRow

\* A type invariant: the room is numbered from 1, the archive holds its rows.
TypeOK ==
  /\ room \in Seq(Row)
  /\ archive \subseteq Row
  /\ cursor \in 0 .. Len(room)
  /\ now \in Nat

InRoom(kind) == { i \in 1 .. Len(room) : room[i].kind = kind }

Init ==
  /\ room = <<>>
  /\ archive = {}
  /\ cursor = 0
  /\ now = 0

NextSeq == Len(room) + 1

Known == { room[i].id : i \in InRoom("task") }

Post(row) ==
  /\ Cardinality(InRoom(row.kind)) < MaxEvents[row.kind]
  /\ room' = Append(room, row)
  /\ UNCHANGED <<archive, cursor, now>>

\* Event ids are fresh UUIDs: a task id is used for one task and known only once
\* its task is in the room, the seq of its first posting stands for any other id.
PostTask(d, t, x) ==
  /\ t \notin Known
  /\ Post([kind |-> "task", id |-> t, taskId |-> t, author |-> d,
        expiresAt |-> x, seq |-> NextSeq, ts |-> now])

PostClaim(d, t, lease) ==
  /\ t \in Known
  /\ Post([kind |-> "claim", id |-> NextSeq, taskId |-> t, author |-> d,
        lease |-> lease, seq |-> NextSeq, ts |-> now])

PostSubmission(d, t, c) ==
  /\ t \in Known
  /\ Post([kind |-> "submission", id |-> NextSeq, taskId |-> t, author |-> d,
        claimId |-> room[c].id, seq |-> NextSeq, ts |-> now])

PostDecision(d, t, s, verdict) ==
  /\ t \in Known
  /\ Post([kind |-> "decision", id |-> NextSeq, taskId |-> t, author |-> d,
        submissionId |-> room[s].id, verdict |-> verdict,
        seq |-> NextSeq, ts |-> now])

\* A client that got no acknowledgement signs the same event again.
Repost(i) ==
  /\ Cardinality({ j \in 1 .. Len(room) : \E k \in 1 .. (j - 1) : room[k].id = room[j].id })
       < MaxReposts
  /\ Post([room[i] EXCEPT !.seq = NextSeq, !.ts = now])

\* Mutant of Insert: no UNIQUE(room, event_id).
InsertAll(rows) == archive \cup rows

\* INSERT OR IGNORE: a row whose event id is archived already is not stored,
\* and of two rows of one reply with the same id the first is.
Insert(rows) ==
  archive \cup
    { e \in rows : /\ \A f \in archive : f.id # e.id
                   /\ \A f \in rows : f.id = e.id => e.seq <= f.seq }

\* Mutant of SyncOnce: a read may return what lies before the cursor.
SyncOnceBackfill(first, last) ==
  /\ first <= last
  /\ archive' = Insert({ room[i] : i \in first .. last })
  /\ cursor' = IF last > cursor THEN last ELSE cursor
  /\ UNCHANGED <<room, now>>

\* syncOnce: ask for what follows the cursor, store the reply, move the cursor.
SyncOnce(first, last) ==
  /\ cursor < first /\ first <= last
  /\ archive' = Insert({ room[i] : i \in first .. last })
  /\ cursor' = last
  /\ UNCHANGED <<room, now>>

Tick ==
  /\ now < MaxTime
  /\ now' = now + 1
  /\ UNCHANGED <<room, archive, cursor>>

Next ==
  \/ \E d \in Dids, t \in TaskIds, x \in Expiries : PostTask(d, t, x)
  \/ \E d \in Dids, t \in TaskIds, lease \in Leases : PostClaim(d, t, lease)
  \/ \E d \in Dids, t \in TaskIds, c \in InRoom("claim") : PostSubmission(d, t, c)
  \/ \E d \in Dids, t \in TaskIds, s \in InRoom("submission"), v \in Verdicts :
       PostDecision(d, t, s, v)
  \/ \E i \in 1 .. Len(room) : Repost(i)
  \/ \E first, last \in 1 .. Len(room) : SyncOnce(first, last)
  \/ Tick

Spec == Init /\ [][Next]_vars

-----------------------------------------------------------------------------

Visible == Rows(archive)

\* The archive is a faithful, duplicate-free part of the room: every row is the
\* room's message with that seq, none lies past the cursor, no event id occurs
\* twice. Retries and pages that overlap must not store an event again.
ArchiveInv ==
  /\ \A e \in archive : e.seq \in 1 .. cursor /\ room[e.seq] = e
  /\ \A e, f \in archive : e.id = f.id => e = f

\* Time in the room: seq is the position, ts never decreases along the room and
\* never runs ahead of the clock. The derivation of winners leans on this order.
RoomInv ==
  /\ \A i \in 1 .. Len(room) : room[i].seq = i /\ room[i].ts <= now
  /\ \A i, j \in 1 .. Len(room) : i <= j => room[i].ts <= room[j].ts

\* Two submissions that buildTaskViews both accepts for one task under different
\* claims were made by successive holders: the earlier submission's claim comes
\* first and its lease was over when the later one was sent. Two agents are never
\* both credited for overlapping leases.
OneHolderAtATime ==
  \A t \in TaskIds : \A s1, s2 \in ValidSubmissions(Visible, t) :
    s1.seq < s2.seq /\ s1.claimId # s2.claimId =>
      \E c1, c2 \in Items(Visible, "claim", t) :
        /\ c1.id = s1.claimId /\ c2.id = s2.claimId
        /\ c1.seq < c2.seq
        /\ c1.ts + c1.lease < s2.ts

\* What the two rules for "who holds the task" promise each other: activeClaim
\* (the local clock, strict) names a claim whose author, submitting at this very
\* moment, is accepted by the rule for submissions (venue times, not strict),
\* except at the instant at which another lease runs out, where the two differ.
ActiveHolderCanSubmit ==
  \A t \in TaskIds : \A c \in ActiveClaim(Visible, t, now) :
    (\A b \in Items(Visible, "claim", t) : b.ts + b.lease # now) =>
      ValidClaim(Visible,
        [kind |-> "submission", id |-> NextSeq, taskId |-> t,
         author |-> c.author, claimId |-> c.id, seq |-> NextSeq, ts |-> now])

\* A task shown accepted or rejected has its whole chain on record, in seq order
\* and by the right parties: the requester's posting, a claim, a submission by the
\* claim's author while the lease ran, and the requester's verdict on it.
\* ("claim-bound submission, requester-only decision", docs/ARCHITECTURE.md.)
DecidedTaskHasItsChain ==
  \A t \in TaskIds : Status(Visible, t, now) \in Verdicts =>
    \E p, c, s, d \in Visible :
      /\ <<p.kind, c.kind, s.kind, d.kind>> = <<"task", "claim", "submission", "decision">>
      /\ {p.taskId, c.taskId, s.taskId, d.taskId} = {t}
      /\ p.seq < c.seq /\ c.seq < s.seq /\ p.seq < d.seq
      /\ s.claimId = c.id /\ s.author = c.author
      /\ s.ts <= c.ts + c.lease
      /\ d.submissionId = s.id /\ d.author = p.author
      /\ d.verdict = Status(Visible, t, now)

\* "SQLite archives accepted events and derives deterministic task state"
\* (docs/ARCHITECTURE.md): the state shown of a task is the one that follows from
\* all the events in the archive.
EveryEventCounts ==
  \A t \in TaskIds : Status(Visible, t, now) = Status(archive, t, now)

\* Whether an archived submission counts never changes, whatever is archived
\* later and however late: the view a requester decides on is not rewritten.
ValidityIsFinal ==
  [][\A s \in Visible : s.kind = "submission" =>
       /\ s \in Visible'
       /\ (s \in ValidSubmissions(Visible, s.taskId))
            <=> (s \in ValidSubmissions(Visible', s.taskId))]_vars

\* Once work has been submitted the task is never offered again, not by expiry
\* and not by a lease running out, and once decided it stays decided.
ProgressIsKept ==
  [][\A t \in TaskIds :
       LET before == Status(Visible, t, now)
           after == Status(Visible, t, now)'
       IN /\ before = "submitted" => after \in {"submitted"} \cup Verdicts
          /\ before \in Verdicts => after \in Verdicts]_vars
=============================================================================
