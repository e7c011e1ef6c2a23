------------------------------ MODULE TaskViews ------------------------------
(***************************************************************************)
(* The derivation of task state from the archived rows of the room:        *)
(* runtime/src/tasks.mjs, over the rows that Store.roomEvents returns.     *)
(*                                                                         *)
(* A row is a record with the venue's seq and ts, the author's DID and the *)
(* decoded event: kind, id, taskId (a task's own id for a task) and        *)
(*   task        expiresAt (0 when the event has none)                     *)
(*   claim       lease (leaseSeconds)                                      *)
(*   submission  claimId                                                   *)
(*   decision    submissionId and verdict.                                 *)
(* The code walks arrays sorted by seq and takes the first or the last     *)
(* element; here a first or last element is the one whose seq bounds the   *)
(* others, and "none" is the empty set.                                    *)
(***************************************************************************)
EXTENDS Integers, FiniteSets

CONSTANT RowLimit   \* the LIMIT of the query: 5000 in the code

ASSUME RowLimitAssumption == RowLimit \in Nat

\* The RowLimit OLDEST rows of the archive: ORDER BY seq ASC LIMIT ?.
Rows(archive) ==
  { e \in archive : Cardinality({ f \in archive : f.seq < e.seq }) < RowLimit }

FirstOf(S) == { e \in S : \A f \in S : e.seq <= f.seq }

LastOf(S) == { e \in S : \A f \in S : f.seq <= e.seq }

\* The row that opens the view of task t; a later row with the same id is skipped.
Posting(rows, t) == FirstOf({ e \in rows : e.kind = "task" /\ e.id = t })

\* What a view collects: a row read before its task's posting is dropped.
Items(rows, kind, t) ==
  { e \in rows : /\ e.kind = kind
                 /\ e.taskId = t
                 /\ \E p \in Posting(rows, t) : p.seq < e.seq }

\* Mutant of Standing: a lease never runs out.
StandingForever(rows, s) ==
  { c \in Items(rows, "claim", s.taskId) : c.seq < s.seq }

\* The claims that could win submission s: before it, lease not over at its ts.
Standing(rows, s) ==
  { c \in Items(rows, "claim", s.taskId) : c.seq < s.seq /\ c.ts + c.lease >= s.ts }

\* Mutant of ValidClaim: the latest standing claim wins.
ValidClaimLatest(rows, s) ==
  \E c \in LastOf(Standing(rows, s)) : c.id = s.claimId /\ c.author = s.author

ValidClaim(rows, s) ==
  \E c \in FirstOf(Standing(rows, s)) : c.id = s.claimId /\ c.author = s.author

ValidSubmissions(rows, t) ==
  { s \in Items(rows, "submission", t) : ValidClaim(rows, s) }

\* Mutant of ValidDecisions: anybody's verdict counts.
ValidDecisionsOfAnyone(rows, t) ==
  { d \in Items(rows, "decision", t) :
      \E s \in ValidSubmissions(rows, t) : d.submissionId = s.id }

ValidDecisions(rows, t) ==
  { d \in Items(rows, "decision", t) :
      /\ \E p \in Posting(rows, t) : d.author = p.author
      /\ \E s \in ValidSubmissions(rows, t) : d.submissionId = s.id }

Decision(rows, t) == LastOf(ValidDecisions(rows, t))

\* The earliest claim whose lease runs by the reader's own clock.
ActiveClaim(rows, t, now) ==
  FirstOf({ c \in Items(rows, "claim", t) : c.ts + c.lease > now })

TaskExpired(rows, t, now) ==
  \E p \in Posting(rows, t) : p.expiresAt # 0 /\ p.expiresAt <= now

\* Mutant of Status: expiry is looked at before the submissions.
StatusExpiryFirst(rows, t, now) ==
  IF Decision(rows, t) # {} THEN (CHOOSE d \in Decision(rows, t) : TRUE).verdict
  ELSE CASE TaskExpired(rows, t, now) -> "expired"
         [] ~TaskExpired(rows, t, now) /\ ValidSubmissions(rows, t) # {} -> "submitted"
         [] OTHER -> "open"

Status(rows, t, now) ==
  IF Decision(rows, t) # {} THEN (CHOOSE d \in Decision(rows, t) : TRUE).verdict
  ELSE CASE ValidSubmissions(rows, t) # {} -> "submitted"
         [] /\ ValidSubmissions(rows, t) = {}
            /\ TaskExpired(rows, t, now) -> "expired"
         [] /\ ValidSubmissions(rows, t) = {}
            /\ ~TaskExpired(rows, t, now)
            /\ ActiveClaim(rows, t, now) # {} -> "claimed"
         [] OTHER -> "open"
=============================================================================
