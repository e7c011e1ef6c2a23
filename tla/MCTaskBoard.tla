----------------------------- MODULE MCTaskBoard -----------------------------
(* Small instances of TaskBoard: one task, two participants each of which may  *)
(* act as requester, worker or stranger, a task that expires or does not. Two  *)
(* claims, two submissions and two verdicts may meet (MaxEach). A task without *)
(* expiry and repeats has a room of at most five messages, as many as two      *)
(* credited submissions take; with either, four: as many as a verdict takes.   *)
(* A sixth is the requester's verdict on a full view, which the limit cuts off.*)
EXTENDS TaskBoard, TLC

CONSTANTS d1, d2, t1

MCDids == {d1, d2}
MCTaskIds == {t1}
MCExpiries == {0, 1}

Kinds == {"task", "claim", "submission", "decision"}
MaxEach == [k \in Kinds |-> IF k = "task" THEN 1 ELSE 2]
MaxDecided == [k \in Kinds |-> IF k = "decision" THEN 2 ELSE 1]

FullView == Cardinality(archive) = RowLimit

Sixth ==
  FullView /\ Len(room') = 6 /\ room'[6].kind = "decision" /\ room'[6].author = room[1].author

Expires == \E i \in InRoom("task") : room[i].expiresAt # 0

Repeats == \E i, j \in 1 .. Len(room) : i # j /\ room[i].id = room[j].id

RoomBound == IF Expires \/ Repeats THEN 4 ELSE 5

MCSpec == Init /\ [][Next /\ (Len(room') <= RoomBound' \/ Sixth \/ UNCHANGED room)]_vars

DidSymmetry == Permutations(MCDids)
=============================================================================
