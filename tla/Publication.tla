----------------------------- MODULE Publication -----------------------------
(***************************************************************************)
(* What network mode promises about the messages it publishes              *)
(* (docs/NETWORK_MODE.md, "Publication envelopes are saved before          *)
(* sending"): a message is sealed before it is sent, sent at most once     *)
(* whatever the outcome, and vouched for only when it is there. A message  *)
(* that reports on others is sealed only after those were vouched for.     *)
(***************************************************************************)
CONSTANTS
  Messages,
  Subjects    \* [Messages -> SUBSET Messages], what a message reports on

VARIABLES
  stage,      \* none, sealed, sent, there (in the room) or gone
  vouched     \* messages the journal calls confirmed

Init ==
  /\ stage = [m \in Messages |-> "none"]
  /\ vouched = {}

Move(m, from, to) ==
  /\ stage[m] = from
  /\ stage' = [stage EXCEPT ![m] = to]
  /\ UNCHANGED vouched

Seal(m) ==
  /\ \A n \in Subjects[m] : stage[n] = "none" \/ n \in vouched
  /\ \A n \in Messages : m \in Subjects[n] => stage[n] = "none"
  /\ Move(m, "none", "sealed")

Send(m) == Move(m, "sealed", "sent")

Arrive(m) == Move(m, "sent", "there")

Lose(m) == Move(m, "sent", "gone")

Vouch(m) ==
  /\ stage[m] = "there"
  /\ vouched' = vouched \cup {m}
  /\ UNCHANGED stage

Next == \E m \in Messages : Seal(m) \/ Send(m) \/ Arrive(m) \/ Lose(m) \/ Vouch(m)

Spec == Init /\ [][Next]_<<stage, vouched>>
=============================================================================
