---------------------------- MODULE MCAgentWorker ----------------------------
(* Small instances of AgentWorker: two agents and a requester who may also   *)
(* claim and submit, over one or two tasks.                                  *)
EXTENDS AgentWorker

CONSTANTS a1, a2, r, t1, t2

TwoAgents == {a1, a2}
FirstA1 == [a \in Agents |-> IF a = a1 THEN 1 ELSE 2]
TwoAgentsDids == {a1, a2, r}
OnlyR == {r}
OneTask == {t1}
TwoTasks == {t1, t2}
SuitsAll == [a \in Agents |-> TaskIds]
\* The second agent suits the first task only.
SuitsFewer == [a \in Agents |-> IF a = a1 THEN TaskIds ELSE {t1}]
OneLease == {1}
NoExpiry == {0}

\* Claims by rivals; every agent may claim again.
Contested ==
  [k \in {"task", "claim", "submission", "decision"} |->
     CASE k \in {"claim", "submission"} -> 2 [] k = "task" -> 1 [] OTHER -> 0]

TwoJobs ==
  [k \in {"task", "claim", "submission", "decision"} |->
     IF k = "decision" THEN 0 ELSE 2]
=============================================================================
