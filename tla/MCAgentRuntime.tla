--------------------------- MODULE MCAgentRuntime ---------------------------
(* Small instances of AgentRuntime.                                         *)
EXTENDS AgentRuntime

CONSTANTS t1, t2, t3, r1, r2, r3

TwoTasks == {t1, t2}
ThreeTasks == {t1, t2, t3}
ThreeRequests == {r1, r2, r3}
=============================================================================
