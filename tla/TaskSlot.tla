------------------------------ MODULE TaskSlot ------------------------------
(***************************************************************************)
(* What AgentRuntime promises for one session: agent tasks run one at a    *)
(* time, each at most once, and a task that ended never comes back.        *)
(***************************************************************************)
CONSTANTS Tasks, NoTask

VARIABLES
  running,   \* the task that occupies the session, or NoTask
  ended      \* the tasks that ran and ended

Init == running = NoTask /\ ended = {}

Occupy(t) ==
  /\ running = NoTask
  /\ t \notin ended
  /\ running' = t
  /\ UNCHANGED ended

Vacate ==
  /\ running # NoTask
  /\ running' = NoTask
  /\ ended' = ended \cup {running}

Next == Vacate \/ \E t \in Tasks : Occupy(t)

Spec == Init /\ [][Next]_<< running, ended >>
=============================================================================
