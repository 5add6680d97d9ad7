------------------------------ MODULE TaskRun ------------------------------
(***************************************************************************)
(* What the clients of a session may rely on about one agent task: it      *)
(* reports "running" any number of times, at most one last status, and     *)
(* nothing after that; it may end without a last status when it is aborted.*)
(***************************************************************************)
VARIABLES
  status,   \* the last task_status the task published, or "none"
  over      \* the task has ended

LastStatuses == {"done", "error", "interrupted"}

Init == status = "none" /\ over = FALSE

Report ==
  /\ ~over /\ status \notin LastStatuses
  /\ status' \in {"running"} \cup LastStatuses
  /\ UNCHANGED over

End == ~over /\ over' = TRUE /\ UNCHANGED status

Next == Report \/ End

Spec == Init /\ [][Next]_<< status, over >>
=============================================================================
