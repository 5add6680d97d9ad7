------------------------- MODULE AgentRuntimeProofs -------------------------
(***************************************************************************)
(* Proofs about AgentRuntime for any set of tasks and of requests.  The    *)
(* argument rests on Interruptible: submit() registers a task only when    *)
(* the registered one is done, and a done-callback unregisters only its    *)
(* own task, so an unfinished task is always the registered one.           *)
(***************************************************************************)
EXTENDS AgentRuntime, TLAPS

\* The initial state satisfies the inductive invariant.
LEMMA InitInv == Init => IInv
<1> SUFFICES ASSUME Init PROVE IInv
  OBVIOUS
<1> USE RuntimeAssumption DEF Init
<1>1. TypeOK
  BY DEF TypeOK, Places, Alive, Fresh
<1>2. Unfinished = {}
  BY DEF Unfinished, Alive
<1>3. TargetsAsked
  BY DEF TargetsAsked, Fresh
<1> QED
  BY <1>1, <1>2, <1>3 DEF IInv, Interruptible, NoStaleInterrupt, CancelsOnlyAsked

\* Requests: every step of submit() and interrupt() keeps the invariant.
LEMMA RequestStep ==
  ASSUME IInv, NEW r \in Requests, Call(r) \/ Submit(r) \/ Interrupt(r)
  PROVE  IInv'
<1> USE RuntimeAssumption DEF IInv, TypeOK, Interruptible, NoStaleInterrupt,
        CancelsOnlyAsked, TargetsAsked, Unfinished, Alive, Places, tasks, counters
<1>1. CASE Call(r)
  BY <1>1 DEF Call
<1>2. CASE SubmitRefused(r)
  BY <1>2 DEF SubmitRefused, Done
<1>3. CASE RefusalPublished(r)
  BY <1>3 DEF RefusalPublished, Done
<1>4. CASE SubmitAccepted(r)
  BY <1>4 DEF SubmitAccepted, Done, Busy
<1>5. CASE InterruptRunning(r)
  BY <1>5 DEF InterruptRunning, Done, Busy, Overflow
<1>6. CASE InterruptCancels(r)
  BY <1>6 DEF InterruptCancels, Done
<1>7. CASE InterruptIdle(r)
  BY <1>7 DEF InterruptIdle, Done, Busy
<1> QED
  BY <1>1, <1>2, <1>3, <1>4, <1>5, <1>6, <1>7 DEF Submit, Interrupt

\* Tasks: every step of _run_message and of the done-callback keeps it.
LEMMA TaskStep ==
  ASSUME IInv, NEW t \in Tasks, RunMessage(t) \/ Cleanup(t)
  PROVE  IInv'
<1> USE RuntimeAssumption DEF IInv, TypeOK, Interruptible, NoStaleInterrupt,
        CancelsOnlyAsked, TargetsAsked, Unfinished, Alive, Places, counters
<1>1. CASE Start(t)
  BY <1>1 DEF Start, Step, After
<1>2. CASE Touched(t)
  BY <1>2 DEF Touched, Step
<1>3. CASE LoopRunning(t)
  BY <1>3 DEF LoopRunning, Step, After
<1>4. CASE LoopResumes(t)
  BY <1>4 DEF LoopResumes, Step
<1>5. CASE LoopEnds(t)
  BY <1>5 DEF LoopEnds, Step, After
<1>6. CASE LoopRaises(t)
  BY <1>6 DEF LoopRaises, Step
<1>7. CASE CrashPublished(t)
  BY <1>7 DEF CrashPublished, Step
<1>8. CASE LastStatusPublished(t)
  BY <1>8 DEF LastStatusPublished, Step
<1>9. CASE LoopOverflows(t)
  BY <1>9 DEF LoopOverflows, Step, Overflow
<1>10. CASE Leave(t)
  BY <1>10 DEF Leave, Step
<1>11. CASE Cancelled(t)
  BY <1>11 DEF Cancelled
<1>12. CASE Cleanup(t)
  BY <1>12 DEF Cleanup
<1> QED
  BY <1>1, <1>2, <1>3, <1>4, <1>5, <1>6, <1>7, <1>8, <1>9, <1>10, <1>11, <1>12
     DEF RunMessage

\* A restart empties everything the invariant speaks about.
LEMMA RestartStep == IInv /\ Restart => IInv'
<1> SUFFICES ASSUME IInv, Restart PROVE IInv'
  OBVIOUS
<1>1. TypeOK'
  <2>1. req' \in [Requests -> [at : {"new", "submit", "interrupt", "refusing",
                                   "cancelling", "answered"},
                             target : Tasks \cup {NoTask}]]
    BY DEF IInv, TypeOK, Restart
  <2>2. task' \in [Tasks -> Places]
    BY DEF IInv, TypeOK, Restart, Places
  <2>3. restarts' \in Nat /\ redis' \in BOOLEAN /\ cancelled' \in SUBSET Tasks
    BY DEF IInv, TypeOK, Restart
  <2> QED
    BY <2>1, <2>2, <2>3 DEF IInv, TypeOK, Restart
<1>2. Unfinished' = {}
  BY DEF IInv, TypeOK, Restart, Unfinished, Alive
<1>3. TargetsAsked'
  BY DEF IInv, TypeOK, Restart, TargetsAsked
<1>4. Interruptible' /\ NoStaleInterrupt'
  BY <1>2 DEF Interruptible, NoStaleInterrupt
<1>5. CancelsOnlyAsked'
  BY DEF Restart, CancelsOnlyAsked
<1> QED
  BY <1>1, <1>3, <1>4, <1>5 DEF IInv

\* The inductive step.
LEMMA StepInv == IInv /\ [Next]_vars => IInv'
<1> SUFFICES ASSUME IInv, [Next]_vars PROVE IInv'
  OBVIOUS
<1>1. CASE UNCHANGED vars
  BY <1>1 DEF vars, IInv, TypeOK, Interruptible, NoStaleInterrupt, CancelsOnlyAsked,
              TargetsAsked, Unfinished
<1>2. CASE Next
  BY <1>2, RequestStep, TaskStep, RestartStep DEF Next
<1> QED
  BY <1>1, <1>2

\* The state of the registry, the flag and every task is always well-formed.
THEOREM TypeCorrect == Spec => []TypeOK
BY InitInv, StepInv, PTL DEF Spec, IInv

\* An unfinished agent task is the registered one, so interrupt() finds it.
THEOREM AlwaysInterruptible == Spec => []Interruptible
BY InitInv, StepInv, PTL DEF Spec, IInv

\* The flag an agent task can see was raised for that task.
THEOREM FlagIsFresh == Spec => []NoStaleInterrupt
BY InitInv, StepInv, PTL DEF Spec, IInv

\* Only tasks somebody asked to stop are ever cancelled.
THEOREM CancelsAreMeant == Spec => []CancelsOnlyAsked
BY InitInv, StepInv, PTL DEF Spec, IInv

\* At most one agent task of a session is unfinished.
THEOREM AtMostOneTask == Spec => []OneTask
<1>1. IInv => OneTask
  BY DEF IInv, Interruptible, OneTask
<1> QED
  BY <1>1, InitInv, StepInv, PTL DEF Spec

----------------------------------------------------------------------------
\* Without Redis, a restart or a full queue, whoever published "running" last is
\* still in its loop and will run on: no interrupt is between its publish() and its
\* cancel(), so every task that leaves its loop or is cancelled has published another
\* status after it.
RunnerLoops ==
  ~redis /\ overflows = 0 /\ restarts = 0 =>
    /\ \A r \in Requests : req[r].at # "cancelling"
    /\ status = "running" => \E t \in Tasks : task[t] = "looping" /\ t \notin cancelled

\* Requests: an interrupt that cancels the runner has published "interrupted".
LEMMA RunnerRequests ==
  ASSUME TypeOK, RunnerLoops, NEW r \in Requests, Call(r) \/ Submit(r) \/ Interrupt(r)
  PROVE  RunnerLoops'
<1> USE RuntimeAssumption DEF TypeOK, RunnerLoops, tasks, counters
<1>1. CASE Call(r)
  BY <1>1 DEF Call
<1>2. CASE SubmitRefused(r) \/ RefusalPublished(r) \/ InterruptCancels(r) \/ InterruptIdle(r)
  BY <1>2 DEF SubmitRefused, RefusalPublished, InterruptCancels, InterruptIdle, Done
<1>3. CASE SubmitAccepted(r)
  <2>1. PICK u \in Tasks : task[u] = "absent" /\ task' = [task EXCEPT ![u] = "created"]
    BY <1>3 DEF SubmitAccepted
  <2> QED
    BY <1>3, <2>1 DEF SubmitAccepted, Done
<1>4. CASE InterruptRunning(r)
  BY <1>4 DEF InterruptRunning, Done, Overflow
<1> QED
  BY <1>1, <1>2, <1>3, <1>4 DEF Submit, Interrupt

\* Tasks: nobody leaves the loop without another status.
LEMMA RunnerTasks ==
  ASSUME TypeOK, RunnerLoops, NEW t \in Tasks, RunMessage(t) \/ Cleanup(t)
  PROVE  RunnerLoops'
<1> USE DEF TypeOK, RunnerLoops, counters
<1>1. CASE Start(t) \/ Touched(t) \/ LoopResumes(t) \/ LastStatusPublished(t) \/ Leave(t)
  BY <1>1 DEF Start, Touched, LoopResumes, LastStatusPublished, Leave, Step, After
<1>2. CASE LoopRunning(t)
  BY <1>2 DEF LoopRunning, Step, After
<1>3. CASE LoopEnds(t) \/ LoopRaises(t) \/ CrashPublished(t)
  BY <1>3 DEF LoopEnds, LoopRaises, CrashPublished, Step, After
<1>4. CASE LoopOverflows(t)
  BY <1>4 DEF LoopOverflows, Overflow
<1>5. CASE Cancelled(t)
  BY <1>5 DEF Cancelled
<1>6. CASE Cleanup(t)
  BY <1>6 DEF Cleanup
<1> QED
  BY <1>1, <1>2, <1>3, <1>4, <1>5, <1>6 DEF RunMessage

LEMMA RunnerStep == IInv /\ RunnerLoops /\ [Next]_vars => RunnerLoops'
<1> SUFFICES ASSUME IInv, RunnerLoops, [Next]_vars PROVE RunnerLoops'
  OBVIOUS
<1>1. CASE Restart
  BY <1>1 DEF Restart, RunnerLoops, IInv, TypeOK
<1>2. CASE UNCHANGED vars
  BY <1>2 DEF vars, RunnerLoops
<1> QED
  BY <1>1, <1>2, RunnerRequests, RunnerTasks DEF Next, IInv

\* Without Redis, a session nobody works on does not say "running".
THEOREM QuietIsSettled == Spec => []StatusSettled
<1>1. Init => RunnerLoops
  BY DEF Init, RunnerLoops, Fresh
<1>2. RunnerLoops => StatusSettled
  BY DEF RunnerLoops, StatusSettled, Quiet, Unfinished, Alive
<1> QED
  BY <1>1, <1>2, InitInv, StepInv, RunnerStep, PTL DEF Spec

----------------------------------------------------------------------------
\* AgentRuntime implements TaskSlot.

\* The occupant of the session is the registered task while any is unfinished.
LEMMA OccupantIs ==
  ASSUME IInv
  PROVE  /\ Unfinished = {} => Occupant = NoTask
         /\ \A t \in Unfinished : Unfinished = {t} /\ Occupant = t /\ t # NoTask
BY RuntimeAssumption DEF IInv, Interruptible, Occupant, Unfinished

\* Steps that move no task into or out of the live places change nothing.
LEMMA SlotStutters ==
  ASSUME \A t \in Tasks : /\ task'[t] \in Alive <=> task[t] \in Alive
                          /\ task'[t] \in {"done", "cleaned"} <=> task[t] \in {"done", "cleaned"}
  PROVE  UNCHANGED << Occupant, Ended >>
<1>1. Unfinished' = Unfinished
  BY DEF Unfinished, Alive
<1>2. Ended' = Ended
  BY DEF Ended
<1> QED
  BY <1>1, <1>2 DEF Occupant

\* A task that leaves the live places vacates the session.
LEMMA SlotVacates ==
  ASSUME IInv, IInv', NEW t \in Tasks, task[t] \in Alive,
         task' = [task EXCEPT ![t] = "done"]
  PROVE  Slot!Vacate
<1>1. Unfinished = {t} /\ Occupant = t /\ t # NoTask
  BY OccupantIs DEF Unfinished
<1>2. Unfinished' = {}
  BY <1>1 DEF Unfinished, IInv, TypeOK, Alive
<1>3. Occupant' = NoTask
  BY <1>2 DEF Occupant
<1>4. Ended' = Ended \cup {t}
  BY DEF Ended, IInv, TypeOK, Alive
<1> QED
  BY <1>1, <1>3, <1>4 DEF Slot!Vacate

\* submit() occupies a session that is free.
LEMMA SlotOccupied ==
  ASSUME IInv, IInv', NEW r \in Requests, SubmitAccepted(r)
  PROVE  \E t \in Tasks : Slot!Occupy(t)
<1>1. PICK t \in Tasks : task[t] = "absent" /\ task' = [task EXCEPT ![t] = "created"]
  BY DEF SubmitAccepted
<1>2. Unfinished = {}
  BY RuntimeAssumption DEF SubmitAccepted, Busy, IInv, Interruptible, Unfinished
<1>3. Occupant = NoTask
  BY <1>2 DEF Occupant
<1>4. t \in Unfinished'
  BY <1>1 DEF Unfinished, IInv, TypeOK, Alive
<1>5. Unfinished' = {t}
  BY <1>4 DEF IInv, Interruptible, Unfinished
<1>6. Occupant' = t
  BY <1>5 DEF Occupant
<1>7. t \notin Ended /\ Ended' = Ended
  BY <1>1 DEF Ended, IInv, TypeOK
<1> QED
  BY <1>3, <1>6, <1>7 DEF Slot!Occupy

\* Every step of the runtime is a step of TaskSlot or leaves it alone.
LEMMA SlotStep ==
  ASSUME IInv, IInv', Next
  PROVE  [Slot!Next]_<< Occupant, Ended >>
<1>1. ASSUME NEW r \in Requests, Call(r) \/ Submit(r) \/ Interrupt(r)
      PROVE  [Slot!Next]_<< Occupant, Ended >>
  <2>1. CASE SubmitAccepted(r)
    BY <2>1, SlotOccupied DEF Slot!Next
  <2>2. CASE ~SubmitAccepted(r)
    <3>1. task' = task
      BY <1>1, <2>2 DEF Call, Submit, SubmitRefused, RefusalPublished, Interrupt,
         InterruptRunning, InterruptCancels, InterruptIdle, tasks
    <3> QED
      BY <3>1, SlotStutters
  <2> QED
    BY <2>1, <2>2
<1>2. ASSUME NEW t \in Tasks, RunMessage(t) \/ Cleanup(t)
      PROVE  [Slot!Next]_<< Occupant, Ended >>
  <2>1. CASE task[t] \in Alive /\ task' = [task EXCEPT ![t] = "done"]
    BY <2>1, SlotVacates DEF Slot!Next
  <2>2. CASE \E to \in Alive : task[t] \in Alive /\ task' = [task EXCEPT ![t] = to]
    BY <2>2, SlotStutters DEF IInv, TypeOK, Alive
  <2>3. CASE Cleanup(t)
    BY <2>3, SlotStutters DEF Cleanup, IInv, TypeOK, Alive
  <2> QED
    BY <1>2, <2>1, <2>2, <2>3
       DEF RunMessage, Start, Touched, LoopRunning, LoopResumes, LoopEnds, LoopRaises,
           CrashPublished, LastStatusPublished, LoopOverflows, Leave, Cancelled, Step,
           After, Alive
<1>3. CASE Restart
  <2>1. Unfinished' = {} /\ Occupant' = NoTask
    BY <1>3 DEF Restart, Unfinished, Occupant, Alive
  <2>2. Ended' = Ended \cup Unfinished
    BY <1>3 DEF Restart, Unfinished, Ended, IInv, TypeOK, Places, Alive
  <2> QED
    BY <2>1, <2>2, OccupantIs DEF Slot!Next, Slot!Vacate
<1> QED
  BY <1>1, <1>2, <1>3 DEF Next

\* The tasks of a session run one after the other, each at most once.
THEOREM ImplementsTaskSlot == Spec => OneAtATime
<1>1. Init => Slot!Init
  BY DEF Init, Slot!Init, Occupant, Ended, Unfinished, Alive
<1>2. IInv /\ IInv' /\ [Next]_vars => [Slot!Next]_<< Occupant, Ended >>
  <2>1. ASSUME UNCHANGED vars PROVE UNCHANGED << Occupant, Ended >>
    BY <2>1, SlotStutters DEF vars
  <2> QED
    BY <2>1, SlotStep
<1> QED
  BY <1>1, <1>2, InitInv, StepInv, PTL DEF Spec, OneAtATime, Slot!Spec
=============================================================================
