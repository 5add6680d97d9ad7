---------------------------- MODULE AgentRuntime ----------------------------
(***************************************************************************)
(* AgentRuntime (backend/app/agent/runtime.py) for ONE session: the task   *)
(* registry, the interrupt flag, the asyncio lock around them, the REST    *)
(* requests that submit and interrupt, and the life of each agent task.    *)
(*                                                                         *)
(* A step runs from one suspension of a coroutine to its next one.         *)
(* publish() suspends (in touch) only when the session store is Redis; by  *)
(* then the event is in the history, which is what a client that loads the *)
(* session later sees.  Of the history only the last task_status is kept:  *)
(* it decides whether the client lets the user send.  The loop itself is   *)
(* AgentLoop; here it publishes "running" any number of times and ends,    *)
(* raises, or notices the interrupt flag.                                  *)
(***************************************************************************)
EXTENDS Integers, FiniteSets

CONSTANTS
  Tasks,      \* the asyncio tasks that may ever be created
  Requests,   \* REST request handlers
  NoTask,     \* no task
  NoRequest,  \* nobody holds the lock
  MaxOverflows, \* bound on the QueueFull errors out of publish()
  MaxRestarts   \* bound on restarts of the backend

ASSUME RuntimeAssumption ==
  /\ NoTask \notin Tasks
  /\ NoRequest \notin Requests
  /\ MaxOverflows \in Nat
  /\ MaxRestarts \in Nat

VARIABLES
  redis,      \* did the session store reach Redis when the backend started
  lock,       \* who holds runtime._lock across a suspension
  flag,       \* session_id in runtime._interrupts
  registered, \* runtime._tasks.get(session_id)
  req,        \* req[r]: where request r is, and the task it looked up
  task,       \* task[t]: where task t is suspended
  cancelled,  \* the tasks with a cancellation not yet delivered
  status,     \* state of the last task_status event of the session
  asked,      \* the tasks an interrupt() was made for (a history variable)
  overflows,  \* how often publish() raised QueueFull
  restarts    \* how often the backend restarted

vars == << redis, lock, flag, registered, req, task, cancelled, status, asked,
           overflows, restarts >>
tasks == << task, cancelled >>
counters == << overflows, restarts >>

\* Places of a task: not created; created but not yet stepped; in the first
\* touch; awaiting the model or the sandbox; suspended in a publish (running,
\* last status, AGENT_RUNTIME_ERROR); leaving through the finally blocks; done
\* with the done-callback still to run; done.
Alive == {"created", "touching", "looping", "publishing", "ending", "crashing",
          "leaving"}
Places == Alive \cup {"absent", "done", "cleaned"}

Unfinished == { t \in Tasks : task[t] \in Alive }

Fresh == [at |-> "new", target |-> NoTask]
Done(r) == [req EXCEPT ![r] = [at |-> "answered", target |-> NoTask]]
----------------------------------------------------------------------------
Init ==
  /\ redis \in BOOLEAN
  /\ lock = NoRequest
  /\ flag = FALSE
  /\ registered = NoTask
  /\ req = [r \in Requests |-> Fresh]
  /\ task = [t \in Tasks |-> "absent"]
  /\ cancelled = {}
  /\ status = "none"
  /\ asked = {}
  /\ overflows = 0
  /\ restarts = 0

\* A request arrives and queues for the lock.
Call(r) ==
  /\ req[r].at = "new"
  /\ \E at \in {"submit", "interrupt"} : req' = [req EXCEPT ![r].at = at]
  /\ UNCHANGED << redis, lock, flag, registered, tasks, status, asked, counters >>

\* Defect: a task that is leaving through its finally blocks counts as done.
BusyUnlessLeaving ==
  registered # NoTask /\ task[registered] \in Alive \ {"leaving"}

\* `current is not None and not current.done()`
Busy == registered # NoTask /\ task[registered] \in Alive

\* submit() finds a task: it publishes TASK_ALREADY_RUNNING under the lock.
SubmitRefused(r) ==
  /\ req[r].at = "submit"
  /\ lock = NoRequest
  /\ Busy
  /\ IF redis
     THEN lock' = r /\ req' = [req EXCEPT ![r].at = "refusing"]
     ELSE UNCHANGED lock /\ req' = Done(r)
  /\ UNCHANGED << redis, flag, registered, tasks, status, asked, counters >>

\* Defect: the lock is not given back.
RefusalKeepsLock(r) ==
  /\ req[r].at = "refusing"
  /\ req' = Done(r)
  /\ UNCHANGED << redis, lock, flag, registered, tasks, status, asked, counters >>

\* The refusal was published (or publish raised): the lock is released.
RefusalPublished(r) ==
  /\ req[r].at = "refusing"
  /\ lock' = NoRequest
  /\ req' = Done(r)
  /\ UNCHANGED << redis, flag, registered, tasks, status, asked, counters >>

\* Defect: submit() leaves the interrupt flag as it is.
SubmitAcceptedKeepsFlag(r) ==
  /\ req[r].at = "submit"
  /\ lock = NoRequest
  /\ ~Busy
  /\ \E t \in Tasks :
       /\ task[t] = "absent"
       /\ task' = [task EXCEPT ![t] = "created"]
       /\ registered' = t
  /\ req' = Done(r)
  /\ UNCHANGED << redis, lock, flag, cancelled, status, asked, counters >>

\* submit() creates and registers a task.
SubmitAccepted(r) ==
  /\ req[r].at = "submit"
  /\ lock = NoRequest
  /\ ~Busy
  /\ \E t \in Tasks :
       /\ task[t] = "absent"
       /\ task' = [task EXCEPT ![t] = "created"]
       /\ registered' = t
  /\ flag' = FALSE
  /\ req' = Done(r)
  /\ UNCHANGED << redis, lock, cancelled, status, asked, counters >>

\* Some subscriber queue is full: publish() raises once the event is recorded.
Overflow == overflows < MaxOverflows /\ overflows' = overflows + 1

\* interrupt() with a running task: flag, status, then (after publish) cancel.
InterruptRunning(r) ==
  /\ req[r].at = "interrupt"
  /\ lock = NoRequest
  /\ Busy
  /\ flag' = TRUE
  /\ asked' = asked \cup {registered}
  /\ status' = "interrupted"
  /\ \/ /\ redis
        /\ req' = [req EXCEPT ![r] = [at |-> "cancelling", target |-> registered]]
        /\ UNCHANGED << cancelled, overflows >>
     \/ /\ ~redis
        /\ req' = Done(r)
        /\ cancelled' = cancelled \cup {registered}
        /\ UNCHANGED overflows
     \/ /\ Overflow
        /\ req' = Done(r)
        /\ UNCHANGED cancelled
  /\ UNCHANGED << redis, lock, registered, task, restarts >>

\* Defect: the task to cancel is looked up after publish().
InterruptCancelsRegistered(r) ==
  /\ req[r].at = "cancelling"
  /\ cancelled' = cancelled \cup {registered}
  /\ req' = Done(r)
  /\ UNCHANGED << redis, lock, flag, registered, task, status, asked, counters >>

\* Defect: the handler returns without task.cancel().
InterruptForgetsCancel(r) ==
  /\ req[r].at = "cancelling"
  /\ req' = Done(r)
  /\ UNCHANGED << redis, lock, flag, registered, tasks, status, asked, counters >>

\* interrupt() resumes after publish(): task.cancel(), a no-op on a done task.
InterruptCancels(r) ==
  /\ req[r].at = "cancelling"
  /\ cancelled' = IF task[req[r].target] \in Alive
                  THEN cancelled \cup {req[r].target} ELSE cancelled
  /\ req' = Done(r)
  /\ UNCHANGED << redis, lock, flag, registered, task, status, asked, counters >>

\* interrupt() without a running task: NO_RUNNING_TASK, and the flag stays set.
InterruptIdle(r) ==
  /\ req[r].at = "interrupt"
  /\ lock = NoRequest
  /\ ~Busy
  /\ flag' = TRUE
  /\ req' = Done(r)
  /\ UNCHANGED << redis, lock, registered, tasks, status, asked, counters >>
----------------------------------------------------------------------------
\* A step of task t that no cancellation preempts, from one place to the next.
Step(t, from, to) ==
  /\ task[t] = from
  /\ t \notin cancelled
  /\ task' = [task EXCEPT ![t] = to]

\* Where a task is after publishing, given the place of the suspended publish.
After(suspended, next) == IF redis THEN suspended ELSE next

\* _run_message starts: the first touch, outside the try block.
Start(t) ==
  /\ Step(t, "created", After("touching", "looping"))
  /\ UNCHANGED << redis, lock, flag, registered, req, cancelled, status, asked, counters >>

\* That touch returns, or fails and ends the task without any event.
Touched(t) ==
  /\ \/ Step(t, "touching", "looping")
     \/ Step(t, "touching", "done")
  /\ UNCHANGED << redis, lock, flag, registered, req, cancelled, status, asked, counters >>

\* The loop publishes a "running" status.
LoopRunning(t) ==
  /\ Step(t, "looping", After("publishing", "looping"))
  /\ status' = "running"
  /\ UNCHANGED << redis, lock, flag, registered, req, cancelled, asked, counters >>

\* Publishing it returned.
LoopResumes(t) ==
  /\ Step(t, "publishing", "looping")
  /\ UNCHANGED << redis, lock, flag, registered, req, cancelled, status, asked, counters >>

\* The loop publishes its last status and returns.  It says "interrupted" only
\* where it checks the flag.
LoopEnds(t) ==
  /\ Step(t, "looping", After("ending", "leaving"))
  /\ status' \in {"done", "error"} \cup (IF flag THEN {"interrupted"} ELSE {})
  /\ UNCHANGED << redis, lock, flag, registered, req, cancelled, asked, counters >>

\* Defect: the exception is reported, but no last status.
LoopRaisesNoStatus(t) ==
  /\ Step(t, "looping", "leaving")
  /\ UNCHANGED << redis, lock, flag, registered, req, cancelled, status, asked, counters >>

\* An exception leaves the loop: AGENT_RUNTIME_ERROR, then "Runtime crashed".
LoopRaises(t) ==
  /\ \/ redis /\ Step(t, "looping", "crashing") /\ UNCHANGED status
     \/ ~redis /\ Step(t, "looping", "leaving") /\ status' = "error"
  /\ UNCHANGED << redis, lock, flag, registered, req, cancelled, asked, counters >>

CrashPublished(t) ==
  /\ Step(t, "crashing", "ending")
  /\ status' = "error"
  /\ UNCHANGED << redis, lock, flag, registered, req, cancelled, asked, counters >>

LastStatusPublished(t) ==
  /\ Step(t, "ending", "leaving")
  /\ UNCHANGED << redis, lock, flag, registered, req, cancelled, status, asked, counters >>

\* QueueFull: a "running" update raises, so does AGENT_RUNTIME_ERROR, and the
\* task leaves without a last status.
LoopOverflows(t) ==
  /\ Overflow
  /\ Step(t, "looping", "leaving")
  /\ status' = "running"
  /\ UNCHANGED << redis, lock, flag, registered, req, cancelled, asked, restarts >>

\* The finally blocks: adapter.aclose() and touch() returned or failed.
Leave(t) ==
  /\ Step(t, "leaving", "done")
  /\ UNCHANGED << redis, lock, flag, registered, req, cancelled, status, asked, counters >>

\* CancelledError at the suspension: before the try block the task just ends,
\* inside it the finally block still runs, with a suspension of its own.
Cancelled(t) ==
  /\ t \in cancelled
  /\ task[t] \in Alive
  /\ cancelled' = cancelled \ {t}
  /\ task' = [task EXCEPT ![t] =
                IF task[t] \in {"created", "touching", "leaving"} THEN "done"
                                                                  ELSE "leaving"]
  /\ UNCHANGED << redis, lock, flag, registered, req, status, asked, counters >>

\* Defect: the done-callback pops whatever is registered.
CleanupPopsAny(t) ==
  /\ task[t] = "done"
  /\ task' = [task EXCEPT ![t] = "cleaned"]
  /\ registered' = NoTask
  /\ flag' = FALSE
  /\ UNCHANGED << redis, lock, req, cancelled, status, asked, counters >>

\* _cleanup_task, a callback the event loop runs some time after the end.
Cleanup(t) ==
  /\ task[t] = "done"
  /\ task' = [task EXCEPT ![t] = "cleaned"]
  /\ registered' = IF registered = t THEN NoTask ELSE registered
  /\ flag' = FALSE
  /\ UNCHANGED << redis, lock, req, cancelled, status, asked, counters >>

\* The backend restarts: tasks and requests are lost, the persisted events,
\* hence the last status, are not.
Restart ==
  /\ restarts < MaxRestarts
  /\ restarts' = restarts + 1
  /\ redis' \in BOOLEAN
  /\ lock' = NoRequest
  /\ flag' = FALSE
  /\ registered' = NoTask
  /\ req' = [r \in Requests |-> IF req[r].at = "new" THEN req[r]
                                ELSE [at |-> "answered", target |-> NoTask]]
  /\ task' = [t \in Tasks |-> IF task[t] = "absent" THEN "absent" ELSE "cleaned"]
  /\ cancelled' = {}
  /\ UNCHANGED << status, asked, overflows >>

Submit(r) == SubmitRefused(r) \/ RefusalPublished(r) \/ SubmitAccepted(r)
Interrupt(r) == InterruptRunning(r) \/ InterruptCancels(r) \/ InterruptIdle(r)
RunMessage(t) ==
  \/ Start(t) \/ Touched(t) \/ LoopRunning(t) \/ LoopResumes(t) \/ LoopEnds(t)
  \/ LoopRaises(t) \/ CrashPublished(t) \/ LastStatusPublished(t)
  \/ LoopOverflows(t) \/ Leave(t) \/ Cancelled(t)

Next ==
  \/ \E r \in Requests : Call(r) \/ Submit(r) \/ Interrupt(r)
  \/ \E t \in Tasks : RunMessage(t) \/ Cleanup(t)
  \/ Restart

Spec == Init /\ [][Next]_vars

\* The event loop resumes whatever can be resumed: handlers and tasks, each of
\* which awaits replies that httpx and redis time out.  No call is ever forced.
Fairness ==
  /\ \A r \in Requests : WF_vars(Submit(r)) /\ WF_vars(Interrupt(r))
  /\ \A t \in Tasks : WF_vars(RunMessage(t)) /\ WF_vars(Cleanup(t))

FairSpec == Spec /\ Fairness
----------------------------------------------------------------------------
TypeOK ==
  /\ redis \in BOOLEAN
  /\ lock \in Requests \cup {NoRequest}
  /\ flag \in BOOLEAN
  /\ registered \in Tasks \cup {NoTask}
  /\ req \in [Requests -> [at : {"new", "submit", "interrupt", "refusing",
                                 "cancelling", "answered"},
                           target : Tasks \cup {NoTask}]]
  /\ task \in [Tasks -> Places]
  /\ cancelled \in SUBSET Tasks
  /\ status \in {"none", "running", "interrupted", "done", "error"}
  /\ asked \in SUBSET Tasks
  /\ overflows \in Nat
  /\ restarts \in Nat

\* Two agent tasks never drive one sandbox at the same time, whatever submits,
\* interrupts and late done-callbacks interleave.
OneTask == \A t, u \in Unfinished : t = u

\* A running task stays in the registry until it is done, so that it can be
\* interrupted, and a late done-callback never unregisters its successor.
Interruptible == \A t \in Unfinished : registered = t

\* The interrupt flag a task can see was raised for that very task: neither an
\* interrupt without a task nor one for the previous task leaks into it.
NoStaleInterrupt ==
  \A t \in Unfinished : flag /\ registered = t => t \in asked

\* A cancellation is only pending for a live task that was asked to stop.
CancelsOnlyAsked == \A t \in cancelled : t \in Unfinished /\ t \in asked

\* A request that still has to cancel remembers a task it raised the flag for.
TargetsAsked ==
  \A r \in Requests : req[r].at = "cancelling" => req[r].target \in asked

\* The safety properties above, strengthened to an inductive invariant.
IInv ==
  /\ TypeOK
  /\ Interruptible
  /\ NoStaleInterrupt
  /\ CancelsOnlyAsked
  /\ TargetsAsked

\* No task is left and no request is being handled.
Quiet ==
  Unfinished = {} /\ \A r \in Requests : req[r].at \in {"new", "answered"}

\* Without Redis, a quiet session does not say "running" (a restart and a full
\* subscriber queue apart): the client would keep its message box closed.
StatusSettled ==
  (~redis /\ overflows = 0 /\ restarts = 0 /\ Quiet) => status # "running"

\* The same with Redis; test_agent_runtime.py expects the last event of an
\* interrupted session to be the status "interrupted".
InterruptedStatusStays ==
  (overflows = 0 /\ restarts = 0 /\ Quiet) => status # "running"

\* An interrupt that found a task makes it end, although the loop may go on for
\* ever without looking at the flag.
InterruptStops ==
  \A t \in Tasks : t \in asked ~> (t \notin Unfinished \/ overflows > 0)

\* Every request is answered; in particular the lock held over a refusal is
\* always given back.
Answered == \A r \in Requests : req[r].at # "new" ~> req[r].at = "answered"

\* Who occupies the session, and whose turn is over.
Occupant == IF Unfinished = {} THEN NoTask ELSE CHOOSE t \in Unfinished : TRUE
Ended == { t \in Tasks : task[t] \in {"done", "cleaned"} }

\* Tasks occupy the session one after the other and never come back.
Slot == INSTANCE TaskSlot WITH running <- Occupant, ended <- Ended

OneAtATime == Slot!Spec
=============================================================================
