----------------------------- MODULE AgentLoop -----------------------------
(***************************************************************************)
(* run_agent_loop (backend/app/agent/loop.py) for one task: screenshot,    *)
(* model, actions, screenshot, model again, until one of its many ends.    *)
(*                                                                         *)
(* A step of the model runs from one await that matters to the next; what  *)
(* the model answers, what the sandbox reports and whether the picture     *)
(* changed are nondeterministic.  The interrupt flag may be raised between *)
(* any two steps, and any await may end in an exception: a cancellation,   *)
(* or an error nobody catches inside the loop (QueueFull, bad JSON).       *)
(* Of an action only what the loop looks at is kept: its type, the part of *)
(* the screen it points at, and its keys.                                  *)
(***************************************************************************)
EXTENDS Integers, Sequences, FiniteSets, SequencesExt

CONSTANTS
  Responses,  \* the responses a model may give: [stop, actions]
  MaxSteps,   \* settings.max_agent_steps
  Threshold   \* settings.repeated_action_threshold

ActionTypes == {"click", "double_click", "keypress", "wait", "screenshot"}
Places == {"panel", "blank", "page", "none"}
Actions == [type : ActionTypes, at : Places, keys : {"none", "Return", "Tab"}]

ASSUME LoopAssumption ==
  /\ Responses \subseteq [stop : {"actions", "message", "error"}, actions : Seq(Actions)]
  /\ MaxSteps \in Nat \ {0}
  /\ Threshold \in Nat /\ Threshold >= 2

VARIABLES
  pc,          \* where the coroutine is
  adapter,     \* "open" until adapter.aclose()
  status,      \* the last task_status published
  why,         \* the code or label published with the end of the loop, or "none"
  browser,     \* _looks_like_browser_task(user_message)
  interrupted, \* is_interrupted()
  step,        \* step of the for loop, 0 before it
  response,    \* the response being acted on
  results,     \* results of this step
  executed,    \* executed_actions of this step
  last,        \* last_action_signature: << >> or << signature >>
  repeats,     \* repeat_count
  unchanged,   \* unchanged_screen_count
  opened,      \* panel_launcher_opened
  sent,        \* the completed steps (a history variable)
  late,        \* model calls and actions begun after the interrupt (history)
  aborts       \* exceptions thrown into the coroutine (history)

vars == << pc, adapter, status, why, browser, interrupted, step, response,
           results, executed, last, repeats, unchanged, opened, sent, late, aborts >>
memory == << last, repeats, unchanged, opened, sent >>
asking == << step, response, results, executed >>
outside == << browser, interrupted >>

NoResponse == [stop |-> "message", actions |-> << >>]

Panel(a) == a.type \in {"click", "double_click"} /\ a.at = "panel"
Missed(a) == a.type \in {"click", "double_click"} /\ a.at = "blank"
Visual(a) == a.type \notin {"screenshot", "wait"}
Launch == [type |-> "click", at |-> "panel", keys |-> "none"]

Some(q, Test(_)) == \E i \in DOMAIN q : Test(q[i])

\* actions_match: type, x, y, text and button, not the keys.
ActionsMatch(a, b) == a.type = b.type /\ a.at = b.at

SameActions(q, r) ==
  Len(q) = Len(r) /\ \A i \in DOMAIN q : ActionsMatch(q[i], r[i])

\* _assist_browser_launcher_actions
Assisted(q) ==
  IF ~opened /\ browser /\ Some(q, Missed) THEN << Launch >> ELSE q

NeedsSettle(q) ==
  Some(q, Panel) \/ Some(q, LAMBDA a : a.type = "keypress" /\ a.keys = "Return")

LateCall == IF interrupted THEN late + 1 ELSE late
----------------------------------------------------------------------------
Init ==
  /\ pc = "starting"
  /\ adapter = "open"
  /\ status = "none"
  /\ why = "none"
  /\ browser \in BOOLEAN
  /\ interrupted = FALSE
  /\ step = 0
  /\ response = NoResponse
  /\ results = << >>
  /\ executed = << >>
  /\ last = << >>
  /\ repeats = 0
  /\ unchanged = 0
  /\ opened = FALSE
  /\ sent = << >>
  /\ late = 0
  /\ aborts = 0

\* Publish the last status and return, through `finally: await adapter.aclose()`.
Finish(state, code) ==
  /\ status' = state
  /\ why' = code
  /\ pc' = "closing"
  /\ UNCHANGED << adapter, outside, late, aborts >>

\* Go on to the next await, with a "running" status when one is published there.
Go(next, state) ==
  /\ pc' = next
  /\ status' = state
  /\ UNCHANGED << adapter, why, outside, aborts >>
----------------------------------------------------------------------------
\* "Profile ... preparing to act", "Capturing initial screenshot".
Begin ==
  /\ pc = "starting"
  /\ Go("capturing", "running")
  /\ UNCHANGED << asking, memory, late >>

\* The first screenshot is there: publish it and "Waiting for model".
InitialCaptured ==
  /\ pc = "capturing"
  /\ Go("asking", "running")
  /\ late' = LateCall
  /\ UNCHANGED << asking, memory >>

\* SCREENSHOT_FAILURE, LLM_RESPONSE_ERROR before the loop: "Aborted", "LLM call
\* failed"; the adapter is closed only after these events were published.
InitialFailed ==
  /\ pc \in {"capturing", "asking"}
  /\ pc' = "failed"
  /\ status' = "error"
  /\ why' = IF pc = "capturing" THEN "SCREENSHOT_FAILURE" ELSE "LLM_RESPONSE_ERROR"
  /\ UNCHANGED << adapter, outside, asking, memory, late, aborts >>

FailedClose ==
  /\ pc = "failed"
  /\ pc' = "ended"
  /\ adapter' = "closed"
  /\ UNCHANGED << status, why, outside, asking, memory, late, aborts >>

\* create_initial_response returned: enter the for loop.
InitialResponse ==
  /\ pc = "asking"
  /\ Go("deciding", status)
  /\ step' = 1
  /\ response' \in Responses
  /\ UNCHANGED << results, executed, memory, late >>
----------------------------------------------------------------------------
\* range(1, max_agent_steps + 1) is exhausted: MAX_STEPS_REACHED.
LimitReached ==
  /\ pc = "deciding" /\ step > MaxSteps
  /\ Finish("error", "MAX_STEPS_REACHED")
  /\ UNCHANGED << asking, memory >>

StepInterrupted ==
  /\ pc = "deciding" /\ step <= MaxSteps
  /\ interrupted
  /\ Finish("interrupted", "Interrupted by user")
  /\ UNCHANGED << asking, memory >>

\* Defect: the timeout is published but does not return.
TimedOutGoesOn ==
  /\ pc = "deciding" /\ step \in 2 .. MaxSteps
  /\ ~interrupted
  /\ Go("deciding", "error")
  /\ UNCHANGED << asking, memory, late >>

\* time.monotonic() > deadline, which is set when the first response is there.
TimedOut ==
  /\ pc = "deciding" /\ step \in 2 .. MaxSteps
  /\ ~interrupted
  /\ Finish("error", "AGENT_TIMEOUT")
  /\ UNCHANGED << asking, memory >>

\* A message, or no action at all whatever the stop reason: "Task complete".
Completed ==
  /\ pc = "deciding" /\ step <= MaxSteps
  /\ ~interrupted
  /\ response.stop = "message" \/ response.actions = << >>
  /\ Finish("done", "Task complete")
  /\ UNCHANGED << asking, memory >>

Repeats(q) == last # << >> /\ SameActions(q, last[1])

CountRepeat(q) ==
  /\ repeats' = IF Repeats(q) THEN repeats + 1 ELSE 0
  /\ last' = IF Repeats(q) THEN last ELSE << q >>

ResetStep == results' = << >> /\ executed' = << >>

\* Assist, tool_call, "Executing step", and the comparison with the last actions.
CallTool ==
  /\ pc = "deciding" /\ step <= MaxSteps
  /\ ~interrupted
  /\ response.stop # "message" /\ response.actions # << >>
  /\ LET q == Assisted(response.actions) IN
       /\ response' = [response EXCEPT !.actions = q]
       /\ CountRepeat(q)
  /\ IF repeats' >= Threshold
     THEN Finish("error", "REPEATED_ACTION")
     ELSE Go("acting", "running") /\ UNCHANGED late
  /\ ResetStep
  /\ UNCHANGED << step, unchanged, opened, sent >>
----------------------------------------------------------------------------
ActionsLeft == Len(results) < Len(response.actions)
NextAction == response.actions[Len(results) + 1]

\* is_interrupted() before each action.
ActionInterrupted ==
  /\ pc = "acting" /\ ActionsLeft
  /\ interrupted
  /\ Finish("interrupted", "Interrupted mid-step")
  /\ UNCHANGED << asking, memory >>

\* PANEL_LAUNCHER_ALREADY_USED: an error result, nothing is sent.
ActionRefused ==
  /\ pc = "acting" /\ ActionsLeft
  /\ ~interrupted
  /\ opened /\ Panel(NextAction)
  /\ results' = Append(results, [action |-> NextAction, status |-> "error"])
  /\ Go("acting", status)
  /\ UNCHANGED << step, response, executed, memory, late >>

\* Defect: the flag is not looked at before an action.
ActionStartsRegardless ==
  /\ pc = "acting" /\ ActionsLeft
  /\ ~(opened /\ Panel(NextAction))
  /\ late' = LateCall
  /\ Go("executing", status)
  /\ UNCHANGED << asking, memory >>

\* The request of the action goes to the sandbox controller.
ActionStarts ==
  /\ pc = "acting" /\ ActionsLeft
  /\ ~interrupted
  /\ ~(opened /\ Panel(NextAction))
  /\ late' = LateCall
  /\ Go("executing", status)
  /\ UNCHANGED << asking, memory >>

\* Defect: an action that failed ends the list.
ActionExecutedBreaks ==
  /\ pc = "executing"
  /\ executed' = Append(executed, NextAction)
  /\ \E s \in {"ok", "error"} :
       /\ results' = Append(results, [action |-> NextAction, status |-> s])
       /\ Go(IF s = "ok" THEN "acting" ELSE "shooting", status)
  /\ UNCHANGED << step, response, memory, late >>

\* The executor answers; it turns HTTP errors into an error result.
ActionExecuted ==
  /\ pc = "executing"
  /\ executed' = Append(executed, NextAction)
  /\ \E s \in {"ok", "error"} :
       results' = Append(results, [action |-> NextAction, status |-> s])
  /\ Go("acting", status)
  /\ UNCHANGED << step, response, memory, late >>

\* All actions were handled; wait for the screen where the actions call for it.
Settle ==
  /\ pc = "acting" /\ ~ActionsLeft
  /\ IF NeedsSettle(executed) THEN Go("settling", status) ELSE Go("shooting", status)
  /\ UNCHANGED << asking, memory, late >>

\* A poll of the settle loop sees the flag.
SettleInterrupted ==
  /\ pc = "settling"
  /\ interrupted
  /\ Finish("interrupted", "Interrupted while waiting for UI")
  /\ UNCHANGED << asking, memory >>

\* Defect: the deadline of the settle loop is computed anew in each round.
SettledNever == pc = "settling" /\ UNCHANGED vars

\* The time is over; a flag raised during the last sleep is not seen here.
Settled ==
  /\ pc = "settling"
  /\ Go("shooting", status)
  /\ UNCHANGED << asking, memory, late >>
----------------------------------------------------------------------------
ScreenshotFailed ==
  /\ pc = "shooting"
  /\ Finish("error", "SCREENSHOT_FAILURE")
  /\ UNCHANGED << asking, memory >>

\* Defect: the counter does not accumulate.
CountUnchangedOnce(changed) ==
  unchanged' = IF Some(response.actions, Visual) /\ ~changed THEN 1 ELSE 0

\* Defect: actions are counted instead of steps.
CountUnchangedActions(changed) ==
  unchanged' = IF Some(response.actions, Visual) /\ ~changed
               THEN unchanged + Len(response.actions) ELSE 0

\* unchanged_screen_count: the actions ASKED FOR decide, executed or not.
CountUnchanged(changed) ==
  unchanged' = IF Some(response.actions, Visual) /\ ~changed THEN unchanged + 1 ELSE 0

\* Defect: panel_launcher_opened follows the last step only.
NoteLauncherForgets(changed) ==
  opened' = /\ changed
            /\ Some(executed, Panel)
            /\ \A i \in DOMAIN results : results[i].status = "ok"

NoteLauncher(changed) ==
  opened' = \/ opened
            \/ /\ changed
               /\ Some(executed, Panel)
               /\ \A i \in DOMAIN results : results[i].status = "ok"

\* The screenshot after the step, compared with the last one by its hash.
ScreenshotTaken ==
  /\ pc = "shooting"
  /\ \E changed \in BOOLEAN :
       /\ CountUnchanged(changed)
       /\ NoteLauncher(changed)
       /\ sent' = Append(sent, [asked |-> response.actions, executed |-> executed,
                                changed |-> changed,
                                ok |-> \A i \in DOMAIN results : results[i].status = "ok"])
  /\ IF unchanged' >= Threshold
     THEN Finish("error", "SCREEN_UNCHANGED")
     ELSE Go("continuing", "running") /\ late' = LateCall
  /\ UNCHANGED << asking, last, repeats >>

\* continue_after_actions returned.
Continued ==
  /\ pc = "continuing"
  /\ Go("deciding", status)
  /\ step' = step + 1
  /\ response' \in Responses
  /\ UNCHANGED << results, executed, memory, late >>

ContinueFailed ==
  /\ pc = "continuing"
  /\ Finish("error", "LLM_RESPONSE_ERROR")
  /\ UNCHANGED << asking, memory >>

\* adapter.aclose() in the finally block.
Close ==
  /\ pc = "closing"
  /\ pc' = "ended"
  /\ adapter' = "closed"
  /\ UNCHANGED << status, why, outside, asking, memory, late, aborts >>
----------------------------------------------------------------------------
\* AgentRuntime.interrupt() raises the flag.
RaiseFlag ==
  /\ ~interrupted
  /\ pc # "ended"
  /\ interrupted' = TRUE
  /\ UNCHANGED << pc, adapter, status, why, browser, asking, memory, late, aborts >>

\* Defect: no finally block around the for loop.
AbortLoopLeaks ==
  /\ pc \in {"deciding", "acting", "executing", "settling", "shooting", "continuing"}
  /\ pc' = "ended"
  /\ aborts' = aborts + 1
  /\ UNCHANGED << adapter, status, why, outside, asking, memory, late >>

\* An exception inside the for loop: its finally block closes the adapter.
AbortLoop ==
  /\ pc \in {"deciding", "acting", "executing", "settling", "shooting", "continuing"}
  /\ pc' = "closing"
  /\ aborts' = aborts + 1
  /\ UNCHANGED << adapter, status, why, outside, asking, memory, late >>

\* CancelledError in the first screenshot or model call: closed and re-raised.
AbortInitialCall ==
  /\ pc \in {"capturing", "asking"}
  /\ pc' = "closing"
  /\ aborts' = aborts + 1
  /\ UNCHANGED << adapter, status, why, outside, asking, memory, late >>

\* An exception out of a publish before the for loop, or out of aclose()
\* itself: nothing closes the adapter.
AbortOutsideTry ==
  /\ pc \in {"starting", "capturing", "asking", "failed", "closing"}
  /\ pc' = "ended"
  /\ aborts' = aborts + 1
  /\ UNCHANGED << adapter, status, why, outside, asking, memory, late >>

Prologue == Begin \/ InitialCaptured \/ InitialFailed \/ FailedClose \/ InitialResponse
Decide == LimitReached \/ StepInterrupted \/ TimedOut \/ Completed \/ CallTool
Act == ActionInterrupted \/ ActionRefused \/ ActionStarts \/ ActionExecuted
Observe == Settle \/ SettleInterrupted \/ Settled \/ ScreenshotFailed \/ ScreenshotTaken
Ask == Continued \/ ContinueFailed
Abort == AbortLoop \/ AbortInitialCall \/ AbortOutsideTry

Run == Prologue \/ Decide \/ Act \/ Observe \/ Ask \/ Close

Next == Run \/ RaiseFlag \/ Abort

Spec == Init /\ [][Next]_vars

\* Every await of the loop returns: httpx and the model clients time out.
FairSpec == Spec /\ WF_vars(Run)
----------------------------------------------------------------------------
Locations == {"starting", "capturing", "asking", "failed", "deciding", "acting",
              "executing", "settling", "shooting", "continuing", "closing", "ended"}
LastStatuses == {"done", "error", "interrupted"}

TypeOK ==
  /\ pc \in Locations
  /\ adapter \in {"open", "closed"}
  /\ status \in {"none", "running"} \cup LastStatuses
  /\ browser \in BOOLEAN /\ interrupted \in BOOLEAN /\ opened \in BOOLEAN
  /\ step \in 0 .. MaxSteps + 1
  /\ response \in [stop : {"actions", "message", "error"}, actions : Seq(Actions)]
  /\ results \in Seq([action : Actions, status : {"ok", "error"}])
  /\ executed \in Seq(Actions)
  /\ last \in Seq(Seq(Actions)) /\ Len(last) <= 1
  /\ repeats \in 0 .. Threshold
  /\ unchanged \in 0 .. Threshold
  /\ sent \in Seq([asked : Seq(Actions), executed : Seq(Actions),
                   changed : BOOLEAN, ok : BOOLEAN])
  /\ late \in Nat
  /\ aborts \in Nat

\* The adapter is closed however the task ends, with two exceptions: an exception
\* before the for loop (its publishes are outside every try block), and a second
\* one while the first is being handled.
AdapterClosed ==
  (pc = "ended" /\ (aborts = 0 \/ (aborts = 1 /\ step > 0 /\ why = "none"))) => adapter = "closed"

\* After the flag is raised at most one more model call is begun and no action.
InterruptIsPrompt == late <= 1 /\ (late = 1 => pc # "executing")

\* The model is told about exactly the actions it asked for, in order: adapters
\* pair the results with the actions of the response.
ResultsMatchActions ==
  pc \in {"shooting", "continuing"} =>
    /\ Len(results) = Len(response.actions)
    /\ \A i \in DOMAIN results : results[i].action = response.actions[i]

\* Steps i .. j of the task.
Window(i, j) == { k \in i .. j : k \in DOMAIN sent }

\* Neither the same actions nor visual actions without effect go on for longer
\* than the threshold: a stuck task does not burn all of its steps.
StuckIsCut ==
  \A i \in 1 .. Len(sent) :
    /\ i + Threshold <= Len(sent) =>
         \E k \in (i + 1) .. (i + Threshold) : ~SameActions(sent[k].asked, sent[i].asked)
    /\ (i + Threshold - 1 < Len(sent)) =>
         \E k \in i .. (i + Threshold - 1) : sent[k].changed \/ ~Some(sent[k].asked, Visual)

\* Once a panel click opened the browser, no later step clicks the panel again,
\* neither on the model's request nor through the launcher assist.
LauncherOnce ==
  \A i, j \in 1 .. Len(sent) :
    (i < j /\ sent[i].changed /\ sent[i].ok /\ Some(sent[i].executed, Panel))
      => ~Some(sent[j].executed, Panel)

\* "Same action repeated N times" (the message of REPEATED_ACTION, loop.py): the
\* actions of those steps were the same.
RepeatedMeansSame ==
  why = "REPEATED_ACTION" =>
    \A k \in (Len(sent) - Threshold + 1) .. Len(sent) : sent[k].asked = response.actions

\* "SCREEN_UNCHANGED means visual GUI actions kept executing but screenshot
\* hashes did not change" (docs/demo-script.md).
UnchangedMeansExecuted ==
  why = "SCREEN_UNCHANGED" =>
    \A k \in (Len(sent) - Threshold + 1) .. Len(sent) : Some(sent[k].executed, Visual)

\* Every task ends: by the model, a limit, an interrupt or an error.
Terminates == <>(pc = "ended")

\* What the loop publishes is a task run as its clients expect it.
Published == INSTANCE TaskRun WITH over <- pc = "ended"
ReportsOnce == Published!Spec

\* The steps of the for loop as TaskSteps has them: the first model call and each
\* later one, with the decision on its answer, belong to the asking.
Stage ==
  IF pc \in {"starting", "capturing"} THEN "looking"
  ELSE IF pc \in {"asking", "deciding", "continuing"} THEN "asking"
  ELSE IF pc \in {"acting", "executing", "settling", "shooting"} THEN "acting"
  ELSE "over"

\* The steps before this one, and this one when its screenshot is on its way to the model.
StepsDone ==
  IF pc = "continuing" THEN step
  ELSE IF pc = "deciding" \/ Stage = "acting" THEN step - 1 ELSE 0

Undone == IF Stage = "acting" THEN Len(response.actions) - Len(results) ELSE 0

Cycle == INSTANCE TaskSteps WITH stage <- Stage, done <- StepsDone, todo <- Undone

\* The model is asked again only when every action of its last list was dealt with,
\* and no more than MaxSteps lists are taken from it (ModelTurn, which has the data of
\* the same loop, implements the same TaskSteps).
StepByStep == Cycle!Spec
=============================================================================
