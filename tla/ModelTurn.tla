------------------------------ MODULE ModelTurn ------------------------------
(***************************************************************************)
(* What the model and the desktop know of each other over the turns of one *)
(* task: run_agent_loop (backend/app/agent/loop.py) as it composes the     *)
(* adapter, the executor and the sandbox.  AgentLoop has the loop's own    *)
(* decisions; here they are a choice, and the data is followed: which      *)
(* picture the model is shown, which results it is told, what has been     *)
(* done on the desktop by then.                                            *)
(***************************************************************************)
EXTENDS SandboxActions, ModelAdapter

CONSTANT MaxSteps  \* settings.max_agent_steps

ASSUME TurnAssumption ==
  /\ MaxSteps \in Nat \ {0}
  /\ \A n \in 1 .. MaxSteps + 1 : ModelAnswers(n) \subseteq ServerAnswers

VARIABLES
  pc,         \* where run_agent_loop is
  step,       \* the step of the for loop, 0 before it
  results,    \* what came of the actions of this step so far
  picture,    \* the last screenshot
  transcript  \* everything there was to say to the model (a history variable)

turn == << pc, step, results, picture, transcript >>
vars == << sandbox, adapter, turn >>

Locations == {"starting", "latest", "shot", "asking", "acting", "executing", "ended"}
Results == [id : Nat, status : {"ok", "error"}]

Init ==
  /\ SandboxInit
  /\ AdapterInit
  /\ pc = "starting"
  /\ step = 0
  /\ results = << >>
  /\ picture = NoPicture
  /\ transcript = << >>

Go(next) == pc' = next
End == Go("ended") /\ UNCHANGED << step, results, picture, transcript >>
----------------------------------------------------------------------------
\* _capture_screenshot first tries the picture of the last screenshot action.
AskForLatest ==
  /\ pc = "starting"
  /\ Post("latest", NoAction)
  /\ Go("latest")
  /\ UNCHANGED << step, results, picture, transcript, adapter >>

\* There is none, or no answer: take one.
AskForShot ==
  /\ pc = "latest" /\ answer.status = "error"
  /\ Post("shot", NoAction)
  /\ Go("shot")
  /\ UNCHANGED << step, results, picture, transcript, adapter >>

\* There is a picture; the results are not looked at again once they are passed on.
Pictured ==
  /\ pc \in {"latest", "shot"} /\ answer.status = "ok"
  /\ picture' = answer.picture
  /\ results' = << >>
  /\ Go("asking")
  /\ UNCHANGED << sandbox, step >>

\* The first picture is there: create_initial_response.
AskModel ==
  /\ step = 0
  /\ Pictured
  /\ transcript' = << Saying("user", "instruction", 0) >>
  /\ CreateInitial \/ MockAnswers(TRUE)

Failed == \E i \in DOMAIN results : results[i].status = "error"

\* The picture after a step is there: continue_after_actions with what was done.
TellModel ==
  /\ step > 0
  /\ Pictured
  /\ transcript' = transcript \o << Saying("assistant", "feedback", step),
                                    Saying("user", "picture", step) >>
  /\ \/ \E changed \in BOOLEAN : Continue(step, Failed, changed)
     \/ MockAnswers(FALSE)

\* SCREENSHOT_FAILURE, before or in the for loop.
PictureFails ==
  /\ pc = "shot" /\ answer.status = "error"
  /\ End
  /\ UNCHANGED << sandbox, adapter >>

\* LLM_RESPONSE_ERROR, before or in the for loop.
ModelFails ==
  /\ pc = "asking" /\ call = "failed"
  /\ End
  /\ UNCHANGED << sandbox, adapter >>
----------------------------------------------------------------------------
\* "Task complete" without actions to do, or MAX_STEPS_REACHED.
Completed ==
  /\ pc = "asking" /\ call = "answered"
  /\ response.stop = "message" \/ response.actions = << >> \/ step = MaxSteps
  /\ End
  /\ UNCHANGED << sandbox, adapter >>

\* The click on the browser's launcher that replaces the step of a browser task
\* with a click that looks like a missed one (_assist_browser_launcher_actions).
Launch ==
  LET y == Round(Height * 1053, 1080)
  IN [type |-> "click", at |-> << << Round(Width * 985, 1920), IF y < Height THEN y ELSE Height - 1 >> >>,
      button |-> "left", arg |-> "none", path |-> << >>]

Missable(a) == a.type \in {"click", "double_click"} /\ ~OnLaunchers(a.at[1])

\* The actions of the response, or the launcher in their place, are executed next.
CallTool ==
  /\ pc = "asking" /\ call = "answered"
  /\ response.stop # "message" /\ response.actions # << >> /\ step < MaxSteps
  /\ \/ UNCHANGED response
     \/ /\ \E i \in DOMAIN response.actions : Missable(response.actions[i])
        /\ response' = [response EXCEPT !.actions = << Launch >>]
  /\ step' = step + 1
  /\ Go("acting")
  /\ UNCHANGED << sandbox, mode, history, request, attempt, call, answers, asked,
                  results, picture, transcript >>

\* Interrupted, out of time, the same actions again, an unchanging screen: the loop
\* ends between two awaits.
Stopped ==
  /\ \/ pc = "acting"
     \/ pc = "asking" /\ call = "answered"
     \/ pc = "shot" /\ step > 0 /\ answer.status = "ok"
  /\ End
  /\ UNCHANGED << sandbox, adapter >>

ActionsLeft == Len(results) < Len(response.actions)
NextAction == response.actions[Len(results) + 1]

Note(id, status) == results' = Append(results, [id |-> id, status |-> status])

\* The action goes to the sandbox.
ActionStarts ==
  /\ pc = "acting" /\ ActionsLeft
  /\ Execute(NextAction)
  /\ Go("executing")
  /\ UNCHANGED << step, results, picture, transcript, adapter >>

\* ACTION_OUT_OF_BOUNDS: execute() returns before it sends anything.
ActionOutside ==
  /\ pc = "acting" /\ ActionsLeft
  /\ RefuseOutside(NextAction)
  /\ Note(0, "error")
  /\ UNCHANGED << pc, step, picture, transcript, adapter >>

\* PANEL_LAUNCHER_ALREADY_USED, where a step before opened the browser.
PanelRefused ==
  /\ pc = "acting" /\ ActionsLeft
  /\ step > 1 /\ NextAction.type \in {"click", "double_click"} /\ OnLaunchers(NextAction.at[1])
  /\ Note(0, "error")
  /\ UNCHANGED << sandbox, pc, step, picture, transcript, adapter >>

\* The executor has its answer, or gave up.
ActionEnds ==
  /\ pc = "executing" /\ answer.status # "none"
  /\ Note(posted, answer.status)
  /\ Go("acting")
  /\ UNCHANGED << sandbox, step, picture, transcript, adapter >>

\* Defect: the picture of the last screenshot action will do after a step, too.
StepCapturesLatest ==
  /\ pc = "acting" /\ ~ActionsLeft
  /\ Post("latest", NoAction)
  /\ Go("latest")
  /\ UNCHANGED << step, results, picture, transcript, adapter >>

\* All actions were handled (and settled): _capture_screenshot again, without the
\* preference for the picture of the last screenshot action.
StepCaptures ==
  /\ pc = "acting" /\ ~ActionsLeft
  /\ Post("shot", NoAction)
  /\ Go("shot")
  /\ UNCHANGED << step, results, picture, transcript, adapter >>
----------------------------------------------------------------------------
Loop ==
  \/ AskForLatest \/ AskForShot \/ AskModel \/ TellModel \/ PictureFails \/ ModelFails
  \/ Completed \/ CallTool \/ Stopped
  \/ ActionStarts \/ ActionOutside \/ PanelRefused \/ ActionEnds \/ StepCaptures

\* What the backend does and what comes back to it.
Backend ==
  \/ Loop
  \/ GiveUp /\ UNCHANGED << adapter, turn >>
  \/ Adapter /\ UNCHANGED << sandbox, turn >>

Outside == (Controller \/ DeleteSandbox) /\ UNCHANGED << adapter, turn >>

Next == Backend \/ Outside

Spec == Init /\ [][Next]_vars

\* Every await of the backend returns: each of its HTTP clients has a timeout.
\* Nothing is assumed of the controller, the script or the model.
FairSpec == Spec /\ WF_vars(Backend)
----------------------------------------------------------------------------
TypeOK ==
  /\ SandboxTypeOK
  /\ AdapterTypeOK
  /\ pc \in Locations
  /\ step \in 0 .. MaxSteps
  /\ results \in Seq(Results)
  /\ pc \in {"acting", "executing"} => Len(results) <= Len(response.actions)
  /\ picture \in Pictures
  /\ transcript \in Seq(Entries)

\* What normalize_actions makes of an answer is what the model asked for: the passes
\* drop repetitions, and nothing else.
MeaningKept ==
  (pc = "asking" /\ call = "answered" /\ mode # "mock")
    => KeepsMeaning(asked, response.actions)

\* Does a raw action name places on the display only, in whole numbers or fractions?
InRange(nums, size) ==
  Len(nums) = 1 => (nums[1].float /\ nums[1].v \in 0 .. 100) \/ Rounded(nums[1].v) \in 0 .. size - 1

NamesDisplay(raw) ==
  /\ InRange(raw.x, Width) /\ InRange(raw.y, Height)
  /\ Len(raw.x) <= 1 /\ Len(raw.y) <= 1 /\ raw.box = << >> /\ raw.point = << >>
  /\ \A i \in DOMAIN raw.path : OnDisplay(raw.path[i])

\* ACTION_OUT_OF_BOUNDS is the answer to places off the display only: scaling,
\* rounding and the launcher assist never push an action over the last pixel.
OnlyOutsideRefused ==
  (pc = "acting" /\ \A i \in DOMAIN asked : NamesDisplay(asked[i]))
    => \A i \in DOMAIN response.actions : WithinDisplay(response.actions[i])

\* An action reported as done was done, once, and in the order of the results,
\* whatever timed out before.
DoneInOrder ==
  /\ RanInOrder
  /\ \A i \in DOMAIN results :
       results[i].status = "ok" => \E k \in DOMAIN ran : ran[k] = [id |-> results[i].id, ok |-> TRUE]
  /\ \A i, j \in DOMAIN results :
       (i < j /\ results[i].id # 0 /\ results[j].id # 0) => results[i].id < results[j].id

\* The picture that goes with the results of a step shows them: every action of the
\* task has ended by then, also those the backend gave up on, and none runs after it.
PictureFresh ==
  (pc = "asking" /\ step > 0) =>
    /\ picture = Len(ran)
    /\ \A i \in DOMAIN queue : queue[i].what # "action"

\* Each request goes on where the conversation stands: a server that keeps it is
\* told the last response and given the answer to a call of that response, with the
\* results or the picture of this step; a server that does not is told the latest
\* part of everything there was to say.
RequestsContinue ==
  (pc = "asking" /\ call \in {"sending", "posted"}) =>
    IF mode = "manual"
    THEN LET n == Len(transcript) IN
           request.input = SubSeq(transcript, IF n > Window THEN n - Window + 1 ELSE 1, n)
    ELSE /\ request.previous = answers
         /\ step > 0 => /\ request.call = response.calls
                        /\ \A i \in DOMAIN request.input : request.input[i].step = step
                        /\ request.input[1].role = "tool"

\* The task as TaskSteps has it; the picture after a step ends it.
Stage ==
  IF pc \in {"starting", "latest"} \/ (pc = "shot" /\ step = 0) THEN "looking"
  ELSE IF pc \in {"acting", "executing", "shot"} THEN "acting"
  ELSE IF pc = "asking" THEN "asking" ELSE "over"

StepsDone ==
  IF Stage = "asking" THEN step ELSE IF Stage = "acting" THEN step - 1 ELSE 0

Undone == IF Stage = "acting" THEN Len(response.actions) - Len(results) ELSE 0

Cycle == INSTANCE TaskSteps WITH stage <- Stage, done <- StepsDone, todo <- Undone

\* A response replaces the one in hand only when every action of that was dealt with,
\* and no more than MaxSteps are acted on (AgentLoop, which has the decisions of the
\* same loop, implements the same TaskSteps).
StepByStep == Cycle!Spec

\* Whatever hangs, the task comes to its end.
Settles == <>(pc = "ended")
=============================================================================
