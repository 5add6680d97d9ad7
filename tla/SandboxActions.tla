--------------------------- MODULE SandboxActions ---------------------------
(***************************************************************************)
(* The way of an action to the desktop of one session: ActionExecutor and  *)
(* SandboxClient in the backend (sandbox/action_executor.py, client.py),   *)
(* the sandbox controller (main.py, docker_sandbox.py) and agent_action.py *)
(* in the container.                                                       *)
(*                                                                         *)
(* The controller's handlers are coroutines that call Docker without ever  *)
(* awaiting: one request is handled at a time, the others wait in the      *)
(* order they came.  The backend waits 15 seconds for an action and 30 for *)
(* a picture, a script may take longer; what the backend gave up on is     *)
(* still handled.  The module has the steps and the state; ModelTurn says  *)
(* who posts what.                                                         *)
(***************************************************************************)
EXTENDS NormalizeActions

VARIABLES
  posted,    \* how many actions the backend has posted to the controller
  waiting,   \* the request the backend is waiting for, << >> or << request >>
  answer,    \* what the last request came to, for the backend
  queue,     \* the requests not yet answered, the oldest first
  phase,     \* of the first request: "idle" before its script, "script", "dragging"
  alive,     \* does the container exist
  ran,       \* the scripts that ended, in order (a history variable)
  held,      \* is the left mouse button down
  jammed,    \* did a drag's mousedown hang or its mouseup fail (history)
  file       \* what /tmp/opencau-action.png shows

backend == << posted, waiting, answer >>
desktop == << alive, ran, held, jammed, file >>
sandbox == << backend, queue, phase, desktop >>

\* A picture is named by how many scripts had ended when it was taken.
NoPicture == -2
FromEarlierTask == -1
Pictures == {NoPicture, FromEarlierTask} \cup Nat

NoAction == [type |-> "screenshot", at |-> << >>, button |-> "none", arg |-> "none", path |-> << >>]
NoAnswer == [status |-> "none", code |-> "none", picture |-> NoPicture]

Codes == {"none", "ACTION_OUT_OF_BOUNDS", "SANDBOX_TRANSPORT_ERROR", "SANDBOX_HTTP_ERROR",
          "SANDBOX_NOT_FOUND", "SCREENSHOT_NOT_AVAILABLE", "ACTION_FAILED",
          "ACTION_VALIDATION"}
Answers == [status : {"none", "ok", "error"}, code : Codes, picture : Pictures]
Requests == [id : Nat, what : {"action", "latest", "shot"}, action : Actions]

SandboxInit ==
  /\ posted = 0
  /\ waiting = << >>
  /\ answer = NoAnswer
  /\ queue = << >>
  /\ phase = "idle"
  /\ alive = TRUE
  /\ ran = << >>
  /\ held = FALSE
  /\ jammed = FALSE
  /\ file \in {NoPicture, FromEarlierTask}
----------------------------------------------------------------------------
\* A request leaves the backend.  Actions are numbered, a picture has the number of
\* the action before it.
Post(what, action) ==
  LET id == IF what = "action" THEN posted + 1 ELSE posted
      request == [id |-> id, what |-> what, action |-> action]
  IN
  /\ posted' = id
  /\ waiting' = << request >>
  /\ answer' = NoAnswer
  /\ queue' = Append(queue, request)
  /\ UNCHANGED << phase, desktop >>

\* execute() posts only what ensure_within_display lets through.
Execute(action) == WithinDisplay(action) /\ Post("action", action)

RefuseOutside(action) ==
  /\ ~WithinDisplay(action)
  /\ answer' = [status |-> "error", code |-> "ACTION_OUT_OF_BOUNDS", picture |-> NoPicture]
  /\ UNCHANGED << posted, waiting, queue, phase, desktop >>

\* httpx raises: the time is over, or the connection failed.  The request stays
\* where it is.
GiveUp ==
  /\ waiting # << >>
  /\ waiting' = << >>
  /\ answer' = [status |-> "error", code |-> "SANDBOX_TRANSPORT_ERROR", picture |-> NoPicture]
  /\ UNCHANGED << posted, queue, phase, desktop >>
----------------------------------------------------------------------------
\* The response to the first request, which nobody may be waiting for any more.
Reply(status, code, picture) ==
  /\ queue' = Tail(queue)
  /\ phase' = "idle"
  /\ IF waiting = << Head(queue) >>
     THEN /\ waiting' = << >>
          /\ answer' = [status |-> status, code |-> code, picture |-> picture]
     ELSE UNCHANGED << waiting, answer >>
  /\ UNCHANGED posted

AtHead(what) == queue # << >> /\ phase = "idle" /\ Head(queue).what = what

\* A request whose caller is gone may never become a call of its handler: it did
\* not reach the controller, or the controller sees the disconnect first.
Drop ==
  /\ queue # << >> /\ phase = "idle"
  /\ waiting # << Head(queue) >>
  /\ queue' = Tail(queue)
  /\ UNCHANGED << backend, phase, desktop >>

\* An exception out of Docker, before anything was run: status 500.
DockerFails ==
  /\ queue # << >> /\ phase = "idle"
  /\ Reply("error", "SANDBOX_HTTP_ERROR", NoPicture)
  /\ UNCHANGED desktop

\* capture_latest_action_screenshot: the file the last screenshot action wrote.
ReadLatest ==
  /\ AtHead("latest")
  /\ IF alive /\ file # NoPicture
     THEN Reply("ok", "none", file)
     ELSE Reply("error", "SCREENSHOT_NOT_AVAILABLE", NoPicture)
  /\ UNCHANGED desktop

\* capture_screenshot_png: screenshot.sh, then cat, both in this call.
Capture ==
  /\ AtHead("shot")
  /\ \/ alive /\ Reply("ok", "none", Len(ran))
     \/ Reply("error", "SCREENSHOT_NOT_AVAILABLE", NoPicture)
  /\ UNCHANGED desktop

ActionNotFound ==
  /\ AtHead("action") /\ ~alive
  /\ Reply("error", "SANDBOX_NOT_FOUND", NoPicture)
  /\ UNCHANGED desktop

\* Defect: each request is handled as it comes, in a thread of its own.
ScriptStartsAnyTime ==
  /\ \E i \in DOMAIN queue :
       /\ queue[i].what = "action"
       /\ queue' = << queue[i] >> \o RemoveAt(queue, i)
  /\ phase = "idle" /\ alive
  /\ phase' = "script"
  /\ UNCHANGED << backend, desktop >>

\* exec_run(agent_action.py) of the first request.
ScriptStarts ==
  /\ AtHead("action") /\ alive
  /\ phase' = "script"
  /\ UNCHANGED << backend, queue, desktop >>

\* do_drag has moved to the first point: mousedown.
DragPresses ==
  /\ phase = "script" /\ Head(queue).action.type = "drag"
  /\ phase' = "dragging"
  /\ held' = TRUE
  /\ UNCHANGED << backend, queue, alive, ran, jammed, file >>

\* The script ended and the controller passes its line of JSON on; where the
\* connection to Docker breaks at the end, a success is an error for the backend.
Report(ok) ==
  /\ ran' = Append(ran, [id |-> Head(queue).id, ok |-> ok])
  /\ \/ Reply(IF ok THEN "ok" ELSE "error", IF ok THEN "none" ELSE "ACTION_FAILED", NoPicture)
     \/ ok /\ Reply("error", "SANDBOX_HTTP_ERROR", NoPicture)

PressesLeft(action) == LeftClick(action) \/ action.type = "double_click"

\* The schema lets a wait of 0 ms and a scroll of 0 through, the script does not.
OfNothing(action) == action.type \in {"wait", "scroll"} /\ action.arg = "0"

\* A handler returned; the click of another action lets a stuck button go.
ScriptSucceeds ==
  /\ phase = "script" /\ Head(queue).action.type # "drag"
  /\ ~OfNothing(Head(queue).action)
  /\ Report(TRUE)
  /\ held' = (held /\ ~PressesLeft(Head(queue).action))
  /\ file' = IF Head(queue).action.type = "screenshot" THEN Len(ran) ELSE file
  /\ UNCHANGED << alive, jammed >>

\* A tool failed or ran into its timeout, before a drag's mousedown (ACTION_FAILED
\* stands for ACTION_TIMEOUT, too).
ScriptFails ==
  /\ phase = "script"
  /\ ~OfNothing(Head(queue).action)
  /\ Report(FALSE)
  /\ UNCHANGED << alive, held, jammed, file >>

\* do_wait and do_scroll raise ValueError.
ScriptRefuses ==
  /\ phase = "script" /\ OfNothing(Head(queue).action)
  /\ ran' = Append(ran, [id |-> Head(queue).id, ok |-> FALSE])
  /\ Reply("error", "ACTION_VALIDATION", NoPicture)
  /\ UNCHANGED << alive, held, jammed, file >>

\* xdotool mousedown does not return in time: the button may be down, and the
\* finally block is not entered yet.
DragPressHangs ==
  /\ phase = "script" /\ Head(queue).action.type = "drag"
  /\ Report(FALSE)
  /\ held' = TRUE
  /\ jammed' = TRUE
  /\ UNCHANGED << alive, file >>

\* Defect: mouseup without a finally block.
DragReleasesUnlessFailed ==
  /\ phase = "dragging"
  /\ \E moved \in BOOLEAN : Report(moved) /\ held' = ~moved
  /\ UNCHANGED << alive, jammed, file >>

\* The moves are over or one of them failed: mouseup in the finally block.
DragReleases ==
  /\ phase = "dragging"
  /\ held' = FALSE
  /\ \E moved \in BOOLEAN : Report(moved)
  /\ UNCHANGED << alive, jammed, file >>

\* That mouseup itself fails.
DragSticks ==
  /\ phase = "dragging"
  /\ Report(FALSE)
  /\ jammed' = TRUE
  /\ UNCHANGED << alive, held, file >>

\* DELETE /sessions/{id}, from the REST endpoint or the cleanup loop, in its turn.
DeleteSandbox ==
  /\ phase = "idle" /\ alive
  /\ alive' = FALSE
  /\ UNCHANGED << backend, queue, phase, ran, held, jammed, file >>

Controller ==
  \/ Drop \/ DockerFails \/ ReadLatest \/ Capture \/ ActionNotFound
  \/ ScriptStarts \/ DragPresses \/ ScriptSucceeds \/ ScriptFails \/ ScriptRefuses
  \/ DragPressHangs \/ DragReleases \/ DragSticks
----------------------------------------------------------------------------
SandboxTypeOK ==
  /\ posted \in Nat
  /\ waiting \in {<< >>} \cup { << queue[i] >> : i \in DOMAIN queue }
  /\ answer \in Answers
  /\ queue \in Seq(Requests)
  /\ phase \in {"idle", "script", "dragging"}
  /\ phase # "idle" => queue # << >> /\ Head(queue).what = "action"
  /\ alive \in BOOLEAN
  /\ ran \in Seq([id : Nat \ {0}, ok : BOOLEAN])
  /\ held \in BOOLEAN
  /\ jammed \in BOOLEAN
  /\ file \in Pictures

\* Scripts run one after the other in the order their actions were asked for, each
\* at most once, however often the backend gave up waiting and went on.
RanInOrder == \A i, j \in DOMAIN ran : i < j => ran[i].id < ran[j].id

\* No drag, whether its moves succeed or fail, leaves the left button down, unless
\* xdotool hung in its mousedown or failed in its mouseup.
ButtonReleased == (phase = "idle" /\ held) => jammed
=============================================================================
