# A formal model of the OpenCAU agent backend

OpenCAU lets a language model operate a desktop in a container. A browser client
creates a session, sends a message, and watches a task: the backend asks the model
for actions, executes them in the sandbox container, takes a screenshot, shows it
to the model, and publishes everything it does as events. The interesting part is
the backend: one asyncio process in which requests, agent tasks, event sockets and
a cleanup loop interleave at every `await`, a session store that suspends only when
Redis was reachable at start-up, and two stores (Redis and SQLite) that outlive the
process while everything else does not. On its sides are a model server that may
answer late or wrongly, a sandbox controller that goes on with what the backend gave
up on, and a page that puts its list of events together from histories and a socket.

This directory holds TLA+ modules for that part, TLC configurations for small
instances, and proofs, checked by tlapm, of every safety property of the passing runs
for every size of the system.

## The parts of the system

| Part | State | Operations | Hard about it | What makes it correct |
|---|---|---|---|---|
| Event broker (`backend/app/agent/events.py`) | per session: counter, deque of 200 events, set of subscriber queues of 100 | publish, subscribe, history, clear | publish() suspends between its snapshot of the queues and the delivery; full queues; the counter is lost in a restart | events are numbered upwards, each client gets each event once, none vanishes silently |
| Agent runtime (`agent/runtime.py`) | task registry, interrupt flags, one lock | submit, interrupt, _run_message, done-callback | late done-callbacks, a lookup before and a cancel after a suspension, publishing under the lock | one task at a time, always interruptible; an interrupt hits its task only and ends it; every request is answered |
| Agent loop (`agent/loop.py`) | counters of repeats and unchanged screens, launcher flag, results for the model | one run per message: model calls, actions, settle, screenshot, statuses | a dozen ways to end, at any await; guards that depend on each other | it terminates, ends with a status, closes the adapter, starts nothing after an interrupt, answers every action |
| Session store (`storage/session_store.py`) | one record per session, in Redis or memory | upsert, touch, mark_deleted, list, expired | read, suspend, write back | a deletion is not undone |
| SQLite store (`storage/sqlite.py`) | sessions, messages, events, screenshots | synchronous statements | rows outlive the counters in memory | persisted events are kept |
| Session lifecycle (`main.py`, `api/sessions.py`) | cleanup and reconciliation | create, get, delete, cleanup loop, reconciliation at start | containers, records and rows are changed one after the other, each with an await between | no container without a record, no record without an end |
| Sandbox controller (`sandbox-controller/`) | containers | create, inspect, list, delete, exec | the backend may stop waiting for a call that is still executed | one container per session |
| Adapters (`llm/`) | the response being acted on; for one of them a bounded history | first and next request, retry, parsing | a request may be posted twice; several calls in an answer; the history overflows | each request goes on where the conversation stands, with the results and the picture of the last step |
| Normalisation (`llm/normalize.py`, `schemas/actions.py`) | none | points, scaling, defaults, validation; pairs, panel clicks, Return after a URL | order and identity of actions, the last pixel | what the model asked for is what is done, repetitions aside |
| Executor and client (`sandbox/`), controller, `agent_action.py` | requests in the controller, the file of the last screenshot action, the mouse button | execute an action, take a picture, read the file | the backend waits 15 s, a script may take 30; the rest of the task goes on meanwhile | actions run in order and at most once, a picture shows all of them, no button stays down |
| Frontend (`frontend/app/page.tsx`, `lib/api.ts`) | shown session, event list, socket, the request of a button | restore, select, create, delete, submit, interrupt, receive | a late history and live events; the old session's socket while a new one is created | the list shows each event once, of the shown session, and whether a task runs |
| VNC proxies, preflight, configuration, prompts, key map, image | none of their own | forwarding, checks, tables | - | - |

Requests reach the runtime and the lifecycle through FastAPI handlers. The runtime
starts the loop as an asyncio task; the loop publishes through the broker; the
broker touches the session store and writes to SQLite; deleting a session
interrupts its task, calls the controller, marks the record and clears the broker.
In each step of the loop the adapter's response is executed action by action through
the executor, the controller and a script in the container; then the controller takes
a picture, and the adapter continues the conversation with it.
`PROJECT.json` lists every part with its status, and under `hazards` what can go
wrong in it, at its line.

## Modules

| Module | Role |
|---|---|
| `EventBroker` | the broker for one session, with SQLite's event rows and the event sockets |
| `AgentRuntime` | the registry, the flag and the lock for one session, its requests and tasks |
| `TaskSlot` | abstract: a slot that holds at most one task; `AgentRuntime` implements it |
| `AgentLoop` | one run of `run_agent_loop` with its interrupts and exceptions |
| `TaskRun` | abstract: a run reports one end and then closes; `AgentLoop` implements it |
| `TaskSteps` | abstract: a task asks, deals with each action of the answer, shows what came of them, and asks again; `AgentLoop` and `ModelTurn` implement it |
| `SessionLifecycle` | containers, records, rows, the REST handlers, publish()'s touch, the cleanup loop, the reconciliation |
| `NormalizeActions` | what becomes of the actions of an answer: operators only |
| `SandboxActions` | the way of an action or a picture: executor, controller, script (EXTENDS `NormalizeActions`) |
| `ModelAdapter` | the four adapters: conversation, retry, answers (EXTENDS `NormalizeActions`) |
| `ModelTurn` | run_agent_loop composing `SandboxActions` and `ModelAdapter`: the data of a task |
| `ClientView` | the page's list of events, its socket and its requests |
| `EventBrokerProofs`, `AgentRuntimeProofs`, `AgentLoopProofs`, `SessionLifecycleProofs`, `ClientViewProofs` | theorems about the module of that name, checked by tlapm |
| `NormalizeActionsProofs`, `SandboxActionsProofs` | lemmas about the two modules `ModelTurn` is made of |
| `ModelTurnProofs` | theorems about `ModelTurn` (EXTENDS the two before) |
| `MCEventBroker`, `MCAgentRuntime`, `MCAgentLoop`, `MCSessionLifecycle`, `MCModelTurn`, `MCClientView` | the constants of the small instances |

### How state and actions follow the code

An action is what one coroutine does between two suspensions. Python's asyncio
switches only where an `await` really suspends; awaiting a coroutine that never
blocks does not. Hence `EventBroker` has the variable `redis`: publish() suspends in
`session_store.touch()` if and only if the store reached Redis at start-up. With
Redis a publication is two actions, `PublishBegin` (number, remember, persist, take
the snapshot of queues) and `PublishEnd` (deliver), with anything in between; in
memory mode it is the one action `PublishAtOnce`. The lock of the broker is never
held over a suspension and needs no variable. A history variable `published` counts
events, so that each has an identity of its own beside its sequence number, which
clear() and restarts let start anew; `aborted` holds the events whose publish() did
not run to its end. A client's queue is modelled by all it was ever given (`stream`)
and how much of it was sent (`got`).

`AgentRuntime` follows each request through submit() or interrupt(), and each task
through _run_message(), one place per suspension. `lock` is held over publish() in
submit() and is therefore a variable. A done-callback runs some time after its task
is done (`call_soon`): until then the finished task stays registered. A cancelled
task receives CancelledError at its next suspension.

`AgentLoop` has one place per await of run_agent_loop. A response is a member of
the constant `Responses`: a stop reason and a sequence of actions, of which only what
the loop compares is kept: the type, the position (panel, elsewhere, none) and the
keys. A screenshot is changed or unchanged. An interrupt is `RaiseFlag`; a
CancelledError or an exception is `AbortLoop` at any await.

`SessionLifecycle` gives every request, and the cleanup loop, a small program over
the places `call` (an outstanding controller call), `read`, `hset`, `sadd` (Redis
commands) and `row` (SQLite). A handler's kind decides what follows: a creation goes
on to publish `session_created`, a DELETE begins with the publication of the
interrupt. With Redis every place is a suspension; the memory store never suspends,
so there `turn` keeps everybody else out from a handler's first store operation to
its next call. A record is reduced to `none`, `live`, `idle` (its deadline passed) and
`deleted`, because no handler branches on the rest. A call that fails for the backend
may still be served (`late`): the client's timeout does not stop the controller,
whose handlers block its event loop and so serve one call at a time. A Redis command
may fail (`StoreFailed`), and so may a SQLite statement with either store
(`SQLiteFailed`): record_session() and mark_session_deleted() are called after the
session store was written and are not guarded, so the request answers 500, or the
cleanup round ends, and nothing undoes the record; clear_session_history() raises before
the record of a new session is stored and leaves its container without one. The history
variable `unsaved` holds the sessions whose row could not be written the last time
somebody tried. An interrupt() whose publish() meets a full queue ends its DELETE before
the controller is called (`AfterTouch`). `strays`, another
history variable, names the sessions for which a creation without its record, a creation
served late, a failed deletion by the cleanup loop, or a re-creation before a deletion was
marked may have left a container that no record leads to; a start empties it, because
with Redis the reconciliation has to find them.

`NormalizeActions` keeps the geometry and the order of actions and reduces their
contents: a text is a URL or a word, a key is Return or another one. A number of a raw
action is a record of its value in hundredths and whether Python holds it as a float,
because only a float between 0 and 1 is scaled; rounding is Python's, half to even. A
validated action has `at` (no point or one), `arg` (the one datum of its type) and
`path`. `Purpose` and `Presses` say what a list is for without the passes: `Purpose` is
the list without repetitions, a Return after a URL being part of the URL, `Presses` the
number of times the left button goes down at a place.

`SandboxActions` follows a request from the executor (`Execute`, `RefuseOutside`) into
the controller's queue, which is answered one request at a time because its coroutines
call Docker without awaiting, and through the script (`ScriptStarts`, then one of its
ends). `GiveUp` is the backend's timeout: the request stays queued and is still served,
or dropped if it never got that far (`Drop`). `file` is what the last screenshot
action left in the container, `ran` lists the scripts that ended. It is assumed that
Docker's connection breaks before a script or at its end, not while it runs: then the
controller would go on with the next request beside it.

`ModelAdapter` has one mode per adapter: `function` (`text` without vision), `openai`,
`manual` (the stateless adapter) and `mock`. A request keeps the id it continues, the
call it answers, and what it says: the instruction, feedback, a picture, a failure, each
with its step. The server's answer is any member of `ModelAnswers(n)`; a timeout of the
first post is followed by `Retry`, every other failure by `PostFails`.

`ModelTurn` is run_agent_loop again, for its data. What `AgentLoop` decides (an
interrupt, the timeout, the abort conditions, the launcher assist) is a choice here
(`Stopped`, `CallTool`, `PanelRefused`); what `AgentLoop` abstracts is followed: which
results and which picture reach the model, and what has run on the desktop by then.
That the two models are of one loop is stated by `TaskSteps`: both implement it
(`StepByStep`), each by its own places and counters. `Stage`, `StepsDone` and `Undone` are
the refinement mapping.

`ClientView` names an event by its place in its session's log and keeps of its content
whether it is a status. The effect on `[sessionId]` is part of `SetSession`. Loading a
history is three steps (asked, answered, shown), so that the socket may overtake it.
The history variables record the situations the page does not recover from: `muddled`
(the list was filled for another session), `lost` (the list was replaced or cleared
after the socket delivered newer events), `cut` (events were cut off somewhere).
That React's StrictMode runs effects twice in development is not modelled, nor are other
pages of the same session.

Each property is paired with a defect, a definition such as `OfferDropsWhenFull`
next to the definition it replaces: with the defect in place the run fails. It shows
that the property depends on what the code does there.

## Runs

| Run | Question | Bounds, and why they are enough |
|---|---|---|
| `broker` | Is the history in order, does each client get each event once, does anything persisted get lost within one run of the backend, does everything on its way arrive? | Two publishers (one suspended while the other publishes), one client (the clients do not see each other), three events with room for two in the history and one in a queue (both overflow), one cancellation, one cleared session, one restart |
| `broker_restart_rows` | Do stored events survive a restart? No: see Findings | same, only the restart |
| `runtime` | One task at a time, interruptible, hit only by its own interrupt, ended by it; every request answered; `TaskSlot` implemented | Three requests (one that submits, one that interrupts, one that comes in between), three tasks (so that a late callback of the first meets the second or third), one full queue, one restart |
| `runtime_redis_status` | Does an interrupted session stay interrupted? No: see Findings | two tasks, no disturbance |
| `loop` | Does every end report once, close the adapter, and start nothing after an interrupt? Is every action of a response dealt with before the next request (`TaskSteps`)? | Seven responses (both ends without actions, panel click, blank click with a key, two keys, a wait), three steps, threshold two: three steps let both counters pass the threshold, and be reset |
| `lifecycle` | Is every container known to the store that the cleanup loop goes by? Do memory and SQLite agree, but for a row that could not be written? Does the reconciliation spare sessions in use? Is every session retired? | Two sessions (the cleanup loop and the reconciliation go from one to the next), two requests of any kind (one overtakes the other, or the reaper), one failed call, Redis command or SQLite statement, one restart from each kind of store to each |
| `turn` | Does every request to the model go on where the conversation stands? Is what the model asked for what is done, in order and once, and does the picture it is then shown show it? Does the task end whatever hangs? | Display of 8 by 6 pixels with a panel of one row and launchers in five columns (inside, outside, edge, last pixel), two steps (the second continues a continuation), a window of 4 entries of the 5 there are, lists of up to four actions in the first answer (three and four equal clicks, double clicks next to clicks, on the panel and with the right button, a URL with and without Return and three times, a box, fractions, two calls, a call without id, nothing), a drag or a panel click in the second |
| `client` | Does the list show each event once, those of the shown session, and whether its task runs? | Two sessions (one to come from, one to go to), one with four events (a task, its end, another task), the other with two; room for two events in a history and in the list, so that both cut |
| `client_stuck` | Where the page refuses to send, is a task running? No: see Findings | same |
| `lifecycle_busy` | Is a session in use spared by the cleanup loop? No: see Findings | one session, no failure |
| `loop_repeat`, `loop_unchanged` | Do the two abort conditions mean what they are reported as? No: see Findings | as `loop` |

Deadlock is checked for `broker` and `lifecycle`, which never stop (a history can
always be read, the cleanup loop goes on). It is not for `runtime`, `loop`, `turn` and
`client`, whose bounded systems do: each request and task is used once, a run of the
loop ends, a log is full. What must not stop there is stated by the liveness properties.

Fairness is assumed only for what the scheduler of asyncio guarantees: a coroutine
whose await completed is resumed (`PublishEnd`, the steps of requests and tasks, the
steps of the loop, the done-callbacks, the handlers and the cleanup loop of
`SessionLifecycle`), deadlines pass, and an open socket handler goes on sending.
Model calls and sandbox calls complete because httpx clients have timeouts: in `turn`
fairness is on the backend alone (`WF_vars(Backend)`, with `GiveUp`, `Retry` and
`PostFails` among its steps), and the controller, the scripts and the model may stop
for ever. Nothing is assumed about clients, requests, cancellations, overflows or
restarts; `client` checks safety only and has no fairness.

## Proofs

Each theorem holds for every value of the constants that the module's assumption
admits; the runs check the same property on their instances. No property below is
inductive as it stands, and what is added to make it so says why the code works.

| Module | Theorem | Property |
|---|---|---|
| `EventBrokerProofs` | `TypeCorrect`, `HistoryStaysOrdered`, `DeliveredAtMostOnce`, `NoEventMissed`, `DeliveredInOrder`, `StoredEventsAreKept` | `TypeOK`, `HistoryOrdered`, `NoDuplicateDelivery`, `NoSilentGap`, `DeliveryOrder`, `PersistedEventsKept` |
| `AgentRuntimeProofs` | `TypeCorrect`, `AlwaysInterruptible`, `FlagIsFresh`, `CancelsAreMeant`, `AtMostOneTask`, `QuietIsSettled`, `ImplementsTaskSlot` | `TypeOK`, `Interruptible`, `NoStaleInterrupt`, `CancelsOnlyAsked`, one task, `StatusSettled`, `OneAtATime` (`TaskSlot`) |
| `AgentLoopProofs` | `TypeCorrect`, `AdapterIsClosed`, `InterruptStops`, `ResultsArePaired`, `LauncherClickedOnce`, `StuckTasksAreCut`, `ImplementsTaskRun`, `ImplementsTaskSteps` | `TypeOK`, `AdapterClosed`, `InterruptIsPrompt`, `ResultsMatchActions`, `LauncherOnce`, `StuckIsCut`, `ReportsOnce` (`TaskRun`), `StepByStep` (`TaskSteps`) |
| `SessionLifecycleProofs` | `TypeCorrect`, `NoContainerIsForgotten`, `StoresDoAgree`, `ActiveAreSpared` | `TypeOK`, `KnownContainers`, `MemoryAgrees`, `ReconcileSpares` |
| `ClientViewProofs` | `TypeCorrect`, `OneSessionIsShown`, `ListIsInOrder`, `RunningTaskIsKnown` | `TypeOK`, `ShowsSession`, `ListOrdered`, `KnowsTask` |
| `ModelTurnProofs` | `TypeCorrect`, `AskedIsMeant`, `ButtonIsLetGo`, `DoneAsReported`, `PictureShowsResults`, `ConversationGoesOn`, `OutsideWasAskedFor`, `ImplementsTaskSteps` | `TypeOK`, `MeaningKept`, `ButtonReleased`, `DoneInOrder`, `PictureFresh`, `RequestsContinue`, `OnlyOutsideRefused`, `StepByStep` (`TaskSteps`) |
| `NormalizeActionsProofs` | `NormalizedType`, `MeaningIsKept` | what normalize_actions returns is a list of validated actions, for the same as the list it was given |

`AgentRuntime`. At most one task is unfinished because submit() tests the registered
task only, which is enough when no other task can be unfinished, that is when
`Interruptible` holds; and that is kept because a done-callback removes only its own
task. `TargetsAsked` ties what an interrupt() remembers over its suspension to what was
asked for. `StatusSettled` needs `RunnerLoops`: with the memory store, whoever
published `running` last is still in its loop and will publish another status.

`EventBroker`. The argument follows identities: `FreshIds` (an identity in use was
handed out before), `DistinctIds` (history, rows and suspended calls each hold an event
once) and `NewcomersUntouched` (no snapshot holds a client that is still to subscribe);
`RowsHaveLast` makes the reload from SQLite well-defined. For the order of delivery
`Numbered` says that a suspended event follows all that its clients were given, of its
publisher; for the rows `RowsNumbered` says that in one run the counter is never below a
stored number, so that INSERT OR REPLACE has nothing to replace. The first restart
breaks that, which is finding 1.

`AgentLoop`. The invariant follows the program counter: `StepsCounted`, `EndsLast` and
`LateOnce` say how far the loop is, what it has reported, and that a model call begun
with the flag up is the last; `ResultsPair` what it has in hand. The stuck checks are
counters of a history that is not kept; `UnchangedCounts` and `RepeatsCount` say how far
back each reaches in what was done. That every action is dealt with before the next request
(`CycleStep`) is the counting of `ResultsPair` and `StepsCounted`.

`SessionLifecycle`. `Covered` gives every running container an active record, a creation
that is still to store it, or one of the known strays; `UnmarkedGone`, `Reconciling` and
`Booting` make it last over deletions and restarts. The agreement of the stores rests on
`TurnHeld` and `MidStores`: with the memory store a handler keeps the turn from its first
store operation to its last, so what it read is still so when it writes. A failed write
of a row is the one exception: `Agree` excepts the sessions in `unsaved`, and the next
write of the row takes its session out again.

`ClientView`. `OneView` and `InList` say which events the list can hold while a history
is on its way. `KnowsTask` is the hardest property of the project, because history, list
and replay are cut independently: `InStep` says that the list ends with a run of numbers
without a gap, and that where the socket's replay is behind that run (`Behind`) the list
is full, so that each old event drives out the one the replay brings next. This needs a
page that keeps no more events than the broker, `Shown <= Kept`, as a hypothesis of the
theorem. The code has 200 for both (`agent/events.py`, `page.tsx`); with `Kept = 2` and
`Shown = 3` TLC finds a page that forgets the running task.

`ModelTurn`. `Queued` is the sandbox's part: requests wait in the order of their numbers,
all scripts that ended have smaller numbers, and the request the backend waits for is the
last one posted. Hence a picture that is answered comes after every action (`Seen`), and
the answer of an action is that of its own script (`Noting`, `Waits`), also after
timeouts. `Pressed` accounts for the button. `Says`, `Answering` and `Remembers` are the
adapter's part: the lemma `RememberLatest` shows that the bounded deque is a window on
everything there was to say. `Steps` counts answers against steps, so that the response
a request continues is the one the loop acted on. `Inside` is proved on top, with
`NormalizedWithin`: no pass, no scaling and no rounding leaves the display. It needs
`Width # 1`: the settings allow a display of one column, and the launcher assist would
click beside it (`OutsideWasAskedFor` states the hypothesis; TLC finds the violation).
`AllNoted`, that the picture after a step is asked for with no action left, is what the
step to `TaskSteps` needs beyond `IInv`.

`NormalizeActionsProofs` shows that the recursive definitions behind
`_compact_duplicate_clicks`, `Purpose` and `FlattenSeq` are well defined and stay within
a set of actions. An induction theorem that takes a property as a parameter cannot be
used with the installed provers; `SetInduction` is induction over a set of numbers
instead, from the well-foundedness of the strict subset order (`BackwardInduction` goes
over the places of a list from its end; `LastPlace` in `ClientViewProofs` is a use of the
same idea). `MeaningIsKept` is about lists of every length and rests on one argument for
all three passes. A congruence is an equivalence of lists that does not depend on what
stands before them. A pass changes a list place by place (a pair becomes a double click, a
repetition goes, a double click on the panel becomes a click, a URL gets its Return); the
lemmas `CompactedCongruent`, `PanelCongruent` and `ReturnCongruent` show that it stays
within every congruence that contains its change at one place. Being for the same
(`PassesKeepPurpose`) and pressing as often at a place (`PassesKeepPresses`) are two such
congruences. The first is one because `Adds` is idempotent (`AddsAgain`), the second because
`Presses` adds up over a list (`PressesCons`).

Assumptions: bounds are natural numbers, history, list and queues hold at least one event
(`BrokerAssumption`, `ClientAssumption`); markers such as no task, no request, no session
and nobody are none of the things they stand beside (`RuntimeAssumption`,
`LifecycleAssumption`, `ClientAssumption`); the loop's threshold is at least two and its
step limit positive (`LoopAssumption`), as the settings demand; the display is not empty,
the window is 2 to 64 (`DisplayAssumption`, `WindowAssumption`, both bounds from the
settings); and the model's answers are lists of calls, each with raw actions of any
type and any numbers (`TurnAssumption`).

Only model-checked: everything with fairness (`Delivered`, `Answered`, `Terminates`,
`Retired`, `Settles`, and `InterruptStops` of `AgentRuntime`), because the provers handle
neither ENABLED nor fairness. All other properties of the runs that pass are theorems; the
properties of the runs that expect a violation are false. Three results are proved and not
part of a run: `ResultsMatchActions` of `AgentLoop`, `StepByStep` of `ModelTurn` and
`AtMostOneTask`. Adding the first two to the instances of `loop` and `turn` shows no violation.

## Findings

1. `broker_restart_rows`: after a restart the first publication that precedes a read
   of the history takes number 1 again, and INSERT OR REPLACE overwrites the stored
   event.
2. `runtime_redis_status`: with Redis an interrupted session can end in status
   `running` with no task.
3. `loop_repeat`: different key presses, scrolls and drags count as the same action.
4. `loop_unchanged`: actions that were refused count as visual actions without effect.
5. `lifecycle_busy`: a session that is used after the cleanup loop read the deadlines is
   deleted all the same.
6. `client_stuck`: a history that arrives after the socket delivered the end of a task
   replaces it, and the page refuses to send because of a task that no longer runs.
   Nothing on the page but loading the session again puts it right.

Properties that hold only with their exceptions, each of which happens:

- `KnownContainers`: a create that times out or cannot be recorded (a Redis command or
  clear_session_history() fails), a failed deletion in
  the cleanup loop, and a session created again between a deletion and its mark leave a
  container that no record leads to; only a restart with Redis removes it.
- `MemoryAgrees`: where the last write of a session's row failed, store and SQLite differ
  (`unsaved`) until a handler writes the row again. For a session the cleanup loop retired
  that may be never: its record is deleted, no later round visits it, and its row stays
  active unless a client asks for the session. No document says that the two agree (`docs/architecture.md:70` only lists what
  SQLite stores), so this is no finding.
- `ButtonReleased`: an xdotool that hangs in the mousedown of a drag, which is outside
  the `try`, or fails in its mouseup leaves the left button down.
- `ListOrdered`, `ShowsSession`, `KnowsTask`: see `muddled`, `lost` and `cut` above; a
  failed load, for instance, leaves the events of one session under the name of another.
- `MeaningKept`: `do_double_click` of `agent_action.py` presses the left button whatever
  button the action names, but the pass over the panel's double clicks keeps the name, so
  that one with `button: "right"` becomes a right click (`NamesOtherButton`).

What else the modules show, and no document speaks of: a response without actions and
without text ends a task as "Task complete"; the first picture of a task may be the one
a screenshot action of an earlier task left; the instruction leaves the window of the
stateless adapter; of two calls in one answer both are executed and the last is
answered; four equal clicks become two double clicks, and a text typed twice in a row
is typed once; fractional coordinates given as a list or a box are rounded to 0 or 1
instead of being scaled; a wait of 0 ms and a scroll by 0 pass the schema and are refused
by the script; with a display width of 1 the launcher assist clicks beside the display;
the same URL three times in a row becomes two URLs, each followed by Return; a restart
loses the registry of tasks while the last status of the persisted history may still be
`running`: no task exists, an interrupt answers NO_RUNNING_TASK without a status, and the
page, which goes by the last status in its list, refuses to send until that is pushed out.

## Plan

In this order; all of it is done.

1. `EventBroker` with its proofs.
2. `AgentRuntime` and `TaskSlot` with their proofs.
3. `AgentLoop` and `TaskRun`.
4. `SessionLifecycle`.
5. `NormalizeActions`: the passes over a list as operators, against what they must keep.
6. `SandboxActions`, `ModelAdapter` and their composition `ModelTurn`.
7. `ClientView`.
8. The proofs of all safety properties.
9. `MeaningKept` for lists of every length.
10. `TaskSteps`, which both models of the loop implement.

## Not modelled

- VNC proxies: they forward bytes between two sockets.
- Preflight and configuration: stateless checks; the settings are the constants.
- Prompts, tool schema and the key map: wording and tables. What a request says is kept
  as feedback, picture or failure.
- The screenshot store and the removal of old screenshots at the end of a cleanup
  round: files that nothing else refers to by more than their names.
- The messages and screenshots tables of SQLite: inserted and listed only.
- The smoke commands of the controller, the entry point of the image, and what xdotool,
  xclip and scrot do to the desktop.
- Inside the modelled parts: validate_python() of publish() rejecting an event, which none
  of the payloads the code publishes does; a server that answers without an id; lists of
  unusual length and null coordinates in the spellings of a point.
- The end-to-end scripts, and rendering, local messages, health and preflight in the
  frontend.
