----------------------------- MODULE ClientView -----------------------------
(***************************************************************************)
(* The page's list of events (frontend/app/page.tsx, lib/api.ts): how the  *)
(* history it loads, the events its socket delivers and the requests of    *)
(* its buttons are put together, against the logs of the backend           *)
(* (agent/events.py, api/events.py).                                       *)
(*                                                                         *)
(* An event is a place in the log of its session; of what it says only     *)
(* whether it is a task_status matters.  A task runs as long as the log's  *)
(* last status is "running" (EventBroker and AgentRuntime say how far that *)
(* is so).  A history is served at one moment and arrives at a later one;  *)
(* creating and sending have nothing in between that the list depends on   *)
(* and are one step, and so is an interrupt: what it publishes late, the   *)
(* task may publish at any time.  The log of a deleted session can still   *)
(* be read, from SQLite.                                                   *)
(***************************************************************************)
EXTENDS Integers, Sequences, FiniteSets, SequencesExt

CONSTANTS
  Sessions,  \* the sessions there may be
  NoSession, \* sessionId = null
  Kept,      \* how many events the broker keeps (MAX_EVENT_HISTORY)
  Shown,     \* how many events the page keeps (200)
  MaxLog     \* where the events of each session end

ASSUME ClientAssumption ==
  /\ NoSession \notin Sessions
  /\ Kept \in Nat \ {0} /\ Shown \in Nat \ {0} /\ MaxLog \in [Sessions -> Nat \ {0}]

VARIABLES
  log,       \* the events of each session at the backend
  up,        \* the sessions that run
  session,   \* session?.session_id
  events,    \* the list of the page
  socket,    \* the state of its socket, and the place of the next event on it
  handler,   \* the request of a button, while state = "loading"
  boot,      \* the request of restoreActiveSession
  muddled,   \* did the list take in events of another session (history)
  lost,      \* did the list lose events that the socket has delivered (history)
  cut        \* was an event ever cut off from a history or the list (history)

page == << session, events, socket >>
requests == << handler, boot >>
ghosts == << muddled, lost, cut >>
vars == << log, up, page, requests, ghosts >>

Kinds == {"running", "end", "note"}  \* task_status of either kind, or anything else
Events == [of : Sessions, n : Nat \ {0}]

Idle == [kind |-> "none", at |-> "none", of |-> NoSession, upto |-> 0]
Request(kind, at, s) == [kind |-> kind, at |-> at, of |-> s, upto |-> 0]
NoSocket == [state |-> "none", next |-> 0]

Last1(q) == SelectLastInSeq(q, LAMBDA kind : kind # "note")

\* Is a task running, for the backend?
Busy(s) == Last1(log[s]) # 0 /\ log[s][Last1(log[s])] = "running"

Kind(event) == log[event.of][event.n]

\* latestTask, taskIsRunning
TaskIsRunning ==
  LET i == SelectLastInSeq(events, LAMBDA e : Kind(e) # "note")
  IN i # 0 /\ Kind(events[i]) = "running"

\* interruptEnabled: a task_status that is none of done, error, interrupted.
InterruptEnabled == session # NoSession /\ TaskIsRunning

Oldest(length) == IF length > Kept THEN length - Kept + 1 ELSE 1

\* What history() gave when the log ended at upto.
History(s, upto) ==
  [i \in 1 .. upto - Oldest(upto) + 1 |-> [of |-> s, n |-> Oldest(upto) + i - 1]]

Init ==
  /\ up \in SUBSET Sessions
  /\ log \in [Sessions -> { << >>, << "note" >>, << "note", "running" >> }]
  /\ \A s \in Sessions : s \in up <=> log[s] # << >>
  /\ session = NoSession
  /\ events = << >>
  /\ socket = NoSocket
  /\ handler = Idle
  /\ boot = Request("boot", "listing", NoSession)
  /\ muddled = FALSE
  /\ lost = FALSE
  /\ cut = \E s \in Sessions : Len(log[s]) > Kept
----------------------------------------------------------------------------
\* The backend publishes an event.
Publish(s, kind) ==
  /\ Len(log[s]) < MaxLog[s]
  /\ log' = [log EXCEPT ![s] = Append(log[s], kind)]
  /\ cut' = (cut \/ Len(log[s]) >= Kept)

\* What interrupt() publishes: "interrupted" for a running task, otherwise a warning,
\* NO_RUNNING_TASK, and no status.
Interruption(s) == IF Busy(s) THEN "end" ELSE "note"

TaskReports(s) ==
  /\ s \in up /\ Busy(s)
  /\ \E kind \in Kinds : Publish(s, kind)
  /\ UNCHANGED << up, page, requests, muddled, lost >>
----------------------------------------------------------------------------
\* setSession: the effect on [sessionId] closes the socket and opens another one.
SetSession(s) ==
  /\ session' = s
  /\ socket' = IF s = session THEN socket
               ELSE IF s = NoSession THEN NoSocket
               ELSE [state |-> "connecting", next |-> 0]

\* Is a session being created?  The list is cleared for it already.
Creating == handler # Idle /\ handler.of = NoSession

\* setEvents of a history.
ShowHistory(request) ==
  /\ events' = History(request.of, request.upto)
  /\ muddled' = (request.of # session \/ Creating)
  /\ lost' = (request.of = session /\ socket.next > request.upto + 1)

ClearEvents ==
  /\ events' = << >>
  /\ muddled' = FALSE
  /\ lost' = (session' # NoSession)

\* Does restoreActiveSession still go on while a button is used?
Overlap == boot # Idle

\* GET events is served.
Served(request) == [request EXCEPT !.at = "answered", !.upto = Len(log[request.of])]
----------------------------------------------------------------------------
\* restoreActiveSession: the list of sessions is read, and arrives.
BootListed ==
  /\ boot.at = "listing"
  /\ \/ \E s \in up : boot' = Request("boot", "listed", s)
     \/ up = {} /\ boot' = Idle
  /\ UNCHANGED << log, up, page, handler, ghosts >>

BootArrives ==
  /\ boot.at = "listed"
  /\ SetSession(boot.of)
  /\ boot' = Request("boot", "asked", boot.of)
  /\ muddled' = (muddled \/ handler # Idle \/ events # << >>)
  /\ UNCHANGED << log, up, events, handler, lost, cut >>

BootAnswered ==
  /\ boot.at = "asked"
  /\ boot' = Served(boot)
  /\ UNCHANGED << log, up, page, handler, ghosts >>

BootShown ==
  /\ boot.at = "answered"
  /\ ShowHistory(boot)
  /\ boot' = Idle
  /\ UNCHANGED << log, up, session, socket, handler, cut >>

BootFails ==
  /\ boot # Idle
  /\ boot' = Idle
  /\ UNCHANGED << log, up, page, handler, ghosts >>
----------------------------------------------------------------------------
\* handleSelectSession
Select(s) ==
  /\ handler = Idle /\ s # session /\ s \in up
  /\ handler' = Request("select", "asked", s)
  /\ SetSession(s)
  /\ muddled' = (muddled \/ Overlap)
  /\ UNCHANGED << log, up, events, boot, lost, cut >>

SelectAnswered ==
  /\ handler.at = "asked" /\ handler.kind = "select"
  /\ handler' = Served(handler)
  /\ UNCHANGED << log, up, page, boot, ghosts >>

SelectShown ==
  /\ handler.at = "answered"
  /\ ShowHistory(handler)
  /\ handler' = Idle
  /\ UNCHANGED << log, up, session, socket, boot, cut >>

\* "Session load failed": the events of the session before stay in the list.
SelectFails ==
  /\ handler.kind = "select"
  /\ handler' = Idle
  /\ muddled' = TRUE
  /\ UNCHANGED << log, up, page, boot, lost, cut >>
----------------------------------------------------------------------------
\* Defect: the list is not cleared.
CreateKeepsEvents ==
  /\ handler = Idle
  /\ handler' = Request("create", "asked", NoSession)
  /\ UNCHANGED << log, up, page, boot, ghosts >>

\* handleCreateSession: the list is cleared before the session is created; the socket
\* of the session before goes on.
Create ==
  /\ handler = Idle
  /\ handler' = Request("create", "asked", NoSession)
  /\ UNCHANGED << log, up, session, socket, boot, cut >>
  /\ ClearEvents

\* submitText of a page without a session creates one first.
SubmitCreates ==
  /\ handler = Idle /\ session = NoSession /\ ~TaskIsRunning
  /\ handler' = Request("submit", "asked", NoSession)
  /\ UNCHANGED << log, up, session, socket, boot, cut >>
  /\ ClearEvents

NewSession(s) ==
  /\ s \notin up /\ log[s] = << >>
  /\ up' = up \cup {s}
  /\ log' = [log EXCEPT ![s] = << "note" >>]
  /\ SetSession(s)
  /\ muddled' = (muddled \/ Overlap)
  /\ lost' = FALSE

Created(s) ==
  /\ handler.kind = "create"
  /\ NewSession(s)
  /\ handler' = Idle
  /\ UNCHANGED << events, boot, cut >>

\* ... and goes on to sendMessage.
SubmitCreated(s) ==
  /\ handler.kind = "submit" /\ handler.of = NoSession
  /\ NewSession(s)
  /\ handler' = Request("submit", "asked", s)
  /\ UNCHANGED << events, boot, cut >>

\* submitText, unless "A task is already running."
Submit ==
  /\ handler = Idle /\ session # NoSession /\ ~TaskIsRunning
  /\ handler' = Request("submit", "asked", session)
  /\ UNCHANGED << log, up, page, boot, ghosts >>

\* POST messages: "queued" is the first status of the task, or a warning says that a
\* task is running.
Sent ==
  /\ handler.kind = "submit" /\ handler.of \in up
  /\ Publish(handler.of, IF Busy(handler.of) THEN "note" ELSE "running")
  /\ handler' = Idle
  /\ UNCHANGED << up, page, boot, muddled, lost >>

\* handleDeleteSession
Delete ==
  /\ handler = Idle /\ session # NoSession
  /\ handler' = Request("delete", "asked", session)
  /\ UNCHANGED << log, up, page, boot, ghosts >>

\* DELETE interrupts the task first.
DeleteInterrupts ==
  /\ handler.kind = "delete" /\ handler.at = "asked"
  /\ Publish(handler.of, Interruption(handler.of))
  /\ handler' = [handler EXCEPT !.at = "interrupted"]
  /\ UNCHANGED << up, page, boot, muddled, lost >>

Deleted ==
  /\ handler.at = "interrupted"
  /\ up' = up \ {handler.of}
  /\ SetSession(NoSession)
  /\ ClearEvents
  /\ handler' = Idle
  /\ UNCHANGED << log, boot, cut >>

\* Creating, sending or deleting fails: the page only shows the error.  The list
\* stays cleared when "New task" fails, with the session before still shown.
RequestFails ==
  /\ handler.kind \in {"create", "submit", "delete"}
  /\ handler' = Idle
  /\ UNCHANGED << log, up, page, boot, ghosts >>

\* POST interrupt.
Interrupt ==
  /\ InterruptEnabled /\ session \in up
  /\ Publish(session, Interruption(session))
  /\ UNCHANGED << up, page, requests, muddled, lost >>
----------------------------------------------------------------------------
\* Defect: subscribe() gives no history, only what is published from now on.
SocketOpensLive ==
  /\ socket.state = "connecting"
  /\ socket' = [state |-> "open", next |-> Len(log[session]) + 1]
  /\ UNCHANGED << log, up, session, events, requests, ghosts >>

\* subscribe(): first the history, then what is published.
SocketOpens ==
  /\ socket.state = "connecting"
  /\ socket' = [state |-> "open", next |-> Oldest(Len(log[session]))]
  /\ UNCHANGED << log, up, session, events, requests, ghosts >>

\* The socket breaks; nothing opens it again.
SocketCloses ==
  /\ socket.state \in {"connecting", "open"}
  /\ socket' = [socket EXCEPT !.state = "closed"]
  /\ UNCHANGED << log, up, session, events, requests, ghosts >>

\* slice(-200)
Newest(q) == IF Len(q) > Shown THEN SubSeq(q, Len(q) - Shown + 1, Len(q)) ELSE q

\* Defect: the list grows without bound.
ShowAll(event) == events' = Append(events, event) /\ cut' = cut

Show(event) ==
  /\ events' = Newest(Append(events, event))
  /\ cut' = (cut \/ Len(events) >= Shown)

\* Defect: what is in the list already is shown again.
ReceiveTwice ==
  /\ socket.state = "open" /\ socket.next <= Len(log[session])
  /\ Show([of |-> session, n |-> socket.next])
  /\ socket' = [socket EXCEPT !.next = socket.next + 1]
  /\ muddled' = (muddled \/ Creating)
  /\ UNCHANGED << log, up, session, requests, lost >>

\* socket.onmessage: events that are in the list already are skipped.  What still
\* arrives while a session is being created belongs to the session before.
Receive ==
  /\ socket.state = "open" /\ socket.next <= Len(log[session])
  /\ LET event == [of |-> session, n |-> socket.next] IN
       IF event \in Range(events) THEN UNCHANGED << events, cut >> ELSE Show(event)
  /\ socket' = [socket EXCEPT !.next = socket.next + 1]
  /\ muddled' = (muddled \/ Creating)
  /\ UNCHANGED << log, up, session, requests, lost >>
----------------------------------------------------------------------------
Backend == \E s \in Sessions : TaskReports(s)
Boot == BootListed \/ BootArrives \/ BootAnswered \/ BootShown \/ BootFails
Buttons == \/ \E s \in Sessions : Select(s)
           \/ Create \/ SubmitCreates \/ Submit \/ Delete \/ Interrupt
Answers == \/ SelectAnswered \/ SelectShown \/ SelectFails \/ Sent
           \/ DeleteInterrupts \/ Deleted \/ RequestFails
           \/ \E s \in Sessions : Created(s) \/ SubmitCreated(s)
Socket == SocketOpens \/ SocketCloses \/ Receive

Next == Backend \/ Boot \/ Buttons \/ Answers \/ Socket

Spec == Init /\ [][Next]_vars
----------------------------------------------------------------------------
TypeOK ==
  /\ log \in [Sessions -> Seq(Kinds)]
  /\ up \subseteq Sessions
  /\ session \in Sessions \cup {NoSession}
  /\ events \in Seq(Events) /\ Len(events) <= (IF Kept > Shown THEN Kept ELSE Shown)
  /\ socket.state \in {"none", "connecting", "open", "closed"} /\ socket.next \in Nat
  /\ \A r \in {handler, boot} : r.of \in Sessions \cup {NoSession} /\ r.upto \in Nat
  /\ muddled \in BOOLEAN /\ lost \in BOOLEAN /\ cut \in BOOLEAN

\* Nothing is on its way to the page: no request is open, and its socket has
\* delivered everything.
AtRest ==
  /\ handler = Idle /\ boot = Idle
  /\ session # NoSession => socket.state = "open" /\ socket.next > Len(log[session])

\* The list shows each event once, and those of a session in their order, however
\* the loaded history and the socket's replay of it overlap, as long as nothing was
\* cut off (a replay begun before the cut brings the oldest events back, at the end)
\* and nothing is left in it of another session's view (see ShowsSession).
ListOrdered ==
  (~cut /\ ~muddled) => \A i, j \in DOMAIN events :
     (i < j /\ events[i].of = events[j].of) => events[i].n < events[j].n

\* Whatever session the user goes to, in the end the list shows that one; it fails
\* to only after a failed load, with a button used while the page still restores
\* its session, or when the old session speaks while a new one is created.
ShowsSession ==
  (AtRest /\ ~muddled) => \A i \in DOMAIN events : events[i].of = session

\* Is the last status of a session among the events the broker and the page keep?
StatusKept(s) == Len(log[s]) - Last1(log[s]) < Kept /\ Len(log[s]) - Last1(log[s]) < Shown

\* At rest the page knows whether a task is running, as long as its last status is
\* among the newest events, unless a loaded history came later than newer events and
\* replaced them, or "New task" cleared the list and failed.
KnowsTask ==
  (AtRest /\ session \in up /\ StatusKept(session) /\ ~muddled /\ ~lost) =>
    TaskIsRunning = Busy(session)

\* "A task is already running. Interrupt it or wait for it to finish."
\* (frontend/app/page.tsx): where the page says so at rest, one is, in some session.
RefusalIsTrue == (AtRest /\ session \in up /\ TaskIsRunning) => \E s \in up : Busy(s)
=============================================================================
