-------------------------- MODULE SessionLifecycle --------------------------
(***************************************************************************)
(* The life of sessions: their containers at the sandbox controller, their *)
(* records in the session store (Redis, or the backend's memory), their    *)
(* rows in SQLite, and all who change them: the REST handlers, publish()   *)
(* with its touch(), the cleanup loop and the reconciliation at start-up.  *)
(*                                                                         *)
(* One action is one await that really suspends: a controller call or a    *)
(* Redis command.  The memory store never suspends, so there a handler     *)
(* keeps the turn from its first store operation to its next controller    *)
(* call.  The controller serves one request at a time (its handlers block  *)
(* its event loop) and serves a request to its end even when the backend   *)
(* stopped waiting for it or died.                                         *)
(*                                                                         *)
(* The read at the head of upsert_session() and mark_deleted() decides     *)
(* nothing that is modelled and is left out; touch() decides on its read.  *)
(***************************************************************************)
EXTENDS Integers, FiniteSets

CONSTANTS
  Sessions,     \* session ids
  Requests,     \* REST requests and events published, each used once
  Reaper,       \* the cleanup loop, and the reconciliation before it
  NoSession,    \* the session of who does nothing
  MaxFaults,    \* bound on controller calls, Redis commands and SQLite statements that fail
  MaxRestarts   \* bound on restarts of the backend process

Workers == Requests \cup {Reaper}
Nobody == "nobody"

ASSUME LifecycleAssumption ==
  /\ Reaper \notin Requests
  /\ Nobody \notin Workers
  /\ NoSession \notin Sessions
  /\ MaxFaults \in Nat
  /\ MaxRestarts \in Nat

VARIABLES
  redis,      \* did connect() reach Redis when this process started
  up,         \* "starting" until the reconciliation is over, then "serving"
  container,  \* the sessions that have a container
  record,     \* record[redis][s]: what the store holds for s
  listed,     \* listed[redis]: the ids in the set SESSION_SET_KEY
  row,        \* row[s]: the row of s in SQLite's table of sessions
  unsaved,    \* sessions whose row could not be written the last time (history)
  op,         \* op[o]: what o does, for which session, and where it is
  turn,       \* who runs without suspending (memory store), or Nobody
  late,       \* controller calls nobody waits for any more
  scan, todo, \* the reaper's: sessions still to look at, sessions to delete
  strays,     \* sessions whose container may have lost its record (history)
  faults, restarts

vars == << redis, up, container, record, listed, row, unsaved, op, turn, late, scan, todo,
           strays, faults, restarts >>
stores == << record, listed, row, unsaved >>
sweep == << scan, todo >>
process == << redis, up, restarts >>

RecordStates == {"none", "live", "idle", "deleted"}   \* idle: past its deadline
Kinds == {"create", "get", "interrupt", "delete", "touch", "reap", "orphan"}
Stores == {"read", "hset", "sadd", "row"}             \* places inside the store
Rests == {"new", "idle", "boot", "done"}
Places == {"scan", "pick", "call"} \cup Stores \cup Rests

Resting(place) == [kind |-> "touch", s |-> NoSession, write |-> "live", at |-> place]

Active(s) == s \in listed[redis] /\ record[redis][s] \in {"live", "idle"}
At(o, place) == op[o].at = place
Pending(o, s) == op[o].s = s /\ op[o].at \in {"call"} \cup Stores
----------------------------------------------------------------------------
Init ==
  /\ redis \in BOOLEAN
  /\ up = "starting"
  /\ container = {}
  /\ record = [b \in BOOLEAN |-> [s \in Sessions |-> "none"]]
  /\ listed = [b \in BOOLEAN |-> {}]
  /\ row = [s \in Sessions |-> "none"]
  /\ unsaved = {}
  /\ op = [o \in Workers |-> Resting(IF o = Reaper THEN "boot" ELSE "new")]
  /\ turn = Nobody
  /\ late = {}
  /\ scan = {}
  /\ todo = {}
  /\ strays = {}
  /\ faults = 0
  /\ restarts = 0

\* o goes to the given place; without Redis it keeps the turn until it calls the
\* controller or ends.
MayRun(o) == redis \/ turn \in {o, Nobody}

Become(o, kind, place, write) ==
  /\ op' = [op EXCEPT ![o] = IF place \in Rests THEN Resting(place)
                             ELSE [@ EXCEPT !.kind = kind, !.at = place, !.write = write]]
  /\ turn' = IF ~redis /\ place \in {"scan", "pick"} \cup Stores THEN o ELSE Nobody

Goto(o, place) == Become(o, op[o].kind, place, op[o].write)

Fault(S) == faults < MaxFaults /\ faults' = faults + 1 /\ strays' = strays \cup S
NoFault == UNCHANGED << faults, strays >>
----------------------------------------------------------------------------
\* Defect: the reconciliation runs beside the requests.
StartAnyTime(r) ==
  /\ At(r, "new")
  /\ turn = Nobody
  /\ \E s \in Sessions, kind \in {"create", "get", "interrupt", "touch"} :
       op' = [op EXCEPT ![r] =
                [kind |-> kind, s |-> s, write |-> "live",
                 at |-> IF kind \in {"create", "get"} THEN "call" ELSE "read"]]
  /\ UNCHANGED << process, container, stores, turn, late, sweep, strays, faults >>

\* A request arrives.  DELETE first interrupts the task, which publishes.
Start(r) ==
  /\ up = "serving"
  /\ At(r, "new")
  /\ turn = Nobody
  /\ \E s \in Sessions, kind \in {"create", "get", "interrupt", "touch"} :
       op' = [op EXCEPT ![r] =
                [kind |-> kind, s |-> s, write |-> "live",
                 at |-> IF kind \in {"create", "get"} THEN "call" ELSE "read"]]
  /\ UNCHANGED << process, container, stores, turn, late, sweep, strays, faults >>

\* The end of a touch(): its publish() was the whole event, or the interrupt before
\* a deletion, which a full queue of a client ends with a 500.
AfterTouch(o) ==
  \/ op[o].kind = "interrupt" /\ Become(o, "delete", "call", "deleted")
  \/ Goto(o, "done")

\* touch() reads the record and gives up when it is gone or marked deleted.
ReadRecord(o) ==
  /\ At(o, "read")
  /\ MayRun(o)
  /\ IF record[redis][op[o].s] \in {"none", "deleted"} THEN AfterTouch(o) ELSE Goto(o, "hset")
  /\ UNCHANGED << process, container, stores, late, sweep, strays, faults >>

\* The whole record is written back: the values read, or those of this handler.
Hset(o) ==
  /\ At(o, "hset")
  /\ MayRun(o)
  /\ record' = [record EXCEPT ![redis][op[o].s] = op[o].write]
  /\ Goto(o, "sadd")
  /\ UNCHANGED << process, container, listed, row, unsaved, late, sweep, strays, faults >>

Sadd(o) ==
  /\ At(o, "sadd")
  /\ MayRun(o)
  /\ listed' = [listed EXCEPT ![redis] = @ \cup {op[o].s}]
  /\ IF op[o].kind \in {"touch", "interrupt"} THEN AfterTouch(o) ELSE Goto(o, "row")
  /\ UNCHANGED << process, container, record, row, unsaved, late, sweep, strays, faults >>

\* Defect: the cleanup loop does not mark the row.
StoreRowOfHandlers(o) ==
  /\ At(o, "row")
  /\ MayRun(o)
  /\ row' = [row EXCEPT ![op[o].s] =
               IF op[o].kind = "reap" \/ (op[o].write = "deleted" /\ @ = "none")
               THEN @ ELSE op[o].write]
  /\ unsaved' = unsaved \ {op[o].s}
  /\ CASE op[o].kind = "create" -> Become(o, "touch", "read", "live")
       [] op[o].kind = "reap" -> Goto(o, "pick")
       [] OTHER -> Goto(o, "done")
  /\ UNCHANGED << process, container, record, listed, late, sweep, strays, faults >>

\* record_session or mark_session_deleted, which only updates an existing row,
\* and what follows: session_created is published, or the next session is reaped.
StoreRow(o) ==
  /\ At(o, "row")
  /\ MayRun(o)
  /\ row' = [row EXCEPT ![op[o].s] =
               IF op[o].write = "deleted" /\ @ = "none" THEN "none" ELSE op[o].write]
  /\ unsaved' = unsaved \ {op[o].s}
  /\ CASE op[o].kind = "create" -> Become(o, "touch", "read", "live")
       [] op[o].kind = "reap" -> Goto(o, "pick")
       [] OTHER -> Goto(o, "done")
  /\ UNCHANGED << process, container, record, listed, late, sweep, strays, faults >>
----------------------------------------------------------------------------
\* A deletion that was carried out and is not yet marked in the store.
Unmarked(s) == \E o \in Workers : Pending(o, s) /\ At(o, "hset") /\ op[o].write = "deleted"

\* The controller creates the container, or finds the one there is.
Created(o) ==
  /\ op[o].kind = "create"
  /\ container' = container \cup {op[o].s}
  /\ strays' = strays \cup { s \in {op[o].s} : Unmarked(s) }
  /\ Become(o, "create", "hset", "live")

Inspected(o) ==
  /\ op[o].kind = "get"
  /\ Become(o, "get", "hset", IF op[o].s \in container THEN "live" ELSE "deleted")
  /\ UNCHANGED << container, strays >>

\* Defect: the controller answers without removing the container.
RemovedKeeps(o) ==
  /\ op[o].kind \in {"delete", "reap", "orphan"}
  /\ IF op[o].kind = "orphan" THEN Goto(o, "pick") ELSE Become(o, op[o].kind, "hset", "deleted")
  /\ UNCHANGED << container, strays >>

\* The controller removes the container if there is one.
Removed(o) ==
  /\ op[o].kind \in {"delete", "reap", "orphan"}
  /\ container' = container \ {op[o].s}
  /\ IF op[o].kind = "orphan" THEN Goto(o, "pick") ELSE Become(o, op[o].kind, "hset", "deleted")
  /\ UNCHANGED strays

Served(o) ==
  /\ At(o, "call")
  /\ turn = Nobody
  /\ Created(o) \/ Inspected(o) \/ Removed(o)
  /\ UNCHANGED << process, stores, late, sweep, faults >>

\* The call fails or times out; the controller may still serve it later.
Call(o) == [kind |-> op[o].kind, s |-> op[o].s]
MaybeLate(calls) == \E some \in SUBSET calls : late' = late \cup some

\* A handler answers 502; the cleanup loop ignores the failure and marks the
\* record; the reconciliation stops at it.
CallFailed(o) ==
  /\ At(o, "call")
  /\ turn = Nobody
  /\ MaybeLate({Call(o)})
  /\ CASE op[o].kind = "reap" -> /\ Become(o, "reap", "hset", "deleted")
                                 /\ Fault({op[o].s})
                                 /\ UNCHANGED << up, todo >>
       [] op[o].kind = "orphan" -> /\ Goto(o, "idle")
                                   /\ Fault({op[o].s} \cup todo)
                                   /\ up' = "serving"
                                   /\ todo' = {}
       [] OTHER -> /\ Goto(o, "done")
                   /\ Fault({})
                   /\ UNCHANGED << up, todo >>
  /\ UNCHANGED << redis, restarts, container, stores, scan >>

ServedLate ==
  /\ \E c \in late :
       /\ late' = late \ {c}
       /\ CASE c.kind = "create" -> /\ container' = container \cup {c.s}
                                    /\ strays' = strays \cup {c.s}
            [] c.kind = "get" -> UNCHANGED << container, strays >>
            [] OTHER -> container' = container \ {c.s} /\ UNCHANGED strays
  /\ UNCHANGED << process, stores, op, turn, sweep, faults >>

\* Defect: an exception ends the cleanup loop.
StoreFailedEndsLoop(o) ==
  /\ redis
  /\ op[o].at \in {"read", "hset", "sadd"}
  /\ Fault({ s \in {op[o].s} : op[o].kind = "create" })
  /\ IF op[o].kind \in {"touch", "interrupt"} THEN AfterTouch(o) ELSE Goto(o, "done")
  /\ UNCHANGED << process, container, stores, late, sweep >>

\* A Redis command fails: publish() swallows it, a handler answers 500, and the
\* cleanup loop drops the rest of this round.
StoreFailed(o) ==
  /\ redis
  /\ op[o].at \in {"read", "hset", "sadd"}
  /\ Fault({ s \in {op[o].s} : op[o].kind = "create" })
  /\ CASE op[o].kind \in {"touch", "interrupt"} -> AfterTouch(o)
       [] op[o].kind = "reap" -> Goto(o, "idle")
       [] OTHER -> Goto(o, "done")
  /\ UNCHANGED << process, container, stores, late, sweep >>
\* A SQLite statement fails and nobody catches it: record_session and
\* mark_session_deleted after the session store was written, clear_session_history
\* before.  A handler answers 500, the cleanup loop drops the rest of this round.
SQLiteFailed(o) ==
  /\ MayRun(o)
  /\ \/ /\ At(o, "row")
        /\ unsaved' = unsaved \cup {op[o].s}
        /\ Fault({})
     \/ /\ At(o, "hset")
        /\ op[o].kind = "create"
        /\ Fault({op[o].s})
        /\ UNCHANGED unsaved
  /\ Goto(o, IF op[o].kind = "reap" THEN "idle" ELSE "done")
  /\ UNCHANGED << process, container, record, listed, row, late, sweep >>
----------------------------------------------------------------------------
\* The idle deadline of a record passes.
DeadlinePasses(s) ==
  /\ \E b \in BOOLEAN :
       /\ record[b][s] = "live"
       /\ record' = [record EXCEPT ![b][s] = "idle"]
  /\ UNCHANGED << process, container, listed, row, unsaved, op, turn, late, sweep, strays, faults >>

\* _cleanup_once: expired_session_ids reads the records one after the other.
ListSessions ==
  /\ At(Reaper, "idle")
  /\ turn = Nobody
  /\ scan' = listed[redis]
  /\ todo' = {}
  /\ Become(Reaper, "reap", "scan", "deleted")
  /\ UNCHANGED << process, container, stores, late, strays, faults >>

LookAt ==
  /\ At(Reaper, "scan")
  /\ MayRun(Reaper)
  /\ \E s \in scan :
       /\ scan' = scan \ {s}
       /\ todo' = IF record[redis][s] = "idle" THEN todo \cup {s} ELSE todo
  /\ UNCHANGED << process, container, stores, op, turn, late, strays, faults >>

\* The reaper asks the controller to delete the session.
CallFor(s) ==
  /\ op' = [op EXCEPT ![Reaper].s = s, ![Reaper].at = "call"]
  /\ turn' = Nobody

\* The next expired session, or the sleep until the next round.
PickExpired ==
  /\ (At(Reaper, "scan") /\ scan = {}) \/ At(Reaper, "pick")
  /\ op[Reaper].kind = "reap"
  /\ MayRun(Reaper)
  /\ IF todo = {}
     THEN Goto(Reaper, "idle") /\ UNCHANGED todo
     ELSE \E s \in todo :
            /\ CallFor(s)
            /\ todo' = todo \ {s}
  /\ UNCHANGED << process, container, stores, late, scan, strays, faults >>
----------------------------------------------------------------------------
\* Defect: the reconciliation does not ask for a persistent backend.
ReconcileAlways ==
  /\ At(Reaper, "boot")
  /\ Become(Reaper, "orphan", "pick", "deleted")
  /\ todo' = { s \in container : ~Active(s) }
  /\ UNCHANGED << up, strays, faults >>

\* _reconcile_orphan_sandboxes: only with Redis, and only when the controller
\* lists its containers.
Reconcile ==
  /\ At(Reaper, "boot")
  /\ \/ /\ redis
        /\ Become(Reaper, "orphan", "pick", "deleted")
        /\ todo' = { s \in container : ~Active(s) }
        /\ UNCHANGED << up, strays, faults >>
     \/ /\ redis
        /\ Fault(Sessions)
        /\ Goto(Reaper, "idle")
        /\ up' = "serving"
        /\ UNCHANGED todo
     \/ /\ ~redis
        /\ Goto(Reaper, "idle")
        /\ up' = "serving"
        /\ UNCHANGED << todo, strays, faults >>

Reconciled == Reconcile /\ UNCHANGED << redis, restarts, container, stores, late, scan >>

PickOrphan ==
  /\ At(Reaper, "pick")
  /\ op[Reaper].kind = "orphan"
  /\ IF todo = {}
     THEN Goto(Reaper, "idle") /\ up' = "serving" /\ UNCHANGED todo
     ELSE \E s \in todo :
            /\ CallFor(s)
            /\ todo' = todo \ {s}
            /\ UNCHANGED up
  /\ UNCHANGED << redis, restarts, container, stores, late, scan, strays, faults >>

\* The backend dies and starts again.  Its memory is lost, calls on their way
\* may or may not reach the controller, Redis may be reachable or not.
Restart ==
  /\ restarts < MaxRestarts
  /\ restarts' = restarts + 1
  /\ redis' \in BOOLEAN
  /\ up' = "starting"
  /\ record' = [record EXCEPT ![FALSE] = [s \in Sessions |-> "none"]]
  /\ listed' = [listed EXCEPT ![FALSE] = {}]
  /\ op' = [o \in Workers |->
              Resting(IF o = Reaper THEN "boot" ELSE IF At(o, "new") THEN "new" ELSE "done")]
  /\ MaybeLate({ Call(o) : o \in { w \in Workers : At(w, "call") } })
  /\ turn' = Nobody
  /\ scan' = {}
  /\ todo' = {}
  /\ strays' = {}
  /\ UNCHANGED << container, row, unsaved, faults >>

StoreStep(o) == ReadRecord(o) \/ Hset(o) \/ Sadd(o) \/ StoreRow(o)
ReaperStep == ListSessions \/ LookAt \/ PickExpired \/ Reconciled \/ PickOrphan

Next ==
  \/ \E r \in Requests : Start(r)
  \/ \E o \in Workers :
       StoreStep(o) \/ Served(o) \/ CallFailed(o) \/ StoreFailed(o) \/ SQLiteFailed(o)
  \/ ServedLate
  \/ \E s \in Sessions : DeadlinePasses(s)
  \/ ReaperStep
  \/ Restart

Spec == Init /\ [][Next]_vars

\* Time passes, coroutines are resumed, and a controller call ends: it is served
\* or times out.  Requests, failures and restarts are not fair.
Fairness ==
  /\ \A s \in Sessions : WF_vars(DeadlinePasses(s))
  /\ \A o \in Workers : WF_vars(StoreStep(o)) /\ WF_vars(Served(o) \/ CallFailed(o))
  /\ WF_vars(ReaperStep)

FairSpec == Spec /\ Fairness
----------------------------------------------------------------------------
TypeOK ==
  /\ redis \in BOOLEAN
  /\ up \in {"starting", "serving"}
  /\ container \in SUBSET Sessions
  /\ record \in [BOOLEAN -> [Sessions -> RecordStates]]
  /\ listed \in [BOOLEAN -> SUBSET Sessions]
  /\ row \in [Sessions -> RecordStates \ {"idle"}]
  /\ unsaved \in SUBSET Sessions
  /\ op \in [Workers -> [kind : Kinds, s : Sessions \cup {NoSession},
                         write : {"live", "deleted"}, at : Places]]
  /\ turn \in Workers \cup {Nobody}
  /\ late \in SUBSET [kind : Kinds, s : Sessions]
  /\ redis => turn = Nobody
  /\ up = "starting" => \A r \in Requests : op[r].at \in Rests
  /\ \A o \in Workers : op[o].at \in {"call"} \cup Stores => op[o].s \in Sessions
  /\ scan \in SUBSET Sessions /\ todo \in SUBSET Sessions /\ strays \in SUBSET Sessions
  /\ faults \in Nat /\ restarts \in Nat

\* A container without an active record would run for ever: the cleanup loop goes
\* by the records.  There is none at rest, except when a creation could not be recorded
\* or was served late, when the reaper failed to delete it, or when it was re-created
\* before its deletion was marked; a start with Redis removes those as well as any
\* that a crash left behind.
KnownContainers ==
  up = "serving" /\ (redis \/ restarts = 0) =>
    \A s \in container \ strays :
      Active(s) \/ \E o \in Workers : Pending(o, s)

\* In one process with the memory store, the store and SQLite agree about which
\* sessions are alive whenever no handler is in the middle of its stores.  Nothing
\* undoes the record when its row cannot be written: then they differ about this
\* session, and about no other, until the row is written again.
MemoryAgrees ==
  ~redis /\ turn = Nobody /\ restarts = 0 =>
    \A s \in Sessions \ unsaved : Active(s) <=> row[s] = "live"

\* The reconciliation removes a container only with Redis, and only one without an
\* active record (docs/architecture.md); only a call served late may interfere.
ReconcileSpares ==
  [][ up = "starting" =>
        \A s \in container :
          (~redis \/ Active(s)) /\ (\A c \in late : c.s # s) => s \in container' ]_vars

\* Every active session that is used no more is retired in the end, whatever
\* failed in the rounds of the cleanup loop before.
Retired == \A s \in Sessions : Active(s) ~> ~Active(s)

\* "The backend lifecycle starts a cleanup loop that deletes idle sandbox sessions"
\* (docs/architecture.md): a session whose deadline has not passed is not reaped.
OnlyIdleReaped ==
  [][ \A s \in Sessions :
        (Served(Reaper) /\ op[Reaper].kind = "reap" /\ op[Reaper].s = s)
          => record[redis][s] # "live" ]_vars
=============================================================================
