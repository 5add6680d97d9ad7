----------------------- MODULE SessionLifecycleProofs -----------------------
(***************************************************************************)
(* Proofs about SessionLifecycle for any set of sessions and requests and  *)
(* any bounds.  A container has an active record because a creation is     *)
(* always followed by its stores; the reconciliation covers what a crash   *)
(* left behind; and the memory store agrees with SQLite, where no write of *)
(* a row failed, because a handler keeps the turn from its first store to  *)
(* its last.                                                               *)
(***************************************************************************)
EXTENDS SessionLifecycle, TLAPS

\* Until the backend serves, only the reconciliation runs, and only with Redis; its
\* work list holds every container without an active record and no other session.
Reconciling ==
  up = "starting" =>
    /\ turn = Nobody
    /\ At(Reaper, "boot") \/ (redis /\ op[Reaper].kind = "orphan" /\ op[Reaper].at \in {"pick", "call"})
    /\ restarts = 0 => container = {} /\ late = {}
    /\ op[Reaper].kind = "orphan" =>
         /\ \A s \in todo : ~Active(s)
         /\ At(Reaper, "call") => ~Active(op[Reaper].s)
         /\ \A s \in container \ strays :
              Active(s) \/ s \in todo \/ (At(Reaper, "call") /\ op[Reaper].s = s)

\* The reconciliation is done before the backend serves.
Booting == At(Reaper, "boot") => up = "starting"

\* A session about to be marked deleted has no container, or is known to stray.
UnmarkedGone ==
  \A o \in Workers :
    At(o, "hset") /\ op[o].write = "deleted" => op[o].s \notin container \ strays

\* A creation whose record is not complete yet.
Creating(s) ==
  \E o \in Workers :
    /\ op[o].s = s /\ op[o].kind = "create"
    /\ At(o, "hset") \/ (At(o, "sadd") /\ record[redis][s] \in {"live", "idle"})

Covered ==
  up = "serving" /\ (redis \/ restarts = 0) =>
    \A s \in container \ strays : Active(s) \/ Creating(s)

\* Without Redis, who is between two places that do not suspend has the turn.
TurnHeld ==
  ~redis => \A o \in Workers :
              /\ op[o].at \in {"scan", "pick", "hset", "sadd", "row"} => turn = o
              /\ op[o].kind # "orphan"

Touching(o) == op[o].kind \in {"touch", "interrupt"}

\* touch() only writes back what it read, and keeps away from SQLite.
Proper(o) ==
  /\ At(o, "read") => Touching(o)
  /\ Touching(o) /\ op[o].at \in Stores => op[o].write = "live" /\ ~At(o, "row")

TouchesLive == \A o \in Workers : Proper(o)

\* What a handler knows between its stores, in one process with the memory store.
Kept(s) == record[FALSE][s] \in {"live", "idle"}

MidStores ==
  ~redis /\ restarts = 0 =>
    \A o \in Workers :
      /\ Touching(o) /\ op[o].at \in {"hset", "sadd"} => Kept(op[o].s)
      /\ op[o].at \in {"sadd", "row"} => (Kept(op[o].s) <=> op[o].write = "live")
      /\ At(o, "row") => op[o].s \in listed[FALSE]

\* Store and SQLite agree about a session, unless its row could not be written.
Agree(s) ==
  /\ s \in unsaved \/ (Kept(s) <=> row[s] = "live")
  /\ Kept(s) => s \in listed[FALSE]

\* They agree about every session no handler is in the middle of.
StoresAgree ==
  ~redis /\ restarts = 0 =>
    \A s \in Sessions :
      \/ \E o \in Workers : op[o].s = s /\ op[o].at \in {"sadd", "row"} /\ ~Touching(o)
      \/ Agree(s)

IInv ==
  /\ TypeOK
  /\ Reconciling
  /\ Booting
  /\ UnmarkedGone
  /\ Covered
  /\ TurnHeld
  /\ TouchesLive
  /\ MidStores
  /\ StoresAgree

----------------------------------------------------------------------------
Operations == [kind : Kinds, s : Sessions \cup {NoSession},
               write : {"live", "deleted"}, at : Places]

\* What Become does to the operations and to the turn.
LEMMA BecomeEffect ==
  ASSUME TypeOK, NEW o \in Workers, NEW kind \in Kinds, NEW place \in Places,
         NEW write \in {"live", "deleted"}, Become(o, kind, place, write)
  PROVE  /\ op' \in [Workers -> Operations]
         /\ \A w \in Workers : w # o => op'[w] = op[w]
         /\ op'[o].at = place
         /\ place \in Rests => op'[o] = Resting(place)
         /\ place \notin Rests =>
              op'[o].kind = kind /\ op'[o].write = write /\ op'[o].s = op[o].s
         /\ turn' = IF ~redis /\ place \in {"scan", "pick"} \cup Stores THEN o ELSE Nobody
<1>1. op \in [Workers -> Operations]
  BY DEF TypeOK, Operations
<1>2. op' = [op EXCEPT ![o] = IF place \in Rests THEN Resting(place)
                              ELSE [@ EXCEPT !.kind = kind, !.at = place, !.write = write]]
  BY DEF Become
<1>3. Resting(place) \in Operations
  BY DEF Resting, Operations, Kinds
<1>4. CASE place \in Rests
  <2>1. op' = [op EXCEPT ![o] = Resting(place)]
    BY <1>2, <1>4
  <2> QED
    BY <1>1, <1>3, <1>4, <2>1 DEF Become, Resting
<1>5. CASE place \notin Rests
  <2> DEFINE new == [op[o] EXCEPT !.kind = kind, !.at = place, !.write = write]
  <2>1. op' = [op EXCEPT ![o] = new]
    BY <1>2, <1>5
  <2>2. /\ new \in Operations /\ new.at = place /\ new.kind = kind /\ new.write = write
        /\ new.s = op[o].s
    BY <1>1 DEF Operations
  <2> HIDE DEF new
  <2> QED
    BY <1>1, <1>5, <2>1, <2>2 DEF Become
<1> QED
  BY <1>4, <1>5

\* Goto keeps what o does.
LEMMA GotoEffect ==
  ASSUME TypeOK, NEW o \in Workers, NEW place \in Places, Goto(o, place)
  PROVE  /\ op' \in [Workers -> Operations]
         /\ \A w \in Workers : w # o => op'[w] = op[w]
         /\ op'[o].at = place
         /\ place \in Rests => op'[o] = Resting(place)
         /\ place \notin Rests =>
              op'[o].kind = op[o].kind /\ op'[o].write = op[o].write /\ op'[o].s = op[o].s
         /\ turn' = IF ~redis /\ place \in {"scan", "pick"} \cup Stores THEN o ELSE Nobody
<1>1. op[o].kind \in Kinds /\ op[o].write \in {"live", "deleted"}
  BY DEF TypeOK
<1> QED
  BY <1>1, BecomeEffect DEF Goto

\* The part of TypeOK about operations and the turn.
OpsTyped ==
  /\ op \in [Workers -> Operations]
  /\ turn \in Workers \cup {Nobody}
  /\ redis => turn = Nobody
  /\ up = "starting" => \A r \in Requests : op[r].at \in Rests
  /\ \A o \in Workers : op[o].at \in {"call"} \cup Stores => op[o].s \in Sessions

\* A step of one operation keeps it, when the place it goes to is one it may be at.
LEMMA MoveTyped ==
  ASSUME TypeOK, NEW o \in Workers, redis' = redis, up' \in {up, "serving"},
         op' \in [Workers -> Operations], turn' \in {o, Nobody}, redis => turn' = Nobody,
         \A w \in Workers : w # o => op'[w] = op[w],
         op'[o].at \in {"call"} \cup Stores => op'[o].s \in Sessions,
         o = Reaper \/ up = "serving" \/ op'[o].at \in Rests
  PROVE  OpsTyped'
<1>1. up' = "starting" => \A r \in Requests : op'[r].at \in Rests
  BY LifecycleAssumption DEF TypeOK, Workers
<1>2. \A w \in Workers : op'[w].at \in {"call"} \cup Stores => op'[w].s \in Sessions
  BY DEF TypeOK
<1> QED
  BY <1>1, <1>2 DEF OpsTyped, TypeOK

\* Only the reconciliation runs before the backend serves.
LEMMA ServingWhen ==
  ASSUME TypeOK, NEW o \in Workers, op[o].at \notin Rests
  PROVE  o = Reaper \/ up = "serving"
BY DEF TypeOK, Workers

\* Well-formedness: the steps of the stores.
LEMMA StoreTyped == ASSUME TypeOK, NEW o \in Workers, StoreStep(o) PROVE TypeOK'
<1> USE LifecycleAssumption DEF process, sweep, stores
<1>0. /\ op[o] \in Operations /\ op[o].at \in Stores /\ op[o].s \in Sessions
      /\ o = Reaper \/ up = "serving"
  BY ServingWhen DEF StoreStep, ReadRecord, Hset, Sadd, StoreRow, TypeOK, At, Stores, Rests,
     Operations
<1>1. UNCHANGED << redis, up, restarts, container, late, scan, todo, strays, faults >>
  BY DEF StoreStep, ReadRecord, Hset, Sadd, StoreRow
<1>2. PICK kind \in Kinds, place \in Places, write \in {"live", "deleted"} :
        Become(o, kind, place, write)
  BY <1>0 DEF StoreStep, ReadRecord, Hset, Sadd, StoreRow, AfterTouch, Goto, Operations,
     Kinds, Places, Stores, Rests
<1>3. /\ op' \in [Workers -> Operations]
      /\ \A w \in Workers : w # o => op'[w] = op[w]
      /\ op'[o].at = place
      /\ place \notin Rests => op'[o].s = op[o].s
      /\ turn' \in {o, Nobody}
      /\ redis => turn' = Nobody
  BY <1>2, BecomeEffect
<1>4. OpsTyped'
  BY <1>0, <1>1, <1>3, MoveTyped DEF Rests, Stores
<1>5. record' \in [BOOLEAN -> [Sessions -> RecordStates]]
  <2>1. CASE Hset(o)
    BY <1>0, <2>1 DEF Hset, TypeOK, Operations, RecordStates
  <2> QED
    BY <2>1 DEF StoreStep, ReadRecord, Sadd, StoreRow, TypeOK
<1>6. listed' \in [BOOLEAN -> SUBSET Sessions]
  BY <1>0 DEF StoreStep, ReadRecord, Hset, Sadd, StoreRow, TypeOK
<1>7. row' \in [Sessions -> RecordStates \ {"idle"}] /\ unsaved' \in SUBSET Sessions
  BY <1>0 DEF StoreStep, ReadRecord, Hset, Sadd, StoreRow, TypeOK, Operations, RecordStates
<1> QED
  BY <1>1, <1>4, <1>5, <1>6, <1>7 DEF TypeOK, OpsTyped, Operations

\* Well-formedness: the calls to the controller and their failures.
LEMMA CallTyped ==
  ASSUME TypeOK, NEW o \in Workers, Served(o) \/ CallFailed(o) \/ StoreFailed(o)
  PROVE  TypeOK'
<1> USE LifecycleAssumption DEF process, sweep, stores
<1>0. /\ op[o] \in Operations /\ op[o].at \in {"call", "read", "hset", "sadd"}
      /\ op[o].s \in Sessions
      /\ o = Reaper \/ up = "serving"
  BY ServingWhen DEF Served, CallFailed, StoreFailed, TypeOK, At, Stores, Rests, Operations
<1>1. /\ UNCHANGED << redis, restarts, stores, scan >>
      /\ up' \in {up, "serving"}
  BY DEF Served, CallFailed, StoreFailed
<1>2. PICK kind \in Kinds, place \in Places, write \in {"live", "deleted"} :
        Become(o, kind, place, write)
  BY <1>0 DEF Served, Created, Inspected, Removed, CallFailed, StoreFailed, AfterTouch, Goto,
     Operations, Kinds, Places, Stores, Rests
<1>3. /\ op' \in [Workers -> Operations]
      /\ \A w \in Workers : w # o => op'[w] = op[w]
      /\ op'[o].at = place
      /\ place \notin Rests => op'[o].s = op[o].s
      /\ turn' \in {o, Nobody}
      /\ redis => turn' = Nobody
  BY <1>2, BecomeEffect
<1>4. OpsTyped'
  <2>1. op'[o].at \in {"call"} \cup Stores => op'[o].s \in Sessions
    BY <1>0, <1>3 DEF Rests, Stores
  <2> QED
    BY <1>0, <1>1, <1>3, <2>1, MoveTyped
<1>5. container' \in SUBSET Sessions
  <2>1. container' \in {container, container \cup {op[o].s}, container \ {op[o].s}}
    BY DEF Served, Created, Inspected, Removed, CallFailed, StoreFailed
  <2> QED
    BY <1>0, <2>1 DEF TypeOK
<1>6. strays' \in SUBSET Sessions
  <2>1. strays \in SUBSET Sessions /\ todo \in SUBSET Sessions
    BY DEF TypeOK
  <2>2. CASE Served(o)
    BY <1>0, <2>1, <2>2 DEF Served, Created, Inspected, Removed
  <2>3. CASE CallFailed(o)
    BY <1>0, <2>1, <2>3 DEF CallFailed, Fault
  <2>4. CASE StoreFailed(o)
    BY <1>0, <2>1, <2>4 DEF StoreFailed, Fault
  <2> QED
    BY <2>2, <2>3, <2>4
<1>7. late' \in SUBSET [kind : Kinds, s : Sessions]
  <2>1. late \in SUBSET [kind : Kinds, s : Sessions] /\ Call(o) \in [kind : Kinds, s : Sessions]
    BY <1>0 DEF TypeOK, Call, Operations
  <2>2. CASE CallFailed(o)
    <3>1. \E some \in SUBSET {Call(o)} : late' = late \cup some
      BY <2>2 DEF CallFailed, MaybeLate
    <3> QED
      BY <2>1, <3>1
  <2> QED
    BY <2>1, <2>2 DEF Served, StoreFailed
<1>8. todo' \in SUBSET Sessions /\ faults' \in Nat
  BY DEF Served, CallFailed, StoreFailed, Fault, TypeOK
<1>9. up' \in {"starting", "serving"}
  BY <1>1 DEF TypeOK
<1> QED
  BY <1>1, <1>4, <1>5, <1>6, <1>7, <1>8, <1>9 DEF TypeOK, OpsTyped, Operations

\* Well-formedness: a SQLite statement fails.
LEMMA SQLiteTyped == ASSUME TypeOK, NEW o \in Workers, SQLiteFailed(o) PROVE TypeOK'
<1> USE LifecycleAssumption DEF process, sweep
<1>0. /\ op[o].s \in Sessions
      /\ o = Reaper \/ up = "serving"
  BY ServingWhen DEF SQLiteFailed, TypeOK, At, Stores, Rests
<1>1. /\ UNCHANGED << redis, up, restarts, container, record, listed, row, late, scan, todo >>
      /\ strays' \in {strays, strays \cup {op[o].s}}
      /\ unsaved' \in {unsaved, unsaved \cup {op[o].s}}
      /\ faults' = faults + 1
  BY DEF SQLiteFailed, Fault
<1>2. PICK place \in {"idle", "done"} : Goto(o, place)
  BY DEF SQLiteFailed
<1>3. /\ op' \in [Workers -> Operations] /\ \A w \in Workers : w # o => op'[w] = op[w]
      /\ op'[o].at \in Rests /\ turn' = Nobody
  BY <1>2, GotoEffect DEF Places, Rests, Stores
<1>4. OpsTyped'
  BY <1>1, <1>3, MoveTyped DEF TypeOK, Rests, Stores
<1>5. strays' \in SUBSET Sessions /\ unsaved' \in SUBSET Sessions /\ faults' \in Nat
  BY <1>0, <1>1 DEF TypeOK
<1> QED
  BY <1>1, <1>4, <1>5 DEF TypeOK, OpsTyped, Operations

\* The reaper asks for the deletion of a session of its list.
LEMMA CallForEffect ==
  ASSUME TypeOK, NEW s \in Sessions, CallFor(s)
  PROVE  /\ op' \in [Workers -> Operations]
         /\ \A w \in Workers : w # Reaper => op'[w] = op[w]
         /\ op'[Reaper].at = "call" /\ op'[Reaper].s = s
         /\ op'[Reaper].kind = op[Reaper].kind /\ op'[Reaper].write = op[Reaper].write
         /\ turn' = Nobody
BY DEF TypeOK, CallFor, Operations, Workers, Places

\* What the steps of the reaper do to it.
LEMMA ReaperMoves ==
  ASSUME TypeOK, ListSessions \/ PickExpired \/ PickOrphan \/ Reconciled
  PROVE  /\ UNCHANGED << redis, restarts, container, record, listed, row, unsaved, late >>
         /\ up' \in {up, "serving"}
         /\ op' \in [Workers -> Operations]
         /\ \A w \in Workers : w # Reaper => op'[w] = op[w]
         /\ turn' \in {Reaper, Nobody} /\ (redis => turn' = Nobody)
         /\ op'[Reaper].at \in {"scan", "pick", "idle", "call"}
         /\ op'[Reaper].at = "call" => op'[Reaper].s \in todo
<1> USE LifecycleAssumption DEF process, sweep, stores
<1>1. CASE ListSessions
  BY <1>1, BecomeEffect DEF ListSessions, Workers, Kinds, Places, Rests
<1>2. CASE PickExpired \/ PickOrphan
  <2>1. CASE Goto(Reaper, "idle")
    <3>1. /\ op' \in [Workers -> Operations]
          /\ \A w \in Workers : w # Reaper => op'[w] = op[w]
          /\ op'[Reaper].at = "idle" /\ turn' = Nobody
      BY <2>1, GotoEffect DEF Workers, Places, Rests, Stores
    <3> QED
      BY <1>2, <3>1 DEF PickExpired, PickOrphan
  <2>2. CASE \E s \in todo : CallFor(s)
    BY <1>2, <2>2, CallForEffect DEF PickExpired, PickOrphan, TypeOK
  <2> QED
    BY <1>2, <2>1, <2>2 DEF PickExpired, PickOrphan
<1>3. CASE Reconciled
  <2>1. CASE Goto(Reaper, "idle")
    BY <1>3, <2>1, GotoEffect DEF Reconciled, Reconcile, Workers, Places, Rests
  <2>2. CASE Become(Reaper, "orphan", "pick", "deleted")
    BY <1>3, <2>2, BecomeEffect, ZenonT(60) DEF Reconciled, Reconcile, Workers, Places, Rests, Kinds, Fault, Resting
  <2> QED
    BY <1>3, <2>1, <2>2 DEF Reconciled, Reconcile
<1> QED
  BY <1>1, <1>2, <1>3

\* Well-formedness: the steps of the reaper.
LEMMA ReaperTyped == ASSUME TypeOK, ReaperStep PROVE TypeOK'
<1> USE LifecycleAssumption DEF process, sweep, stores
<1>1. CASE LookAt
  BY <1>1 DEF LookAt, TypeOK, Operations
<1>2. CASE ~LookAt
  <2>1. ListSessions \/ PickExpired \/ PickOrphan \/ Reconciled
    BY <1>2 DEF ReaperStep
  <2>2. OpsTyped'
    BY <2>1, ReaperMoves, MoveTyped DEF TypeOK, Workers, Stores
  <2>3. scan' \in SUBSET Sessions /\ todo' \in SUBSET Sessions
    BY <2>1 DEF ListSessions, PickExpired, PickOrphan, Reconciled, Reconcile, TypeOK
  <2>4. strays' \in SUBSET Sessions /\ faults' \in Nat
    BY <2>1 DEF ListSessions, PickExpired, PickOrphan, Reconciled, Reconcile, Fault, TypeOK
  <2>5. up' \in {"starting", "serving"}
    BY <2>1, ReaperMoves DEF TypeOK
  <2> QED
    BY <2>1, <2>2, <2>3, <2>4, <2>5, ReaperMoves DEF TypeOK, OpsTyped, Operations
<1> QED
  BY <1>1, <1>2

\* Well-formedness: requests, late calls, deadlines and restarts.
LEMMA OutsideTyped ==
  ASSUME TypeOK,
         \/ \E r \in Requests : Start(r)
         \/ ServedLate
         \/ \E s \in Sessions : DeadlinePasses(s)
         \/ Restart
  PROVE  TypeOK'
<1> USE LifecycleAssumption DEF process, sweep, stores
<1>1. ASSUME NEW r \in Requests, Start(r) PROVE TypeOK'
  <2>1. PICK s \in Sessions, kind \in {"create", "get", "interrupt", "touch"} :
          op' = [op EXCEPT ![r] = [kind |-> kind, s |-> s, write |-> "live",
                                   at |-> IF kind \in {"create", "get"} THEN "call" ELSE "read"]]
    BY <1>1 DEF Start
  <2>2. /\ op' \in [Workers -> Operations] /\ op'[r].s \in Sessions
        /\ \A w \in Workers : w # r => op'[w] = op[w]
    BY <2>1 DEF TypeOK, Operations, Workers, Kinds, Places, Stores
  <2>3. OpsTyped'
    BY <1>1, <2>2, MoveTyped DEF Start, TypeOK, Workers
  <2> QED
    BY <1>1, <2>3 DEF Start, TypeOK, OpsTyped, Operations
<1>2. CASE ServedLate
  <2>1. PICK c \in late : late' = late \ {c} /\ container' \in SUBSET (container \cup {c.s})
                          /\ strays' \in SUBSET (strays \cup {c.s})
    BY <1>2 DEF ServedLate
  <2>2. c.s \in Sessions
    BY <2>1 DEF TypeOK
  <2> QED
    BY <1>2, <2>1, <2>2 DEF ServedLate, TypeOK
<1>3. ASSUME NEW s \in Sessions, DeadlinePasses(s) PROVE TypeOK'
  BY <1>3 DEF DeadlinePasses, TypeOK, RecordStates
<1>4. CASE Restart
  <2>1. op' = [o \in Workers |-> Resting(IF o = Reaper THEN "boot"
                                         ELSE IF At(o, "new") THEN "new" ELSE "done")]
    BY <1>4 DEF Restart
  <2>2. \A o \in Workers : op'[o].at \in Rests /\ op'[o] \in Operations
    BY <2>1 DEF Resting, Rests, Operations, Kinds, Places
  <2>3. op' \in [Workers -> Operations]
    BY <2>1, <2>2
  <2>4. OpsTyped'
    BY <1>4, <2>2, <2>3 DEF Restart, OpsTyped, Workers, Rests, Stores
  <2>5. record' \in [BOOLEAN -> [Sessions -> RecordStates]]
    BY <1>4 DEF Restart, TypeOK, RecordStates
  <2>6. listed' \in [BOOLEAN -> SUBSET Sessions]
    BY <1>4 DEF Restart, TypeOK
  <2>7. late' \in SUBSET [kind : Kinds, s : Sessions]
    <3>1. { Call(o) : o \in { w \in Workers : At(w, "call") } } \subseteq [kind : Kinds, s : Sessions]
      BY DEF TypeOK, Call, At
    <3>2. PICK some \in SUBSET { Call(o) : o \in { w \in Workers : At(w, "call") } } :
            late' = late \cup some
      BY <1>4 DEF Restart, MaybeLate
    <3> QED
      BY <3>1, <3>2 DEF TypeOK
  <2>8. /\ redis' \in BOOLEAN /\ up' = "starting" /\ container' = container /\ row' = row
        /\ unsaved' = unsaved
        /\ scan' = {} /\ todo' = {} /\ strays' = {} /\ faults' = faults
        /\ restarts' = restarts + 1
    BY <1>4 DEF Restart
  <2> QED
    BY <2>4, <2>5, <2>6, <2>7, <2>8 DEF TypeOK, OpsTyped, Operations
<1> QED
  BY <1>1, <1>2, <1>3, <1>4

\* Every step keeps the state well-formed.
LEMMA TypeStep == TypeOK /\ Next => TypeOK'
BY StoreTyped, CallTyped, SQLiteTyped, ReaperTyped, OutsideTyped DEF Next

----------------------------------------------------------------------------
\* The start-up: the reconciliation looks at every container and deletes none that
\* has an active record.
LEMMA ReconcilingStep == IInv /\ Next => Reconciling'
<1> SUFFICES ASSUME IInv, Next, up' = "starting" PROVE Reconciling'
  BY DEF Reconciling
<1> USE LifecycleAssumption DEF process, sweep, stores, At
<1>0. TypeOK
  BY DEF IInv
<1>1. CASE Restart
  <2>1. op'[Reaper] = Resting("boot") /\ turn' = Nobody /\ restarts' = restarts + 1
    BY <1>1 DEF Restart, Workers
  <2>2. restarts' # 0
    BY <1>0, <2>1 DEF TypeOK
  <2> QED
    BY <2>1, <2>2 DEF Reconciling, Resting
<1>2. ASSUME ~Restart
      PROVE  /\ up = "starting" /\ turn = Nobody /\ UNCHANGED << redis, restarts >>
             /\ op[Reaper].at \in {"boot", "pick", "call"}
             /\ op[Reaper].at # "boot" => redis /\ op[Reaper].kind = "orphan"
             /\ restarts = 0 => container = {} /\ late = {}
             /\ \A r \in Requests : op[r].at \in Rests
             /\ ~\E r \in Requests : Start(r)
  BY <1>0, <1>2 DEF IInv, TypeOK, Reconciling, Next, Start, StoreStep, ReadRecord, Hset, Sadd, StoreRow,
     Served, CallFailed, StoreFailed, SQLiteFailed, ServedLate, DeadlinePasses, ReaperStep,
     ListSessions, LookAt, PickExpired, Reconciled, Reconcile, PickOrphan
<1>3. CASE ~Restart
  <2>1. CASE \E o \in Workers : StoreStep(o) \/ StoreFailed(o) \/ SQLiteFailed(o)
    BY <1>2, <1>3, <2>1 DEF StoreStep, ReadRecord, Hset, Sadd, StoreRow, StoreFailed,
       SQLiteFailed, Workers, Rests, Stores
  <2>2. ASSUME NEW o \in Workers, Served(o) \/ CallFailed(o) PROVE Reconciling'
    <3>1. o = Reaper /\ op[o].at = "call" /\ op[o].kind = "orphan" /\ redis
      BY <1>2, <1>3, <2>2 DEF Served, CallFailed, Workers, Rests
    <3>2. PICK s : op[o].s = s
      OBVIOUS
    <3>3. Removed(o) /\ UNCHANGED << redis, restarts, up, record, listed, todo, late >>
      BY <1>2, <2>2, <3>1 DEF Served, CallFailed, Created, Inspected
    <3>4. Goto(o, "pick") /\ container' = container \ {s} /\ strays' = strays
      BY <3>1, <3>2, <3>3 DEF Removed
    <3>5. op'[o].at = "pick" /\ op'[o].kind = "orphan" /\ turn' = Nobody
      BY <1>0, <3>1, <3>4, GotoEffect DEF Places, Rests
    <3> QED
      BY <1>2, <1>3, <3>1, <3>2, <3>3, <3>4, <3>5 DEF IInv, Reconciling, Active
  <2>3. CASE ServedLate
    <3>1. late # {} /\ container' \ strays' \subseteq container \ strays
      BY <2>3 DEF ServedLate
    <3> QED
      BY <1>2, <1>3, <2>3, <3>1 DEF ServedLate, IInv, Reconciling, Active
  <2>4. ASSUME NEW s \in Sessions, DeadlinePasses(s) PROVE Reconciling'
    <3>1. \A t \in Sessions : Active(t)' <=> Active(t)
      BY <1>0, <2>4 DEF DeadlinePasses, Active, TypeOK
    <3>2. /\ todo \subseteq Sessions /\ container \subseteq Sessions
          /\ At(Reaper, "call") => op[Reaper].s \in Sessions
      BY <1>0 DEF TypeOK, Workers
    <3> QED
      BY <1>2, <1>3, <2>4, <3>1, <3>2 DEF DeadlinePasses, IInv, Reconciling
  <2>5. CASE ReaperStep
    <3>1. PickOrphan \/ Reconciled
      BY <1>2, <1>3, <2>5 DEF ReaperStep, ListSessions, LookAt, PickExpired
    <3>2. UNCHANGED << redis, restarts, container, record, listed, late >>
      BY <3>1 DEF PickOrphan, Reconciled
    <3>3. CASE Reconciled
      <4>1. /\ redis /\ Become(Reaper, "orphan", "pick", "deleted") /\ strays' = strays
            /\ todo' = { s \in container : ~Active(s) }
        BY <1>2, <1>3, <3>3 DEF Reconciled, Reconcile
      <4>2. op'[Reaper].at = "pick" /\ op'[Reaper].kind = "orphan" /\ turn' = Nobody
        BY <1>0, <4>1, BecomeEffect DEF Workers, Kinds, Places, Rests
      <4> QED
        BY <1>2, <1>3, <3>2, <4>1, <4>2 DEF Reconciling, Active
    <3>4. CASE PickOrphan
      <4>1. PICK s \in todo : CallFor(s) /\ todo' = todo \ {s} /\ strays' = strays
        BY <1>2, <1>3, <3>4 DEF PickOrphan
      <4>2. /\ op'[Reaper].at = "call" /\ op'[Reaper].s = s /\ turn' = Nobody
            /\ op'[Reaper].kind = op[Reaper].kind /\ op[Reaper].kind = "orphan" /\ redis
            /\ op[Reaper].at = "pick"
        BY <1>0, <1>2, <1>3, <3>4, <4>1, CallForEffect DEF PickOrphan, TypeOK
      <4> QED
        BY <1>2, <1>3, <3>2, <4>1, <4>2 DEF IInv, Reconciling, Active
    <3> QED
      BY <3>1, <3>3, <3>4
  <2> QED
    BY <1>2, <1>3, <2>1, <2>2, <2>3, <2>4, <2>5 DEF Next
<1> QED
  BY <1>1, <1>3

\* The reaper leaves "boot" for good, until the next start.
LEMMA BootingStep == IInv /\ Next => Booting'
<1> SUFFICES ASSUME IInv, Next, op'[Reaper].at = "boot" PROVE up' = "starting"
  BY DEF Booting, At
<1> USE LifecycleAssumption DEF process, sweep, stores, At
<1>0. TypeOK /\ Reaper \in Workers
  BY DEF IInv, Workers
<1>1. CASE Restart
  BY <1>1 DEF Restart
<1>2. ASSUME NEW o \in Workers,
             \/ StoreStep(o) \/ Served(o)
             \/ CallFailed(o) \/ StoreFailed(o) \/ SQLiteFailed(o)
      PROVE  FALSE
  <2>1. op[o].at \in {"call"} \cup Stores
    BY <1>2 DEF StoreStep, ReadRecord, Hset, Sadd, StoreRow, Served, CallFailed,
       StoreFailed, SQLiteFailed, Stores
  <2>2. o = Reaper \/ up = "serving"
    BY <1>0, <2>1, ServingWhen DEF Rests, Stores
  <2>3. PICK kind \in Kinds, place \in Places \ {"boot"}, write \in {"live", "deleted"} :
          Become(o, kind, place, write)
    BY <1>0, <1>2 DEF StoreStep, ReadRecord, Hset, Sadd, StoreRow, Served, CallFailed,
       StoreFailed, SQLiteFailed, AfterTouch, Goto, Created, Inspected, Removed, TypeOK, Kinds,
       Places, Stores, Rests
  <2>4. op'[o].at # "boot" /\ \A w \in Workers : w # o => op'[w] = op[w]
    BY <1>0, <2>3, BecomeEffect
  <2> QED
    BY <1>0, <2>2, <2>4 DEF IInv, Booting
<1>3. CASE \E r \in Requests : Start(r)
  BY <1>0, <1>3 DEF Start, IInv, Booting, TypeOK, Workers
<1>4. CASE ServedLate \/ (\E s \in Sessions : DeadlinePasses(s)) \/ LookAt
  BY <1>4 DEF ServedLate, DeadlinePasses, LookAt, IInv, Booting
<1>5. CASE ListSessions \/ PickExpired \/ PickOrphan \/ Reconciled
  BY <1>0, <1>5, ReaperMoves
<1> QED
  BY <1>1, <1>2, <1>3, <1>4, <1>5 DEF Next, ReaperStep

----------------------------------------------------------------------------
\* The rest of the invariant, once the part about the start-up is
\* known to hold.
StoresInv == UnmarkedGone /\ Covered /\ TurnHeld /\ TouchesLive /\ MidStores /\ StoresAgree

\* Without Redis nobody else is between two places that do not suspend.
LEMMA Alone ==
  ASSUME IInv, NEW o \in Workers, MayRun(o) \/ turn = Nobody
  PROVE  ~redis => \A w \in Workers :
                     w # o => op[w].at \notin {"scan", "pick", "hset", "sadd", "row"}
BY LifecycleAssumption DEF IInv, TurnHeld, MayRun

\* Where an operation may go without Redis when it changes no store.
Orderly(o) ==
  /\ op[o].kind # "orphan"
  /\ op[o].at \notin {"sadd", "row"}
  /\ op[o].at \in {"scan", "pick", "hset"} => turn = o
  /\ Touching(o) /\ At(o, "hset") /\ restarts = 0 => Kept(op[o].s)

\* The part of it that is not about containers.
HandlersInv == TurnHeld /\ TouchesLive /\ MidStores /\ StoresAgree

\* A step of one operation that changes no store.
LEMMA MoveOrders ==
  ASSUME IInv, NEW o \in Workers, MayRun(o) \/ turn = Nobody,
         UNCHANGED << redis, restarts, record, listed, row, unsaved >>,
         op' \in [Workers -> Operations],
         \A w \in Workers : w # o => op'[w] = op[w],
         Proper(o)',
         ~redis => op[o].at \notin {"sadd", "row"} /\ Orderly(o)'
  PROVE  HandlersInv'
<1> USE LifecycleAssumption DEF At
<1>1. ~redis => \A w \in Workers :
                  w # o => op[w].at \notin {"scan", "pick", "hset", "sadd", "row"}
  BY Alone
<1>2. TurnHeld'
  BY <1>1 DEF IInv, TurnHeld, Orderly
<1>3. TouchesLive'
  BY DEF IInv, TouchesLive, Proper, Touching
<1>4. MidStores'
  BY <1>1 DEF IInv, MidStores, Orderly, Touching, Kept
<1>5. StoresAgree'
  BY <1>1 DEF IInv, StoresAgree, Agree, Orderly, Touching, Kept
<1> QED
  BY <1>2, <1>3, <1>4, <1>5 DEF HandlersInv

\* A step of one operation that changes neither stores nor containers.
LEMMA MoveKeeps ==
  ASSUME IInv, NEW o \in Workers, MayRun(o) \/ turn = Nobody,
         UNCHANGED << redis, restarts, container, record, listed, row, unsaved >>,
         strays \subseteq strays',
         op' \in [Workers -> Operations],
         \A w \in Workers : w # o => op'[w] = op[w],
         up = "serving" \/ up' = "starting"
           \/ \A s \in container \ strays' : redis \/ restarts = 0 => Active(s),
         op[o].kind = "create" /\ op[o].at \in {"hset", "sadd"} => op[o].s \in strays',
         op'[o].at = "hset" /\ op'[o].write = "deleted" => op'[o].s \notin container \ strays',
         Proper(o)',
         ~redis => op[o].at \notin {"sadd", "row"} /\ Orderly(o)'
  PROVE  StoresInv'
<1> USE LifecycleAssumption DEF At
<1>1. UnmarkedGone'
  BY DEF IInv, UnmarkedGone
<1>2. Covered'
  <2> SUFFICES ASSUME up' = "serving", redis \/ restarts = 0, NEW s \in container \ strays'
               PROVE  Active(s)' \/ Creating(s)'
    BY DEF Covered
  <2>1. Active(s)' <=> Active(s)
    BY DEF Active
  <2>2. Active(s) \/ Creating(s)
    BY DEF IInv, TypeOK, Covered
  <2>3. CASE Creating(s)
    <3>1. PICK w \in Workers : op[w].s = s /\ op[w].kind = "create" /\
            (At(w, "hset") \/ (At(w, "sadd") /\ record[redis][s] \in {"live", "idle"}))
      BY <2>3 DEF Creating
    <3>2. w # o
      BY <3>1
    <3> QED
      BY <3>1, <3>2 DEF Creating
  <2> QED
    BY <2>1, <2>2, <2>3
<1>3. HandlersInv'
  BY MoveOrders
<1> QED
  BY <1>1, <1>2, <1>3 DEF StoresInv, HandlersInv

\* Requests arrive.
LEMMA StartKeeps == ASSUME IInv, NEW r \in Requests, Start(r) PROVE StoresInv'
<1> USE LifecycleAssumption DEF process, sweep, stores, At
<1>1. PICK s \in Sessions, kind \in {"create", "get", "interrupt", "touch"} :
        op' = [op EXCEPT ![r] = [kind |-> kind, s |-> s, write |-> "live",
                                 at |-> IF kind \in {"create", "get"} THEN "call" ELSE "read"]]
  BY DEF Start
<1>2. /\ op' \in [Workers -> Operations]
      /\ \A w \in Workers : w # r => op'[w] = op[w]
      /\ op'[r].kind = kind /\ op'[r].write = "live"
      /\ op'[r].at = IF kind \in {"create", "get"} THEN "call" ELSE "read"
  BY <1>1 DEF IInv, TypeOK, Operations, Workers, Kinds, Places, Stores
<1>3. op[r].at = "new" /\ up = "serving" /\ turn = Nobody
      /\ UNCHANGED << redis, restarts, container, record, listed, row, unsaved, strays >>
  BY DEF Start
<1>4. Orderly(r)' /\ Proper(r)'
  BY <1>2 DEF Orderly, Proper, Touching, Stores
<1> QED
  BY <1>2, <1>3, <1>4, MoveKeeps DEF Workers

\* touch() reads the record.
LEMMA ReadKeeps == ASSUME IInv, NEW o \in Workers, ReadRecord(o) PROVE StoresInv'
<1> USE LifecycleAssumption DEF process, sweep, stores, At
<1>0. TypeOK
  BY DEF IInv
<1>1. /\ op[o].at = "read" /\ MayRun(o) /\ op[o].s \in Sessions
      /\ UNCHANGED << redis, restarts, container, record, listed, row, unsaved, strays >>
  BY <1>0 DEF ReadRecord, TypeOK, Stores
<1>2. up = "serving"
  BY <1>1 DEF IInv, TypeOK, Reconciling, Workers, Rests
<1>3. CASE Goto(o, "done")
  <2>1. /\ op' \in [Workers -> Operations] /\ \A w \in Workers : w # o => op'[w] = op[w]
        /\ op'[o] = Resting("done")
    BY <1>0, <1>3, GotoEffect DEF Places, Rests
  <2> QED
    BY <1>1, <1>2, <2>1, MoveKeeps DEF Orderly, Proper, Touching, Stores, Resting
<1>4. CASE Become(o, "delete", "call", "deleted")
  <2>1. /\ op' \in [Workers -> Operations] /\ \A w \in Workers : w # o => op'[w] = op[w]
        /\ op'[o].at = "call" /\ op'[o].kind = "delete"
    BY <1>0, <1>4, BecomeEffect DEF Places, Rests, Kinds
  <2> QED
    BY <1>1, <1>2, <2>1, MoveKeeps DEF Orderly, Proper, Touching, Stores
<1>5. CASE Goto(o, "hset") /\ record[redis][op[o].s] \notin {"none", "deleted"}
  <2>1. /\ op' \in [Workers -> Operations] /\ \A w \in Workers : w # o => op'[w] = op[w]
        /\ op'[o].at = "hset" /\ op'[o].kind = op[o].kind /\ op'[o].write = op[o].write
        /\ op'[o].s = op[o].s
        /\ ~redis => turn' = o
    BY <1>0, <1>5, GotoEffect DEF Places, Rests, Stores
  <2>2. record[redis][op[o].s] \in {"live", "idle"}
    BY <1>0, <1>1, <1>5 DEF TypeOK, RecordStates
  <2>3. ~redis => Orderly(o)'
    BY <1>0, <1>1, <2>1, <2>2 DEF IInv, TypeOK, TurnHeld, Orderly, Touching, Kept
  <2>4. Touching(o) /\ op[o].write = "live"
    BY <1>1 DEF IInv, TouchesLive, Proper, Stores
  <2>5. Proper(o)'
    BY <2>1, <2>4 DEF Proper, Touching
  <2> QED
    BY <1>1, <1>2, <2>1, <2>3, <2>4, <2>5, MoveKeeps
<1> QED
  BY <1>3, <1>4, <1>5 DEF ReadRecord, AfterTouch

\* The controller's answer to an inspection, and failed calls.
LEMMA InspectionKeeps == ASSUME IInv, NEW o \in Workers, Served(o), Inspected(o) PROVE StoresInv'
<1> USE LifecycleAssumption DEF process, sweep, stores, At
<1>0. TypeOK
  BY DEF IInv
<1>1. /\ op[o].at = "call" /\ turn = Nobody /\ op[o].s \in Sessions /\ op[o].kind = "get"
      /\ UNCHANGED << redis, restarts, container, record, listed, row, unsaved, strays >>
  BY <1>0 DEF Served, Inspected, TypeOK
<1>2. up = "serving"
  BY <1>1 DEF IInv, TypeOK, Reconciling, Workers, Rests
<1>3. /\ op' \in [Workers -> Operations] /\ \A w \in Workers : w # o => op'[w] = op[w]
      /\ op'[o].at = "hset" /\ op'[o].kind = "get" /\ op'[o].s = op[o].s
      /\ op'[o].write = IF op[o].s \in container THEN "live" ELSE "deleted"
      /\ ~redis => turn' = o
  BY <1>0, BecomeEffect DEF Inspected, Places, Rests, Kinds, Stores
<1> QED
  BY <1>1, <1>2, <1>3, MoveKeeps DEF Orderly, Proper, Touching, Stores

\* A failed call: the reaper marks the record all the same, the reconciliation ends.
LEMMA CallFailedKeeps == ASSUME IInv, NEW o \in Workers, CallFailed(o) PROVE StoresInv'
<1> USE LifecycleAssumption DEF process, sweep, stores, At
<1>0. TypeOK
  BY DEF IInv
<1>1. /\ op[o].at = "call" /\ turn = Nobody /\ op[o].s \in Sessions
      /\ UNCHANGED << redis, restarts, container, record, listed, row, unsaved >>
      /\ strays \subseteq strays'
  BY <1>0 DEF CallFailed, TypeOK, Fault
<1>2. CASE op[o].kind = "reap"
  <2>1. Become(o, "reap", "hset", "deleted") /\ strays' = strays \cup {op[o].s} /\ up' = up
    BY <1>2 DEF CallFailed, Fault
  <2>2. /\ op' \in [Workers -> Operations] /\ \A w \in Workers : w # o => op'[w] = op[w]
        /\ op'[o].at = "hset" /\ op'[o].kind = "reap" /\ op'[o].s = op[o].s
        /\ ~redis => turn' = o
    BY <1>0, <2>1, BecomeEffect DEF Places, Rests, Kinds, Stores
  <2>3. up = "serving" \/ up' = "starting"
    BY <1>0, <2>1 DEF TypeOK
  <2> QED
    BY <1>1, <2>1, <2>2, <2>3, MoveKeeps DEF Orderly, Proper, Touching, Stores
<1>3. CASE op[o].kind = "orphan"
  <2>1. Goto(o, "idle") /\ strays' = strays \cup {op[o].s} \cup todo
    BY <1>3 DEF CallFailed, Fault
  <2>2. /\ op' \in [Workers -> Operations] /\ \A w \in Workers : w # o => op'[w] = op[w]
        /\ op'[o] = Resting("idle")
    BY <1>0, <2>1, GotoEffect DEF Places, Rests
  <2>3. up = "starting" => \A s \in container \ strays' : Active(s)
    BY <1>1, <1>3, <2>1 DEF IInv, TypeOK, Reconciling, Workers, Rests
  <2>4. up = "serving" \/ \A s \in container \ strays' : Active(s)
    BY <1>0, <2>3 DEF TypeOK
  <2> QED
    BY <1>1, <2>2, <2>4, MoveKeeps DEF Orderly, Proper, Touching, Stores, Resting
<1>4. CASE op[o].kind \notin {"reap", "orphan"}
  <2>1. Goto(o, "done") /\ up' = up
    BY <1>4 DEF CallFailed
  <2>2. /\ op' \in [Workers -> Operations] /\ \A w \in Workers : w # o => op'[w] = op[w]
        /\ op'[o] = Resting("done")
    BY <1>0, <2>1, GotoEffect DEF Places, Rests
  <2>3. up = "serving" \/ up' = "starting"
    BY <1>0, <2>1 DEF TypeOK
  <2> QED
    BY <1>1, <2>2, <2>3, MoveKeeps DEF Orderly, Proper, Touching, Stores, Resting
<1> QED
  BY <1>2, <1>3, <1>4

\* A Redis command fails: a creation that loses its record is a stray.
LEMMA StoreFailedKeeps == ASSUME IInv, NEW o \in Workers, StoreFailed(o) PROVE StoresInv'
<1> USE LifecycleAssumption DEF process, sweep, stores, At
<1>0. TypeOK
  BY DEF IInv
<1>1. /\ redis /\ op[o].at \in {"read", "hset", "sadd"} /\ up' = up
      /\ UNCHANGED << redis, restarts, container, record, listed, row, unsaved >>
      /\ strays' = strays \cup { s \in {op[o].s} : op[o].kind = "create" }
  BY DEF StoreFailed, Fault
<1>2. /\ up = "serving" \/ up' = "starting"
      /\ op[o].kind = "create" => op[o].s \in strays'
      /\ MayRun(o) \/ turn = Nobody
      /\ strays \subseteq strays'
  BY <1>0, <1>1 DEF TypeOK, MayRun
<1>3. PICK kind \in Kinds, place \in {"done", "idle", "call"}, write \in {"live", "deleted"} :
        Become(o, kind, place, write)
  BY <1>0 DEF StoreFailed, AfterTouch, Goto, TypeOK, Kinds
<1>4. /\ op' \in [Workers -> Operations] /\ \A w \in Workers : w # o => op'[w] = op[w]
      /\ op'[o].at \in {"done", "idle", "call"}
  BY <1>0, <1>3, BecomeEffect DEF Places, Rests
<1>5. Proper(o)'
  BY <1>4 DEF Proper, Stores
<1> QED
  BY <1>1, <1>2, <1>4, <1>5, MoveKeeps

\* The reaper moves on; when the reconciliation ends, every container left is active.
LEMMA ReaperKeeps ==
  ASSUME IInv, ListSessions \/ PickExpired \/ PickOrphan \/ Reconciled
  PROVE  StoresInv'
<1> USE LifecycleAssumption DEF process, sweep, stores, At
<1>0. TypeOK /\ Reaper \in Workers
  BY DEF IInv, Workers
<1>1. /\ UNCHANGED << redis, restarts, container, record, listed, row, unsaved >>
      /\ up' \in {up, "serving"}
      /\ op' \in [Workers -> Operations]
      /\ \A w \in Workers : w # Reaper => op'[w] = op[w]
      /\ op'[Reaper].at \in {"scan", "pick", "idle", "call"}
  BY <1>0, ReaperMoves
<1>2. /\ op[Reaper].at \in {"idle", "scan", "pick", "boot"}
      /\ MayRun(Reaper) \/ turn = Nobody
      /\ strays \subseteq strays'
  <2>1. CASE ListSessions \/ PickExpired
    BY <2>1 DEF ListSessions, PickExpired
  <2>2. CASE PickOrphan
    <3>1. op[Reaper].at = "pick" /\ op[Reaper].kind = "orphan" /\ strays' = strays
      BY <2>2 DEF PickOrphan
    <3>2. redis
      BY <1>0, <3>1 DEF IInv, TurnHeld
    <3> QED
      BY <3>1, <3>2 DEF MayRun
  <2>3. CASE Reconciled
    <3>1. op[Reaper].at = "boot" /\ strays \subseteq strays'
      BY <2>3 DEF Reconciled, Reconcile, Fault
    <3>2. turn = Nobody
      BY <1>0, <3>1 DEF IInv, Booting, Reconciling
    <3> QED
      BY <3>1, <3>2
  <2> QED
    BY <2>1, <2>2, <2>3
<1>3. Proper(Reaper)'
  BY <1>1 DEF Proper, Stores
<1>4. up = "serving" \/ up' = "starting"
        \/ \A s \in container \ strays' : redis \/ restarts = 0 => Active(s)
  <2>1. CASE ListSessions \/ PickExpired
    BY <1>0, <2>1 DEF ListSessions, PickExpired, TypeOK
  <2>2. CASE PickOrphan
    <3>1. up = "starting" /\ todo = {} => \A s \in container \ strays : Active(s)
      BY <2>2 DEF IInv, Reconciling, PickOrphan
    <3> QED
      BY <1>0, <1>2, <2>2, <3>1 DEF PickOrphan, TypeOK
  <2>3. CASE Reconciled
    <3>1. up = "starting" /\ restarts = 0 => container = {}
      BY DEF IInv, Reconciling
    <3>2. strays' = strays \cup Sessions \/ up' = up \/ ~redis
      BY <2>3 DEF Reconciled, Reconcile, Fault
    <3> QED
      BY <1>0, <3>1, <3>2 DEF TypeOK
  <2> QED
    BY <2>1, <2>2, <2>3
<1>5. ~redis => Orderly(Reaper)'
  <2> SUFFICES ASSUME ~redis PROVE Orderly(Reaper)'
    OBVIOUS
  <2>1. CASE ListSessions
    BY <1>0, <1>1, <2>1, BecomeEffect DEF ListSessions, Orderly, Kinds, Places, Rests, Stores
  <2>2. CASE PickExpired \/ PickOrphan
    <3>1. op[Reaper].kind # "orphan"
      BY <1>0 DEF IInv, TurnHeld
    <3>2. CASE Goto(Reaper, "idle")
      BY <1>0, <1>1, <3>2, GotoEffect DEF Orderly, Places, Rests, Resting
    <3>3. CASE \E s \in todo : CallFor(s)
      BY <1>0, <1>1, <3>1, <3>3, CallForEffect DEF Orderly, TypeOK
    <3> QED
      BY <2>2, <3>2, <3>3 DEF PickExpired, PickOrphan
  <2>3. CASE Reconciled
    <3>1. Goto(Reaper, "idle")
      BY <2>3 DEF Reconciled, Reconcile
    <3> QED
      BY <1>0, <1>1, <3>1, GotoEffect DEF Orderly, Places, Rests, Resting
  <2> QED
    BY <2>1, <2>2, <2>3
<1> QED
  BY <1>0, <1>1, <1>2, <1>3, <1>4, <1>5, MoveKeeps

\* The reaper looks at a record: no operation changes.
LEMMA LookKeeps == ASSUME IInv, LookAt PROVE StoresInv'
<1>1. UNCHANGED << redis, up, restarts, container, record, listed, row, unsaved, op, turn, strays >>
  BY DEF LookAt, process, stores
<1>2. IInv => StoresInv
  BY DEF IInv, StoresInv
<1>3. /\ UnmarkedGone => UnmarkedGone'
      /\ TurnHeld => TurnHeld'
      /\ TouchesLive => TouchesLive'
  BY <1>1 DEF UnmarkedGone, TurnHeld, TouchesLive, At, Proper, Touching
<1>4. Covered => Covered'
  BY <1>1 DEF Covered, Active, Creating, At
<1>5. MidStores => MidStores'
  BY <1>1 DEF MidStores, At, Touching, Kept
<1>6. StoresAgree => StoresAgree'
  BY <1>1 DEF StoresAgree, Agree, Touching, Kept
<1> QED
  BY <1>2, <1>3, <1>4, <1>5, <1>6 DEF StoresInv

\* The controller creates the container: the stores of the creation follow.
LEMMA CreationKeeps == ASSUME IInv, NEW o \in Workers, Served(o), Created(o) PROVE StoresInv'
<1> USE LifecycleAssumption DEF process, sweep, stores, At
<1>0. TypeOK
  BY DEF IInv
<1>1. PICK s \in Sessions : op[o].s = s
  BY <1>0 DEF Served, TypeOK
<1>2. /\ op[o].at = "call" /\ turn = Nobody /\ op[o].kind = "create"
      /\ container' = container \cup {s} /\ strays' = strays \cup { t \in {s} : Unmarked(t) }
      /\ UNCHANGED << redis, restarts, up, record, listed, row, unsaved >>
  BY <1>1 DEF Served, Created
<1>3. /\ op' \in [Workers -> Operations] /\ \A w \in Workers : w # o => op'[w] = op[w]
      /\ op'[o].at = "hset" /\ op'[o].kind = "create" /\ op'[o].s = s /\ op'[o].write = "live"
      /\ ~redis => turn' = o
  BY <1>0, <1>1, BecomeEffect DEF Created, Places, Rests, Kinds, Stores
<1>4. up = "serving"
  BY <1>0, <1>2 DEF IInv, TypeOK, Reconciling, Workers, Rests
<1>5. HandlersInv'
  BY <1>2, <1>3, MoveOrders DEF Orderly, Proper, Touching, Stores
<1>6. UnmarkedGone'
  <2> SUFFICES ASSUME NEW w \in Workers, op'[w].at = "hset", op'[w].write = "deleted"
               PROVE  op'[w].s \notin container' \ strays'
    BY DEF UnmarkedGone
  <2>1. w # o /\ op'[w] = op[w] /\ op[w].s \notin container \ strays
    BY <1>3 DEF IInv, UnmarkedGone
  <2>2. op[w].s = s => Unmarked(s)
    BY <2>1 DEF Unmarked, Pending, Stores
  <2> QED
    BY <1>2, <2>1, <2>2
<1>7. Covered'
  <2> SUFFICES ASSUME redis \/ restarts = 0, NEW t \in container' \ strays'
               PROVE  Active(t)' \/ Creating(t)'
    BY <1>2 DEF Covered
  <2>1. CASE t = s
    BY <1>3, <2>1 DEF Creating
  <2>2. CASE t # s
    <3>1. Active(t) \/ Creating(t)
      BY <1>2, <1>4, <2>2 DEF IInv, Covered
    <3>2. CASE Creating(t)
      <4>1. PICK w \in Workers : op[w].s = t /\ op[w].kind = "create" /\
              (At(w, "hset") \/ (At(w, "sadd") /\ record[redis][t] \in {"live", "idle"}))
        BY <3>2 DEF Creating
      <4> QED
        BY <1>2, <1>3, <4>1 DEF Creating
    <3> QED
      BY <1>2, <3>1, <3>2 DEF Active
  <2> QED
    BY <2>1, <2>2
<1> QED
  BY <1>5, <1>6, <1>7 DEF StoresInv, HandlersInv

\* The controller removes the container before the record is marked.
LEMMA RemovalKeeps ==
  ASSUME IInv, NEW o \in Workers, Served(o), Removed(o) PROVE StoresInv'
<1> USE LifecycleAssumption DEF process, sweep, stores, At
<1>0. TypeOK
  BY DEF IInv
<1>1. PICK s \in Sessions : op[o].s = s
  BY <1>0 DEF Served, TypeOK
<1>2. /\ op[o].at = "call" /\ turn = Nobody /\ op[o].kind \in {"delete", "reap", "orphan"}
      /\ container' = container \ {s} /\ strays' = strays
      /\ UNCHANGED << redis, restarts, up, record, listed, row, unsaved >>
  BY <1>1 DEF Served, Removed
<1>3. /\ op' \in [Workers -> Operations] /\ \A w \in Workers : w # o => op'[w] = op[w]
      /\ op'[o].kind = op[o].kind /\ op'[o].s = s
      /\ op'[o].at = IF op[o].kind = "orphan" THEN "pick" ELSE "hset"
      /\ ~redis => turn' = o
  <2>1. CASE op[o].kind = "orphan"
    BY <1>0, <1>1, <2>1, GotoEffect DEF Removed, Places, Rests, Stores
  <2>2. CASE op[o].kind # "orphan"
    BY <1>0, <1>1, <1>2, <2>2, BecomeEffect DEF Removed, Places, Rests, Kinds, Stores
  <2> QED
    BY <2>1, <2>2
<1>4. HandlersInv'
  <2>1. ~redis => Orderly(o)'
    BY <1>2, <1>3 DEF IInv, TurnHeld, Orderly, Touching
  <2>2. Proper(o)'
    BY <1>2, <1>3 DEF Proper, Touching, Stores
  <2> QED
    BY <1>2, <1>3, <2>1, <2>2, MoveOrders
<1>5. UnmarkedGone'
  BY <1>2, <1>3 DEF IInv, UnmarkedGone
<1>6. Covered'
  <2> SUFFICES ASSUME up = "serving", redis \/ restarts = 0, NEW t \in container' \ strays'
               PROVE  Active(t)' \/ Creating(t)'
    BY <1>2 DEF Covered
  <2>1. Active(t) \/ Creating(t)
    BY <1>2 DEF IInv, Covered
  <2>2. CASE Creating(t)
    <3>1. PICK w \in Workers : op[w].s = t /\ op[w].kind = "create" /\
            (At(w, "hset") \/ (At(w, "sadd") /\ record[redis][t] \in {"live", "idle"}))
      BY <2>2 DEF Creating
    <3> QED
      BY <1>2, <1>3, <3>1 DEF Creating
  <2> QED
    BY <1>2, <2>1, <2>2 DEF Active
<1> QED
  BY <1>4, <1>5, <1>6 DEF StoresInv, HandlersInv

\* A call nobody waits for is served: a creation leaves a stray.
LEMMA LateKeeps == ASSUME IInv, ServedLate PROVE StoresInv'
<1>1. /\ UNCHANGED << redis, up, restarts, record, listed, row, unsaved, op, turn >>
      /\ container' \ strays' \subseteq container \ strays
  BY DEF ServedLate, process, stores
<1>2. IInv => StoresInv
  BY DEF IInv, StoresInv
<1>3. /\ UnmarkedGone => UnmarkedGone'
      /\ TurnHeld => TurnHeld'
      /\ TouchesLive => TouchesLive'
  BY <1>1 DEF UnmarkedGone, TurnHeld, TouchesLive, At, Proper, Touching
<1>4. Covered => Covered'
  BY <1>1 DEF Covered, Active, Creating, At
<1>5. MidStores => MidStores'
  BY <1>1 DEF MidStores, At, Touching, Kept
<1>6. StoresAgree => StoresAgree'
  BY <1>1 DEF StoresAgree, Agree, Touching, Kept
<1> QED
  BY <1>2, <1>3, <1>4, <1>5, <1>6 DEF StoresInv

\* A deadline passes: an idle record counts like a live one.
LEMMA DeadlineKeeps == ASSUME IInv, NEW s \in Sessions, DeadlinePasses(s) PROVE StoresInv'
<1>1. UNCHANGED << redis, up, restarts, container, listed, row, unsaved, op, turn, strays >>
  BY DEF DeadlinePasses, process
<1>2. \A b \in BOOLEAN, t \in Sessions :
        record'[b][t] \in {"live", "idle"} <=> record[b][t] \in {"live", "idle"}
  BY DEF DeadlinePasses, IInv, TypeOK
<1>3. redis \in BOOLEAN /\ container \subseteq Sessions
      /\ \A o \in Workers : op[o].at \in Stores => op[o].s \in Sessions
  BY DEF IInv, TypeOK
<1>4. IInv => StoresInv
  BY DEF IInv, StoresInv
<1>5. /\ UnmarkedGone => UnmarkedGone'
      /\ TurnHeld => TurnHeld'
      /\ TouchesLive => TouchesLive'
  BY <1>1 DEF UnmarkedGone, TurnHeld, TouchesLive, At, Proper, Touching
<1>6. \A t \in Sessions : (Active(t)' <=> Active(t)) /\ (Creating(t)' <=> Creating(t))
  BY <1>1, <1>2, <1>3 DEF Active, Creating, At
<1>7. Covered => Covered'
  BY <1>1, <1>3, <1>6 DEF Covered
<1>8. \A t \in Sessions : Kept(t)' <=> Kept(t)
  BY <1>2 DEF Kept
<1>9. MidStores => MidStores'
  BY <1>1, <1>3, <1>8 DEF MidStores, At, Touching, Stores
<1>10. StoresAgree => StoresAgree'
  BY <1>1, <1>8 DEF StoresAgree, Agree, Touching
<1> QED
  BY <1>4, <1>5, <1>7, <1>9, <1>10 DEF StoresInv

\* A restart: everybody rests, and the reconciliation is still to come.
LEMMA RestartKeeps == ASSUME IInv, Restart PROVE StoresInv'
<1>1. /\ up' = "starting" /\ turn' = Nobody /\ restarts' = restarts + 1 /\ restarts \in Nat
      /\ op' = [o \in Workers |-> Resting(IF o = Reaper THEN "boot"
                                          ELSE IF At(o, "new") THEN "new" ELSE "done")]
  BY DEF Restart, IInv, TypeOK
<1>2. \A o \in Workers : op'[o].at \in {"boot", "new", "done"} /\ op'[o].kind = "touch"
  BY <1>1 DEF Resting
<1>3. restarts' # 0
  BY <1>1
<1> QED
  BY <1>1, <1>2, <1>3 DEF StoresInv, UnmarkedGone, Covered, TurnHeld, TouchesLive, MidStores,
     StoresAgree, Proper, Touching, Stores, At

\* hset: the record is written, as live or as deleted.
LEMMA HsetKeeps == ASSUME IInv, NEW o \in Workers, Hset(o) PROVE StoresInv'
<1> USE LifecycleAssumption DEF At
<1>0. TypeOK
  BY DEF IInv
<1>1. PICK s \in Sessions : op[o].s = s
  BY <1>0 DEF Hset, Stores, TypeOK
<1>2. /\ op[o] \in Operations /\ op[o].at = "hset" /\ MayRun(o)
      /\ record' = [record EXCEPT ![redis][s] = op[o].write]
      /\ UNCHANGED << redis, up, restarts, container, listed, row, unsaved, strays >>
  BY <1>0, <1>1 DEF Hset, process, TypeOK, Operations
<1>3. /\ op' \in [Workers -> Operations] /\ \A w \in Workers : w # o => op'[w] = op[w]
      /\ op'[o].at = "sadd" /\ op'[o].s = s
      /\ op'[o].kind = op[o].kind /\ op'[o].write = op[o].write
      /\ ~redis => turn' = o
  BY <1>0, <1>1, GotoEffect DEF Hset, Places, Rests, Stores
<1>4. /\ record'[redis][s] = op[o].write
      /\ \A b \in BOOLEAN, t \in Sessions : b # redis \/ t # s => record'[b][t] = record[b][t]
  BY <1>0, <1>2 DEF TypeOK
<1>5. up = "serving"
  BY <1>0, <1>2 DEF IInv, TypeOK, Reconciling, Workers, Rests
<1>6. UnmarkedGone'
  BY <1>2, <1>3 DEF IInv, UnmarkedGone
<1>7. Covered'
  <2> SUFFICES ASSUME redis \/ restarts = 0, NEW t \in container \ strays
               PROVE  Active(t)' \/ Creating(t)'
    BY <1>2 DEF Covered
  <2>1. Active(t) \/ Creating(t)
    BY <1>5 DEF IInv, Covered
  <2>2. t \in Sessions /\ redis \in BOOLEAN
    BY <1>0 DEF TypeOK
  <2>3. t = s => op[o].write = "live"
    BY <1>1, <1>2 DEF IInv, UnmarkedGone, Operations
  <2>4. record[redis][t] \in {"live", "idle"} => record'[redis][t] \in {"live", "idle"}
    BY <1>4, <2>2, <2>3
  <2>5. CASE Active(t)
    BY <1>2, <2>4, <2>5 DEF Active
  <2>6. CASE Creating(t)
    <3>1. PICK w \in Workers : op[w].s = t /\ op[w].kind = "create" /\
            (At(w, "hset") \/ (At(w, "sadd") /\ record[redis][t] \in {"live", "idle"}))
      BY <2>6 DEF Creating
    <3>2. CASE w = o
      <4>1. t = s /\ record'[redis][t] = "live"
        BY <1>1, <1>4, <2>3, <3>1, <3>2
      <4> QED
        BY <1>2, <1>3, <3>1, <3>2, <4>1 DEF Creating
    <3>3. CASE w # o
      BY <1>2, <1>3, <2>4, <3>1, <3>3 DEF Creating
    <3> QED
      BY <3>2, <3>3
  <2> QED
    BY <2>1, <2>5, <2>6
<1>8. ~redis => \A w \in Workers :
                  w # o => op[w].at \notin {"scan", "pick", "hset", "sadd", "row"}
  BY <1>2, Alone
<1>9. TurnHeld'
  BY <1>2, <1>3, <1>8 DEF IInv, TurnHeld
<1>10. TouchesLive'
  BY <1>2, <1>3 DEF IInv, TouchesLive, Proper, Touching, Stores
<1>11. ASSUME ~redis, restarts = 0
       PROVE  MidStores' /\ StoresAgree'
  <2>1. redis = FALSE
    BY <1>0, <1>11 DEF TypeOK
  <2>2. /\ record'[FALSE][s] = op[o].write
        /\ \A t \in Sessions : t # s => record'[FALSE][t] = record[FALSE][t]
    BY <1>4, <2>1
  <2>3. /\ \A t \in Sessions : t # s => (Kept(t)' <=> Kept(t))
        /\ Kept(s)' <=> op[o].write = "live"
    BY <1>2, <2>2 DEF Kept, Operations
  <2>4. Touching(o) => op[o].write = "live" /\ Kept(s)
    BY <1>1, <1>2, <1>11 DEF IInv, TouchesLive, Proper, MidStores, Stores
  <2>5. \A w \in Workers : Touching(w)' <=> Touching(w)
    BY <1>3 DEF Touching
  <2>6. MidStores'
    <3> SUFFICES ASSUME NEW w \in Workers
                 PROVE  /\ Touching(w)' /\ op'[w].at \in {"hset", "sadd"} => Kept(op[w].s)'
                        /\ op'[w].at \in {"sadd", "row"} => (Kept(op[w].s)' <=> op'[w].write = "live")
                        /\ op'[w].at = "row" => op'[w].s \in listed'[FALSE]
      BY DEF MidStores
    <3>1. CASE w = o
      BY <1>1, <1>3, <2>3, <2>4, <2>5, <3>1
    <3>2. CASE w # o
      BY <1>3, <1>8, <1>11, <3>2
    <3> QED
      BY <3>1, <3>2
  <2>7. ASSUME NEW t \in Sessions, t # s \/ Touching(o)
        PROVE  Agree(t)'
    <3>1. Agree(t)
      BY <1>2, <1>8, <1>11, <2>7 DEF IInv, StoresAgree
    <3>2. Kept(t)' <=> Kept(t)
      BY <2>3, <2>4, <2>7
    <3> QED
      BY <1>2, <3>1, <3>2 DEF Agree
  <2>8. StoresAgree'
    BY <1>2, <1>3, <2>5, <2>7 DEF StoresAgree
  <2> QED
    BY <2>6, <2>8
<1>12. MidStores' /\ StoresAgree'
  BY <1>2, <1>11 DEF MidStores, StoresAgree
<1> QED
  BY <1>6, <1>7, <1>9, <1>10, <1>12 DEF StoresInv

\* sadd: the session is listed; a touch() ends here, a handler goes on to its row.
LEMMA SaddKeeps == ASSUME IInv, NEW o \in Workers, Sadd(o) PROVE StoresInv'
<1> USE LifecycleAssumption DEF At
<1>0. TypeOK
  BY DEF IInv
<1>1. PICK s \in Sessions : op[o].s = s
  BY <1>0 DEF Sadd, Stores, TypeOK
<1>2. /\ op[o] \in Operations /\ op[o].at = "sadd" /\ MayRun(o)
      /\ listed' = [listed EXCEPT ![redis] = @ \cup {s}]
      /\ UNCHANGED << redis, up, restarts, container, record, row, unsaved, strays >>
  BY <1>0, <1>1 DEF Sadd, process, TypeOK, Operations
<1>3. /\ op' \in [Workers -> Operations] /\ \A w \in Workers : w # o => op'[w] = op[w]
      /\ op'[o].at \in {"row", "done", "call"}
      /\ op'[o].kind # "orphan" \/ op'[o].kind = op[o].kind
      /\ op'[o].at = "row" => /\ ~Touching(o) /\ op'[o].kind = op[o].kind
                              /\ op'[o].write = op[o].write /\ op'[o].s = s
                              /\ ~redis => turn' = o
      /\ ~Touching(o) => op'[o].at = "row"
  <2>1. CASE Goto(o, "row") /\ ~Touching(o)
    BY <1>0, <1>1, <2>1, GotoEffect DEF Places, Rests, Stores
  <2>2. CASE Goto(o, "done") /\ Touching(o)
    <3>1. /\ op' \in [Workers -> Operations] /\ \A w \in Workers : w # o => op'[w] = op[w]
          /\ op'[o] = Resting("done")
      BY <1>0, <2>2, GotoEffect DEF Places, Rests
    <3> QED
      BY <2>2, <3>1 DEF Resting
  <2>3. CASE Become(o, "delete", "call", "deleted") /\ Touching(o)
    BY <1>0, <2>3, BecomeEffect DEF Places, Rests, Kinds
  <2> QED
    BY <2>1, <2>2, <2>3 DEF Sadd, AfterTouch, Touching
<1>4. /\ listed'[redis] = listed[redis] \cup {s}
      /\ redis \in BOOLEAN
  BY <1>0, <1>2 DEF TypeOK
<1>5. up = "serving"
  BY <1>0, <1>2 DEF IInv, TypeOK, Reconciling, Workers, Rests
<1>6. UnmarkedGone'
  BY <1>2, <1>3 DEF IInv, UnmarkedGone
<1>7. Covered'
  <2> SUFFICES ASSUME redis \/ restarts = 0, NEW t \in container \ strays
               PROVE  Active(t)' \/ Creating(t)'
    BY <1>2 DEF Covered
  <2>1. Active(t) \/ Creating(t)
    BY <1>5 DEF IInv, Covered
  <2>2. CASE Active(t)
    BY <1>2, <1>4, <2>2 DEF Active
  <2>3. CASE Creating(t)
    <3>1. PICK w \in Workers : op[w].s = t /\ op[w].kind = "create" /\
            (At(w, "hset") \/ (At(w, "sadd") /\ record[redis][t] \in {"live", "idle"}))
      BY <2>3 DEF Creating
    <3>2. CASE w = o
      BY <1>1, <1>2, <1>4, <3>1, <3>2 DEF Active
    <3>3. CASE w # o
      BY <1>2, <1>3, <3>1, <3>3 DEF Creating
    <3> QED
      BY <3>2, <3>3
  <2> QED
    BY <2>1, <2>2, <2>3
<1>8. ~redis => \A w \in Workers :
                  w # o => op[w].at \notin {"scan", "pick", "hset", "sadd", "row"}
  BY <1>2, Alone
<1>9. TurnHeld'
  BY <1>2, <1>3, <1>8 DEF IInv, TurnHeld
<1>10. TouchesLive'
  BY <1>2, <1>3 DEF IInv, TouchesLive, Proper, Touching, Stores
<1>11. ASSUME ~redis, restarts = 0
       PROVE  MidStores' /\ StoresAgree'
  <2>1. redis = FALSE
    BY <1>0, <1>11 DEF TypeOK
  <2>2. s \in listed'[FALSE] /\ listed[FALSE] \subseteq listed'[FALSE]
    BY <1>4, <2>1
  <2>3. \A t \in Sessions : Kept(t)' <=> Kept(t)
    BY <1>2 DEF Kept
  <2>4. Kept(s) <=> op[o].write = "live"
    BY <1>1, <1>2, <1>11 DEF IInv, MidStores
  <2>5. MidStores'
    <3> SUFFICES ASSUME NEW w \in Workers
                 PROVE  /\ Touching(w)' /\ op'[w].at \in {"hset", "sadd"} => Kept(op[w].s)'
                        /\ op'[w].at \in {"sadd", "row"} => (Kept(op[w].s)' <=> op'[w].write = "live")
                        /\ op'[w].at = "row" => op'[w].s \in listed'[FALSE]
      BY DEF MidStores
    <3>1. CASE w = o
      BY <1>3, <2>2, <2>3, <2>4, <3>1
    <3>2. CASE w # o
      BY <1>3, <1>8, <1>11, <3>2
    <3> QED
      BY <3>1, <3>2
  <2>6. ASSUME NEW t \in Sessions, t # s \/ Touching(o)
        PROVE  Agree(t)'
    <3>1. Agree(t)
      BY <1>1, <1>2, <1>8, <1>11, <2>6 DEF IInv, StoresAgree
    <3> QED
      BY <1>2, <2>2, <2>3, <3>1 DEF Agree
  <2>7. ~Touching(o) => op'[o].s = s /\ op'[o].at = "row" /\ ~Touching(o)'
    BY <1>3 DEF Touching
  <2>8. StoresAgree'
    BY <2>6, <2>7 DEF StoresAgree
  <2> QED
    BY <2>5, <2>8
<1>12. MidStores' /\ StoresAgree'
  BY <1>2, <1>11 DEF MidStores, StoresAgree
<1> QED
  BY <1>6, <1>7, <1>9, <1>10, <1>12 DEF StoresInv

\* The row is written last, and says what the record says.
LEMMA RowKeeps == ASSUME IInv, NEW o \in Workers, StoreRow(o) PROVE StoresInv'
<1> USE LifecycleAssumption DEF At
<1>0. TypeOK
  BY DEF IInv
<1>1. PICK s \in Sessions : op[o].s = s
  BY <1>0 DEF StoreRow, Stores, TypeOK
<1>2. /\ op[o] \in Operations /\ op[o].at = "row" /\ MayRun(o)
      /\ row' = [row EXCEPT ![s] =
                   IF op[o].write = "deleted" /\ @ = "none" THEN "none" ELSE op[o].write]
      /\ unsaved' = unsaved \ {s}
      /\ UNCHANGED << redis, up, restarts, container, record, listed, strays >>
  BY <1>0, <1>1 DEF StoreRow, process, TypeOK, Operations
<1>3. /\ op' \in [Workers -> Operations] /\ \A w \in Workers : w # o => op'[w] = op[w]
      /\ op'[o].at \in {"read", "pick", "done"}
      /\ op'[o].kind # "orphan"
      /\ op'[o].at = "read" => op'[o].kind = "touch" /\ op'[o].write = "live"
      /\ ~redis /\ op'[o].at = "pick" => turn' = o
  <2>1. CASE Become(o, "touch", "read", "live")
    BY <1>0, <2>1, BecomeEffect DEF Places, Rests, Kinds, Stores
  <2>2. CASE Goto(o, "pick") /\ op[o].kind = "reap"
    BY <1>0, <2>2, GotoEffect DEF Places, Rests
  <2>3. CASE Goto(o, "done")
    <3>1. /\ op' \in [Workers -> Operations] /\ \A w \in Workers : w # o => op'[w] = op[w]
          /\ op'[o] = Resting("done")
      BY <1>0, <2>3, GotoEffect DEF Places, Rests
    <3> QED
      BY <3>1 DEF Resting
  <2> QED
    BY <2>1, <2>2, <2>3 DEF StoreRow
<1>4. up = "serving"
  BY <1>0, <1>2 DEF IInv, TypeOK, Reconciling, Workers, Rests
<1>5. UnmarkedGone'
  BY <1>2, <1>3 DEF IInv, UnmarkedGone
<1>6. Covered'
  <2> SUFFICES ASSUME redis \/ restarts = 0, NEW t \in container \ strays
               PROVE  Active(t)' \/ Creating(t)'
    BY <1>2 DEF Covered
  <2>1. Active(t) \/ Creating(t)
    BY <1>4 DEF IInv, Covered
  <2>2. CASE Creating(t)
    <3>1. PICK w \in Workers : op[w].s = t /\ op[w].kind = "create" /\
            (At(w, "hset") \/ (At(w, "sadd") /\ record[redis][t] \in {"live", "idle"}))
      BY <2>2 DEF Creating
    <3> QED
      BY <1>2, <1>3, <3>1 DEF Creating
  <2> QED
    BY <1>2, <2>1, <2>2 DEF Active
<1>7. ~redis => \A w \in Workers :
                  w # o => op[w].at \notin {"scan", "pick", "hset", "sadd", "row"}
  BY <1>2, Alone
<1>8. TurnHeld'
  BY <1>2, <1>3, <1>7 DEF IInv, TurnHeld
<1>9. TouchesLive'
  BY <1>2, <1>3 DEF IInv, TouchesLive, Proper, Touching, Stores
<1>10. ASSUME ~redis, restarts = 0
       PROVE  MidStores' /\ StoresAgree'
  <2>1. \A t \in Sessions : Kept(t)' <=> Kept(t)
    BY <1>2 DEF Kept
  <2>2. (Kept(s) <=> op[o].write = "live") /\ s \in listed[FALSE]
    BY <1>1, <1>2, <1>10 DEF IInv, MidStores
  <2>3. MidStores'
    BY <1>3, <1>7, <1>10 DEF MidStores
  <2>4. ASSUME NEW t \in Sessions
        PROVE  Agree(t)'
    <3>1. CASE t = s
      <4>1. row'[s] = "live" <=> op[o].write = "live"
        BY <1>0, <1>2 DEF TypeOK
      <4> QED
        BY <1>2, <2>1, <2>2, <3>1, <4>1 DEF Agree
    <3>2. CASE t # s
      <4>1. Agree(t)
        BY <1>1, <1>2, <1>7, <1>10, <3>2 DEF IInv, StoresAgree
      <4>2. row'[t] = row[t]
        BY <1>0, <1>2, <3>2 DEF TypeOK
      <4> QED
        BY <1>2, <2>1, <3>2, <4>1, <4>2 DEF Agree
    <3> QED
      BY <3>1, <3>2
  <2>5. StoresAgree'
    BY <2>4 DEF StoresAgree
  <2> QED
    BY <2>3, <2>5
<1>11. MidStores' /\ StoresAgree'
  BY <1>2, <1>10 DEF MidStores, StoresAgree
<1> QED
  BY <1>5, <1>6, <1>8, <1>9, <1>11 DEF StoresInv

\* A SQLite statement fails: the row of this session is left as it was, and what no
\* handler is in the middle of any more is among the unsaved.
LEMMA SQLiteFailedKeeps == ASSUME IInv, NEW o \in Workers, SQLiteFailed(o) PROVE StoresInv'
<1> USE LifecycleAssumption DEF At
<1>0. TypeOK
  BY DEF IInv
<1>1. PICK s \in Sessions : op[o].s = s
  BY <1>0 DEF SQLiteFailed, Stores, TypeOK
<1>2. /\ MayRun(o) /\ UNCHANGED << redis, up, restarts, container, record, listed, row >>
      /\ strays \subseteq strays'
  BY DEF SQLiteFailed, process, Fault
<1>3. /\ op' \in [Workers -> Operations] /\ \A w \in Workers : w # o => op'[w] = op[w]
      /\ op'[o].at \in {"done", "idle"} /\ op'[o].kind = "touch"
  <2>1. PICK place \in {"done", "idle"} : Goto(o, place)
    BY DEF SQLiteFailed
  <2>2. /\ op' \in [Workers -> Operations] /\ \A w \in Workers : w # o => op'[w] = op[w]
        /\ op'[o] = Resting(place)
    BY <1>0, <2>1, GotoEffect DEF Places, Rests
  <2> QED
    BY <2>2 DEF Resting
<1>4. up = "serving" \/ up' = "starting"
  BY <1>0, <1>2 DEF TypeOK
<1>5. Proper(o)' /\ Orderly(o)'
  BY <1>3 DEF Proper, Orderly, Touching, Stores
<1>6. CASE At(o, "hset") /\ op[o].kind = "create"
  <2>1. op[o].s \in strays' /\ unsaved' = unsaved
    BY <1>6 DEF SQLiteFailed, Fault
  <2> QED
    BY <1>2, <1>3, <1>4, <1>5, <1>6, <2>1, MoveKeeps
<1>7. CASE At(o, "row")
  <2>1. unsaved' = unsaved \cup {s}
    BY <1>1, <1>7 DEF SQLiteFailed
  <2>2. UnmarkedGone'
    BY <1>2, <1>3 DEF IInv, UnmarkedGone
  <2>3. Covered'
    <3> SUFFICES ASSUME up = "serving", redis \/ restarts = 0, NEW t \in container \ strays'
                 PROVE  Active(t)' \/ Creating(t)'
      BY <1>2, <1>4 DEF Covered
    <3>1. Active(t) \/ Creating(t)
      BY <1>2 DEF IInv, Covered
    <3>2. CASE Creating(t)
      <4>1. PICK w \in Workers : op[w].s = t /\ op[w].kind = "create" /\
              (At(w, "hset") \/ (At(w, "sadd") /\ record[redis][t] \in {"live", "idle"}))
        BY <3>2 DEF Creating
      <4> QED
        BY <1>2, <1>3, <1>7, <4>1 DEF Creating
    <3> QED
      BY <1>2, <3>1, <3>2 DEF Active
  <2>4. ~redis => \A w \in Workers :
                    w # o => op[w].at \notin {"scan", "pick", "hset", "sadd", "row"}
    BY <1>2, Alone
  <2>5. TurnHeld'
    BY <1>2, <1>3, <2>4 DEF IInv, TurnHeld
  <2>6. TouchesLive'
    BY <1>3, <1>5 DEF IInv, TouchesLive, Proper, Touching
  <2>7. MidStores'
    BY <1>2, <1>3, <2>4 DEF IInv, MidStores, Touching, Kept
  <2>8. StoresAgree'
    <3> SUFFICES ASSUME ~redis, restarts = 0, NEW t \in Sessions
                 PROVE  Agree(t)'
      BY <1>2 DEF StoresAgree
    <3>1. Kept(t)' <=> Kept(t)
      BY <1>2 DEF Kept
    <3>2. CASE t = s
      BY <1>1, <1>2, <1>7, <2>1, <3>2 DEF IInv, MidStores, Agree
    <3>3. CASE t # s
      <4>1. Agree(t)
        BY <1>1, <1>7, <2>4, <3>3 DEF IInv, StoresAgree
      <4> QED
        BY <1>2, <2>1, <3>1, <4>1 DEF Agree
    <3> QED
      BY <3>2, <3>3
  <2> QED
    BY <2>2, <2>3, <2>5, <2>6, <2>7, <2>8 DEF StoresInv
<1> QED
  BY <1>6, <1>7 DEF SQLiteFailed

----------------------------------------------------------------------------
\* The invariant holds at the start and is kept by every step.
LEMMA InitInv == Init => IInv
<1> SUFFICES ASSUME Init PROVE IInv
  OBVIOUS
<1> USE LifecycleAssumption DEF At
<1>1. /\ redis \in BOOLEAN /\ up = "starting" /\ container = {} /\ turn = Nobody /\ late = {}
      /\ record = [b \in BOOLEAN |-> [s \in Sessions |-> "none"]]
      /\ listed = [b \in BOOLEAN |-> {}] /\ row = [s \in Sessions |-> "none"] /\ unsaved = {}
      /\ scan = {} /\ todo = {} /\ strays = {} /\ faults = 0 /\ restarts = 0
  BY DEF Init
<1>2. \A o \in Workers : op[o] = Resting(IF o = Reaper THEN "boot" ELSE "new")
  BY DEF Init
<1>3. \A o \in Workers : /\ op[o] \in Operations /\ op[o].at \in {"boot", "new"}
                         /\ op[o].kind = "touch"
  <2>1. \A place \in {"boot", "new"} : /\ Resting(place) \in Operations
                                       /\ Resting(place).at = place
                                       /\ Resting(place).kind = "touch"
    BY DEF Resting, Operations, Kinds, Places, Rests
  <2> QED
    BY <1>2, <2>1
<1>4. op \in [Workers -> Operations] /\ op[Reaper].at = "boot"
  <2>1. op = [o \in Workers |-> Resting(IF o = Reaper THEN "boot" ELSE "new")]
    BY DEF Init
  <2>2. \A o \in Workers : Resting(IF o = Reaper THEN "boot" ELSE "new") \in Operations
    BY <1>2, <1>3
  <2>3. op[Reaper] = Resting("boot")
    BY <1>2 DEF Workers
  <2> QED
    BY <2>1, <2>2, <2>3 DEF Resting
<1>5. OpsTyped
  BY <1>1, <1>3, <1>4 DEF OpsTyped, Workers, Rests, Stores
<1>6. TypeOK
  BY <1>1, <1>5 DEF TypeOK, OpsTyped, Operations, RecordStates
<1>7. Reconciling /\ Booting
  BY <1>1, <1>3, <1>4 DEF Reconciling, Booting, Workers
<1>8. \A s \in Sessions : ~Kept(s) /\ row[s] = "none"
  BY <1>1 DEF Kept
<1> QED
  BY <1>1, <1>3, <1>6, <1>7, <1>8 DEF IInv, UnmarkedGone, Covered, TurnHeld, TouchesLive,
     Proper, Touching, MidStores, StoresAgree, Agree, Stores

LEMMA StepInv == IInv /\ [Next]_vars => IInv'
<1> SUFFICES ASSUME IInv, [Next]_vars PROVE IInv'
  OBVIOUS
<1>1. CASE Next
  <2>1. StoresInv'
    <3>1. ASSUME NEW o \in Workers, StoreStep(o) PROVE StoresInv'
      BY <3>1, ReadKeeps, HsetKeeps, SaddKeeps, RowKeeps DEF StoreStep
    <3>2. ASSUME NEW o \in Workers, Served(o) PROVE StoresInv'
      BY <3>2, CreationKeeps, InspectionKeeps, RemovalKeeps DEF Served
    <3>3. ASSUME ReaperStep PROVE StoresInv'
      BY <3>3, ReaperKeeps, LookKeeps DEF ReaperStep
    <3> QED
      BY <1>1, <3>1, <3>2, <3>3, StartKeeps, CallFailedKeeps, StoreFailedKeeps,
         SQLiteFailedKeeps, LateKeeps, DeadlineKeeps, RestartKeeps DEF Next
  <2>2. TypeOK'
    BY <1>1, TypeStep DEF IInv
  <2> QED
    BY <1>1, <2>1, <2>2, ReconcilingStep, BootingStep DEF IInv, StoresInv
<1>2. CASE UNCHANGED vars
  <2>1. UNCHANGED << redis, up, container, record, listed, row, unsaved, op, turn, late, scan, todo,
                     strays, faults, restarts >>
    BY <1>2 DEF vars
  <2>2. TypeOK' /\ Reconciling' /\ Booting'
    BY <2>1 DEF IInv, TypeOK, Reconciling, Booting, Active, At
  <2>3. /\ UnmarkedGone => UnmarkedGone'
        /\ TurnHeld => TurnHeld'
        /\ TouchesLive => TouchesLive'
    BY <2>1 DEF UnmarkedGone, TurnHeld, TouchesLive, At, Proper, Touching
  <2>4. Covered => Covered'
    BY <2>1 DEF Covered, Active, Creating, At
  <2>5. (MidStores => MidStores') /\ (StoresAgree => StoresAgree')
    BY <2>1 DEF MidStores, StoresAgree, Agree, At, Touching, Kept
  <2> QED
    BY <2>2, <2>3, <2>4, <2>5 DEF IInv
<1> QED
  BY <1>1, <1>2

LEMMA Invariance == Spec => []IInv
BY InitInv, StepInv, PTL DEF Spec

\* Well-formedness: who keeps the turn, who runs while the backend starts.
THEOREM TypeCorrect == Spec => []TypeOK
<1>1. IInv => TypeOK
  BY DEF IInv
<1> QED
  BY <1>1, Invariance, PTL

\* No container without an active record runs unnoticed: a creation still has its
\* stores before it, or the container is one of those known to stray.
THEOREM NoContainerIsForgotten == Spec => []KnownContainers
<1>1. IInv => KnownContainers
  <2>1. ASSUME NEW s, Creating(s) PROVE \E o \in Workers : Pending(o, s)
    BY <2>1 DEF Creating, Pending, At, Stores
  <2> QED
    BY <2>1 DEF IInv, Covered, KnownContainers
<1> QED
  BY <1>1, Invariance, PTL

\* With the memory store and no restart, a failed write of a session's row is the only
\* way in which store and SQLite come to differ about whether it is alive, seen when no
\* handler is in the middle of its stores; the next write that succeeds ends it.
THEOREM StoresDoAgree == Spec => []MemoryAgrees
<1>1. IInv => MemoryAgrees
  <2> SUFFICES ASSUME IInv, ~redis, turn = Nobody, restarts = 0, NEW s \in Sessions \ unsaved
               PROVE  Active(s) <=> row[s] = "live"
    BY DEF MemoryAgrees
  <2>1. redis = FALSE
    BY DEF IInv, TypeOK
  <2>2. \A o \in Workers : op[o].at \notin {"sadd", "row"}
    BY LifecycleAssumption DEF IInv, TurnHeld
  <2>3. (Kept(s) <=> row[s] = "live") /\ (Kept(s) => s \in listed[FALSE])
    BY <2>2 DEF IInv, StoresAgree, Agree
  <2> QED
    BY <2>1, <2>3 DEF Active, Kept
<1> QED
  BY <1>1, Invariance, PTL

\* The reconciliation removes a container only with Redis, and only one without an
\* active record.
THEOREM ActiveAreSpared == Spec => ReconcileSpares
<1> DEFINE Spares == up = "starting" =>
                       \A s \in container :
                         (~redis \/ Active(s)) /\ (\A c \in late : c.s # s) => s \in container'
<1>1. IInv /\ [Next]_vars => Spares
  <2> SUFFICES ASSUME IInv, [Next]_vars, up = "starting", NEW s \in container,
                      ~redis \/ Active(s), \A c \in late : c.s # s, s \notin container'
               PROVE  FALSE
    OBVIOUS
  <2>0. TypeOK
    BY DEF IInv
  <2>1. (\E o \in Workers : Served(o) /\ (Created(o) \/ Removed(o))) \/ ServedLate
    BY DEF vars, Next, Start, StoreStep, ReadRecord, Hset, Sadd, StoreRow, Served, Inspected,
       CallFailed, StoreFailed, SQLiteFailed, DeadlinePasses, ReaperStep, ListSessions, LookAt,
       PickExpired, Reconciled, PickOrphan, Restart, stores
  <2>2. CASE ServedLate
    BY <2>2 DEF ServedLate
  <2>3. ASSUME NEW o \in Workers, Served(o), Created(o) \/ Removed(o) PROVE FALSE
    <3>1. op[o].at = "call" /\ op[o].s = s
      BY <2>3 DEF Served, Created, Removed, At
    <3>2. o = Reaper
      BY <2>0, <3>1, ServingWhen DEF Rests
    <3>3. redis /\ ~Active(s)
      BY <3>1, <3>2 DEF IInv, Reconciling, At
    <3> QED
      BY <3>3
  <2> QED
    BY <2>1, <2>2, <2>3
<1> QED
  BY <1>1, Invariance, PTL DEF Spec, ReconcileSpares
=============================================================================
