---------------------------- MODULE EventBroker ----------------------------
(***************************************************************************)
(* SessionEventBroker (backend/app/agent/events.py) for ONE session: the   *)
(* in-memory history, the rows SQLite keeps, the subscriber queues of the  *)
(* event WebSocket, and the coroutines that publish.                       *)
(*                                                                         *)
(* asyncio runs a coroutine without interleaving up to its next            *)
(* suspension.  publish() takes the broker lock without ever suspending    *)
(* under it, so numbering, remembering and persisting an event is ONE      *)
(* step; the only suspension is session_store.touch(), and only when the   *)
(* session store reached Redis at start-up (redis = TRUE).  The subscriber *)
(* queues were snapshotted before it and are filled after it.              *)
(*                                                                         *)
(* Sessions are independent in the broker (every structure is keyed by the *)
(* session id), so one session is modelled.                                *)
(***************************************************************************)
EXTENDS Integers, Sequences, FiniteSets

CONSTANTS
  Publishers,   \* coroutines that publish: the agent task, REST handlers
  Subscribers,  \* event WebSockets, each used for one connection
  MaxHistory,   \* MAX_EVENT_HISTORY (200)
  QueueSize,    \* maxsize of a subscriber queue (100)
  MaxEvents,    \* bound on the events ever published
  MaxCancels,   \* bound on the publishers cancelled inside publish()
  MaxClears,    \* bound on DELETE /sessions/{id} and POST /sessions
  MaxRestarts   \* bound on restarts of the backend process

ASSUME BrokerAssumption ==
  /\ MaxHistory \in Nat \ {0}
  /\ QueueSize \in Nat \ {0}
  /\ MaxEvents \in Nat
  /\ MaxCancels \in Nat
  /\ MaxClears \in Nat
  /\ MaxRestarts \in Nat

VARIABLES
  redis,      \* did RedisSessionManager.connect() reach Redis at start-up
  published,  \* how many events publish() has ever numbered (a history variable)
  sequence,   \* _sequences[session_id]
  history,    \* _history[session_id], oldest first
  rows,       \* the events table: at most one row per sequence number
  conn,       \* conn[s]: state of subscriber s
  stream,     \* stream[s]: all s was ever given, the replay and then its queue
  replayed,   \* replayed[s]: length of the replay, which is not in the queue
  got,        \* got[s]: how much of stream[s] has been sent to the client
  joined,     \* joined[s]: value of published when s registered
  suspended,  \* the publish() calls suspended in touch(): event and snapshot
  aborted,    \* ids of the events whose publish() did not run to its end
  cancels, clears, restarts  \* how often each bounded disturbance happened

vars == << redis, published, sequence, history, rows, conn, stream, replayed, got,
           joined, suspended, aborted, cancels, clears, restarts >>
store == << redis, published, sequence, history, rows >>
queues == << stream, aborted >>
sockets == << conn, replayed, got, joined >>
counters == << cancels, clears, restarts >>

\* An event: its identity, the sequence number the clients see, its publisher.
Events == [id : Nat \ {0}, seq : Nat \ {0}, by : Publishers]

\* A suspended publish() call.
Calls == [event : Events, to : SUBSET Subscribers]
----------------------------------------------------------------------------
Init ==
  /\ redis \in BOOLEAN
  /\ published = 0
  /\ sequence = 0
  /\ history = << >>
  /\ rows = {}
  /\ conn = [s \in Subscribers |-> "new"]
  /\ stream = [s \in Subscribers |-> << >>]
  /\ replayed = [s \in Subscribers |-> 0]
  /\ got = [s \in Subscribers |-> 0]
  /\ joined = [s \in Subscribers |-> 0]
  /\ suspended = {}
  /\ aborted = {}
  /\ cancels = 0
  /\ clears = 0
  /\ restarts = 0

\* The queues registered right now (the snapshot publish() takes).
Registered == { s \in Subscribers : conn[s] = "open" }

\* The part of stream[s] that sits in s's asyncio.Queue.
Backlog(s) ==
  Len(stream[s]) - (IF got[s] > replayed[s] THEN got[s] ELSE replayed[s])

\* Defect: appendleft on the bounded deque.
RememberAtFront(h, e) ==
  IF Len(h) < MaxHistory THEN << e >> \o h ELSE << e >> \o SubSeq(h, 1, Len(h) - 1)

\* Defect: a history without maxlen.
RememberAll(h, e) == Append(h, e)

\* deque(maxlen=MAX_EVENT_HISTORY).append
Remember(h, e) ==
  IF Len(h) < MaxHistory THEN Append(h, e) ELSE Append(Tail(h), e)

\* INSERT OR REPLACE under UNIQUE(session_id, sequence)
Replace(t, e) == { r \in t : r.seq # e.seq } \cup {e}

NextEvent(p) == [id |-> published + 1, seq |-> sequence + 1, by |-> p]

\* The locked part of publish() and record_event(), whose failure is swallowed.
Number(e) ==
  /\ published < MaxEvents
  /\ published' = e.id
  /\ sequence' = e.seq
  /\ history' = Remember(history, e)
  /\ \E saved \in BOOLEAN : rows' = IF saved THEN Replace(rows, e) ELSE rows

\* put_nowait on every queue of the snapshot, in the arbitrary order of a set.
\* A full queue raises QueueFull out of publish(): the queues already visited
\* have the event, the others never get it.
Full(targets) == { s \in targets : Backlog(s) >= QueueSize }

Give(e, lucky) ==
  stream' = [s \in Subscribers |->
               IF s \in lucky THEN Append(stream[s], e) ELSE stream[s]]

\* Defect: full queues are skipped as if nothing had happened.
OfferDropsWhenFull(e, targets) ==
  /\ Give(e, targets \ Full(targets))
  /\ UNCHANGED aborted

\* Defect: the subscribers are looked up after the suspension.
OfferToAllRegistered(e, targets) ==
  /\ Give(e, Registered \ Full(Registered))
  /\ aborted' = aborted \cup { e.id : s \in Full(Registered) }

Offer(e, targets) ==
  \/ /\ Full(targets) = {}
     /\ Give(e, targets)
     /\ UNCHANGED aborted
  \/ /\ Full(targets) # {}
     /\ \E lucky \in SUBSET (targets \ Full(targets)) : Give(e, lucky)
     /\ aborted' = aborted \cup {e.id}
----------------------------------------------------------------------------
\* publish() up to the suspension in touch().
PublishBegin(p) ==
  /\ redis
  /\ \A c \in suspended : c.event.by # p
  /\ Number(NextEvent(p))
  /\ suspended' = suspended \cup {[event |-> NextEvent(p), to |-> Registered]}
  /\ UNCHANGED << redis, queues, sockets, counters >>

\* publish() from the resumption to its end.
PublishEnd(p) ==
  /\ \E c \in suspended :
       /\ c.event.by = p
       /\ Offer(c.event, c.to)
       /\ suspended' = suspended \ {c}
  /\ UNCHANGED << store, sockets, counters >>

\* publish() when nothing in it suspends.
PublishAtOnce(p) ==
  /\ ~redis
  /\ Number(NextEvent(p))
  /\ Offer(NextEvent(p), Registered)
  /\ UNCHANGED << redis, suspended, sockets, counters >>

\* Defect: a cancelled publish() gives its sequence number back.
CancelPublishRollsBack(p) ==
  /\ cancels < MaxCancels
  /\ cancels' = cancels + 1
  /\ sequence' = sequence - 1
  /\ \E c \in suspended :
       /\ c.event.by = p
       /\ aborted' = aborted \cup {c.event.id}
       /\ suspended' = suspended \ {c}
  /\ UNCHANGED << redis, published, history, rows, stream, sockets, clears, restarts >>

\* The publisher is cancelled (task.cancel()) while touch() is suspended:
\* CancelledError is no Exception, so it leaves publish() before the queues.
CancelPublish(p) ==
  /\ cancels < MaxCancels
  /\ cancels' = cancels + 1
  /\ \E c \in suspended :
       /\ c.event.by = p
       /\ aborted' = aborted \cup {c.event.id}
       /\ suspended' = suspended \ {c}
  /\ UNCHANGED << store, stream, sockets, clears, restarts >>

\* list_events: the newest MaxHistory rows, oldest first.
Newest == { r \in rows : Cardinality({ q \in rows : q.seq > r.seq }) < MaxHistory }

Loads == { q \in [1 .. Cardinality(Newest) -> Newest] :
             /\ \A r \in Newest : \E i \in DOMAIN q : q[i] = r
             /\ \A i, j \in DOMAIN q : i < j => q[i].seq < q[j].seq }

\* Defect: the counter is not restored with the rows.
HistoryForKeepsCounter(r) ==
  IF history # << >> \/ rows = {}
  THEN r = history /\ UNCHANGED << history, sequence >>
  ELSE history' = r /\ UNCHANGED sequence

\* _history_for: the deque when it holds anything, otherwise the rows, which
\* then refill the deque and restore the counter.
HistoryFor(r) ==
  IF history # << >> \/ rows = {}
  THEN r = history /\ UNCHANGED << history, sequence >>
  ELSE /\ history' = r
       /\ sequence' = r[Len(r)].seq

Replays == IF history # << >> \/ rows = {} THEN { history } ELSE Loads

\* subscribe(): replay and registration are one step under the lock.
Subscribe(s) ==
  /\ conn[s] = "new"
  /\ conn' = [conn EXCEPT ![s] = "open"]
  /\ joined' = [joined EXCEPT ![s] = published]
  /\ \E r \in Replays :
       /\ HistoryFor(r)
       /\ stream' = [stream EXCEPT ![s] = r]
       /\ replayed' = [replayed EXCEPT ![s] = Len(r)]
  /\ UNCHANGED << redis, published, rows, got, suspended, aborted, counters >>

\* GET /sessions/{id}/events.
ReadHistory ==
  /\ \E r \in Replays : HistoryFor(r)
  /\ UNCHANGED << redis, published, rows, queues, sockets, suspended, counters >>

\* Defect: the generator ends after the replay instead of reading the queue.
ReceiveReplayOnly(s) ==
  /\ conn[s] = "open"
  /\ got[s] < replayed[s]
  /\ got' = [got EXCEPT ![s] = got[s] + 1]
  /\ UNCHANGED << store, queues, conn, replayed, joined, suspended, counters >>

\* The WebSocket handler sends the next replayed or queued event.
Receive(s) ==
  /\ conn[s] = "open"
  /\ got[s] < Len(stream[s])
  /\ got' = [got EXCEPT ![s] = got[s] + 1]
  /\ UNCHANGED << store, queues, conn, replayed, joined, suspended, counters >>

\* The client went away; the generator's finally block discards the queue.
Unsubscribe(s) ==
  /\ conn[s] = "open"
  /\ conn' = [conn EXCEPT ![s] = "closed"]
  /\ UNCHANGED << store, queues, replayed, got, joined, suspended, counters >>

\* delete_session ends with broker.clear(); the event rows stay.
DeleteSession ==
  /\ clears < MaxClears
  /\ clears' = clears + 1
  /\ history' = << >>
  /\ sequence' = 0
  /\ UNCHANGED << redis, published, rows, queues, sockets, suspended, cancels, restarts >>

\* create_session clears the rows and the broker before session_created.
CreateSession ==
  /\ clears < MaxClears
  /\ clears' = clears + 1
  /\ history' = << >>
  /\ sequence' = 0
  /\ rows' = {}
  /\ UNCHANGED << redis, published, queues, sockets, suspended, cancels, restarts >>

\* The backend process dies and starts again: memory and sockets are lost.
Restart ==
  /\ restarts < MaxRestarts
  /\ restarts' = restarts + 1
  /\ redis' \in BOOLEAN
  /\ history' = << >>
  /\ sequence' = 0
  /\ conn' = [s \in Subscribers |->
                IF conn[s] = "open" THEN "closed" ELSE conn[s]]
  /\ suspended' = {}
  /\ aborted' = aborted \cup { c.event.id : c \in suspended }
  /\ UNCHANGED << published, rows, stream, replayed, got, joined, cancels, clears >>

Publish(p) == PublishBegin(p) \/ PublishEnd(p) \/ PublishAtOnce(p) \/ CancelPublish(p)
Connection(s) == Subscribe(s) \/ Receive(s) \/ Unsubscribe(s)

Next ==
  \/ \E p \in Publishers : Publish(p)
  \/ \E s \in Subscribers : Connection(s)
  \/ ReadHistory
  \/ DeleteSession
  \/ CreateSession
  \/ Restart

Spec == Init /\ [][Next]_vars

\* The event loop resumes a suspended publish(), and the WebSocket handler
\* goes on sending.  Clients, requests and failures are not fair.
Fairness ==
  /\ \A p \in Publishers : WF_vars(PublishEnd(p))
  /\ \A s \in Subscribers : WF_vars(Receive(s))

FairSpec == Spec /\ Fairness
----------------------------------------------------------------------------
TypeOK ==
  /\ redis \in BOOLEAN
  /\ published \in Nat
  /\ sequence \in Nat
  /\ history \in Seq(Events)
  /\ rows \in SUBSET Events
  /\ conn \in [Subscribers -> {"new", "open", "closed"}]
  /\ stream \in [Subscribers -> Seq(Events)]
  /\ replayed \in [Subscribers -> Nat]
  /\ got \in [Subscribers -> Nat]
  /\ joined \in [Subscribers -> Nat]
  /\ suspended \in SUBSET Calls
  /\ Len(history) <= MaxHistory
  /\ \A s \in Subscribers : got[s] <= Len(stream[s]) /\ replayed[s] <= Len(stream[s])
  /\ aborted \in SUBSET (Nat \ {0})
  /\ cancels \in Nat
  /\ clears \in Nat
  /\ restarts \in Nat

\* The events s was or will be given without any further publish().
Ids(q) == { q[i].id : i \in DOMAIN q }
InFlight(s) == { c.event.id : c \in { d \in suspended : s \in d.to } }

\* The remembered history is in strictly increasing sequence order and ends at
\* the counter, across clears, restarts and reloads from SQLite: the next event
\* never reuses the number of a remembered one.
HistoryOrdered ==
  /\ \A i, j \in DOMAIN history : i < j => history[i].seq < history[j].seq
  /\ IF history = << >> THEN sequence = 0
                        ELSE history[Len(history)].seq = sequence

\* No subscriber is given one event twice: what the replay holds is not also
\* delivered live, although a publish() may be suspended while s registers.
NoDuplicateDelivery ==
  \A s \in Subscribers :
    /\ \A i, j \in DOMAIN stream[s] : i # j => stream[s][i].id # stream[s][j].id
    /\ Ids(stream[s]) \cap InFlight(s) = {}

\* Every event numbered after s registered was given to s or is on its way,
\* unless its publish() was cut short: none is dropped silently.
NoSilentGap ==
  \A s \in Registered : \A n \in (joined[s] + 1) .. published :
    n \in Ids(stream[s]) \cup InFlight(s) \cup aborted

\* Where the identities of events occur: all were handed out, each once.
FreshIds ==
  /\ \A i \in DOMAIN history : history[i].id <= published
  /\ \A r \in rows : r.id <= published
  /\ \A s \in Subscribers : \A i \in DOMAIN stream[s] : stream[s][i].id <= published
  /\ \A c \in suspended : c.event.id <= published

DistinctIds ==
  /\ \A i, j \in DOMAIN history : i # j => history[i].id # history[j].id
  /\ \A r, q \in rows : r.id = q.id => r = q
  /\ \A c, d \in suspended : c.event.id = d.event.id => c = d

\* A subscriber still to come is in no snapshot and was sent nothing.
NewcomersUntouched ==
  \A s \in Subscribers : conn[s] = "new" => got[s] = 0 /\ InFlight(s) = {}

\* The stored rows are finitely many and one has the highest number.
RowsHaveLast ==
  /\ IsFiniteSet(rows)
  /\ rows # {} => \E r \in rows : \A q \in rows : q.seq <= r.seq

\* The inductive invariant behind the four safety properties above.
IInv ==
  /\ TypeOK
  /\ FreshIds
  /\ DistinctIds
  /\ NewcomersUntouched
  /\ RowsHaveLast
  /\ HistoryOrdered
  /\ NoDuplicateDelivery
  /\ NoSilentGap

\* While nothing is cleared, the numbers a connected client sees are distinct
\* (its duplicate filter in page.tsx is keyed by them) and those of one publisher
\* increase, over the boundary of replay and live queue too; without Redis, where
\* publish() never suspends, all of them increase.
DeliveryOrder ==
  clears = 0 =>
    \A s \in Registered : \A i, j \in DOMAIN stream[s] :
      i < j => /\ stream[s][i].seq # stream[s][j].seq
               /\ (~redis \/ stream[s][i].by = stream[s][j].by)
                    => stream[s][i].seq < stream[s][j].seq

\* Within one run of the backend a persisted event is never overwritten; only a
\* cleared session starts its numbers anew.
PersistedEventsKept ==
  [][ (restarts = 0 /\ clears' = 0) => rows \subseteq rows' ]_vars

\* "SQLite stores session rows, user messages, frontend-visible event metadata"
\* (docs/architecture.md): a restart of the backend alone loses no stored event.
RowsSurviveRestart == [][ clears' = 0 => rows \subseteq rows' ]_vars

\* What is on its way to a connected client arrives, unless publish() is cut
\* short or the client goes away.
Delivered ==
  \A s \in Subscribers : \A n \in 1 .. MaxEvents :
    (conn[s] = "open" /\ n \in InFlight(s) \cup Ids(stream[s]))
      ~> \/ conn[s] = "closed"
         \/ n \in aborted
         \/ n \in Ids(SubSeq(stream[s], 1, got[s]))
=============================================================================
