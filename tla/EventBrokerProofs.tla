------------------------- MODULE EventBrokerProofs -------------------------
(***************************************************************************)
(* Proofs about EventBroker for any publishers, subscribers and bounds:    *)
(* the history is ordered, no event is delivered twice and none is lost    *)
(* silently.  The strengthening (IInv) follows the identities of events:   *)
(* each is handed out once, and sits in the history, the rows, a suspended *)
(* publish() or a stream.                                                  *)
(***************************************************************************)
EXTENDS EventBroker, FiniteSetTheorems, SequenceTheorems, TLAPS

\* No event occurs twice in a queue.
Unique(q) == \A i, j \in DOMAIN q : i # j => q[i].id # q[j].id

\* What the bounded deque holds after an append: the new event last, before it
\* a suffix of what it held.
LEMMA RememberFacts ==
  ASSUME NEW h \in Seq(Events), NEW e \in Events, Len(h) <= MaxHistory
  PROVE  /\ Remember(h, e) \in Seq(Events)
         /\ Len(Remember(h, e)) \in 1 .. MaxHistory
         /\ Remember(h, e)[Len(Remember(h, e))] = e
         /\ \E k \in {0, 1} : \A i \in 1 .. (Len(Remember(h, e)) - 1) :
              i + k \in DOMAIN h /\ Remember(h, e)[i] = h[i + k]
<1> USE BrokerAssumption
<1>1. CASE Len(h) < MaxHistory
  <2>1. Remember(h, e) = Append(h, e)
    BY <1>1 DEF Remember
  <2>2. \A i \in 1 .. Len(h) : i + 0 \in DOMAIN h /\ Append(h, e)[i] = h[i + 0]
    OBVIOUS
  <2> QED
    BY <1>1, <2>1, <2>2
<1>2. CASE Len(h) >= MaxHistory
  <2>1. Remember(h, e) = Append(Tail(h), e)
    BY <1>2 DEF Remember
  <2>2. Tail(h) \in Seq(Events) /\ Len(Tail(h)) = Len(h) - 1
    BY <1>2, HeadTailProperties
  <2>3. \A i \in 1 .. Len(Tail(h)) : i + 1 \in DOMAIN h /\ Append(Tail(h), e)[i] = h[i + 1]
    BY <1>2, <2>2
  <2> QED
    BY <1>2, <2>1, <2>2, <2>3
<1> QED
  BY <1>1, <1>2

\* What list_events returns: stored rows, in order, at least one when there is
\* any, and no more than the limit.
LEMMA LoadFacts ==
  ASSUME TypeOK, RowsHaveLast, rows # {}, NEW r \in Loads
  PROVE  /\ r \in Seq(Events)
         /\ Len(r) \in 1 .. MaxHistory
         /\ \A i \in DOMAIN r : r[i] \in rows
         /\ \A i, j \in DOMAIN r : i < j => r[i].seq < r[j].seq
<1> DEFINE above(x) == { q \in rows : q.seq > x.seq }
           n == Cardinality(Newest)
<1>1. Newest \subseteq rows /\ IsFiniteSet(Newest) /\ n \in Nat
  BY FS_Subset, FS_CardinalityType DEF Newest, RowsHaveLast
<1>2. PICK top \in rows : \A q \in rows : q.seq <= top.seq
  BY DEF RowsHaveLast
<1>3. above(top) = {}
  BY <1>2 DEF TypeOK, Events
<1>4. top \in Newest
  BY <1>3, FS_EmptySet, BrokerAssumption DEF Newest
<1>5. n > 0
  BY <1>1, <1>4, FS_EmptySet
<1>6. r \in [1 .. n -> Newest]
  BY DEF Loads
<1>7. r \in Seq(Events) /\ Len(r) = n /\ DOMAIN r = 1 .. n
  <2>1. Newest \subseteq Events
    BY <1>1 DEF TypeOK
  <2> HIDE DEF n
  <2>2. r \in Seq(Events)
    BY <1>1, <1>6, <2>1, SeqDef
  <2>3. DOMAIN r = 1 .. n /\ DOMAIN r = 1 .. Len(r) /\ Len(r) \in Nat
    BY <1>6, <2>2, LenProperties
  <2> QED
    BY <1>1, <1>5, <2>2, <2>3
<1>8. \A x \in Newest : x \in rows /\ x.seq \in Nat /\ \E i \in 1 .. n : r[i] = x
  BY <1>1, <1>6 DEF Loads, TypeOK, Events
<1>9. n <= MaxHistory
  <2>1. r[1] \in Newest
    BY <1>1, <1>5, <1>6
  <2>2. IsFiniteSet(Newest \ {r[1]}) /\ Cardinality(Newest \ {r[1]}) = n - 1
    BY <1>1, <2>1, FS_RemoveElement
  <2>3. Newest \ {r[1]} \subseteq above(r[1])
    <3> SUFFICES ASSUME NEW x \in Newest, x # r[1] PROVE x.seq > r[1].seq
      BY <1>8
    <3>1. PICK i \in 1 .. n : r[i] = x
      BY <1>8
    <3>2. 1 < i
      BY <3>1, <1>1
    <3>3. r[1].seq < r[i].seq
      BY <3>2, <1>5, <1>7 DEF Loads
    <3> QED
      BY <3>1, <3>3, <2>1, <1>8
  <2>4. IsFiniteSet(above(r[1])) /\ Cardinality(above(r[1])) \in Nat
    BY FS_Subset, FS_CardinalityType DEF RowsHaveLast
  <2>5. n - 1 <= Cardinality(above(r[1]))
    BY <2>2, <2>3, <2>4, FS_Subset
  <2>6. Cardinality(above(r[1])) < MaxHistory
    BY <2>1 DEF Newest
  <2> QED
    BY <2>4, <2>5, <2>6, <1>1, BrokerAssumption
<1>10. \A i \in DOMAIN r : r[i] \in rows
  BY <1>1, <1>6, <1>7
<1>11. \A i, j \in DOMAIN r : i < j => r[i].seq < r[j].seq
  BY DEF Loads
<1> QED
  BY <1>1, <1>5, <1>7, <1>9, <1>10, <1>11, BrokerAssumption

\* The events of a queue after a put_nowait.
LEMMA AppendIds ==
  ASSUME NEW q \in Seq(Events), NEW e \in Events
  PROVE  /\ Append(q, e) \in Seq(Events)
         /\ Len(Append(q, e)) = Len(q) + 1
         /\ Ids(Append(q, e)) = Ids(q) \cup {e.id}
         /\ (e.id \notin Ids(q) /\ Unique(q)) => Unique(Append(q, e))
<1>1. /\ Append(q, e) \in Seq(Events)
      /\ Len(Append(q, e)) = Len(q) + 1
      /\ \A i \in 1 .. Len(q) : Append(q, e)[i] = q[i]
      /\ Append(q, e)[Len(q) + 1] = e
  BY AppendProperties
<1>2. /\ Len(q) \in Nat
      /\ DOMAIN q = 1 .. Len(q)
      /\ DOMAIN Append(q, e) = 1 .. (Len(q) + 1)
  BY <1>1, LenProperties
<1>3. Ids(Append(q, e)) = Ids(q) \cup {e.id}
  <2>1. ASSUME NEW i \in 1 .. (Len(q) + 1) PROVE Append(q, e)[i].id \in Ids(q) \cup {e.id}
    <3>1. CASE i \in 1 .. Len(q)
      BY <3>1, <1>1, <1>2 DEF Ids
    <3>2. CASE i = Len(q) + 1
      BY <3>2, <1>1
    <3> QED
      BY <3>1, <3>2, <1>2
  <2>2. ASSUME NEW i \in 1 .. Len(q) PROVE q[i].id \in Ids(Append(q, e))
    BY <1>1, <1>2 DEF Ids
  <2>3. e.id \in Ids(Append(q, e))
    BY <1>1, <1>2 DEF Ids
  <2> QED
    BY <2>1, <2>2, <2>3, <1>2 DEF Ids
<1>4. (e.id \notin Ids(q) /\ Unique(q)) => Unique(Append(q, e))
  <2> SUFFICES ASSUME e.id \notin Ids(q), Unique(q),
                      NEW i \in 1 .. (Len(q) + 1), NEW j \in 1 .. (Len(q) + 1), i # j
               PROVE  Append(q, e)[i].id # Append(q, e)[j].id
    BY <1>2 DEF Unique
  <2>1. CASE i \in 1 .. Len(q) /\ j \in 1 .. Len(q)
    BY <2>1, <1>1, <1>2 DEF Unique
  <2>2. CASE i \in 1 .. Len(q) /\ j = Len(q) + 1
    BY <2>2, <1>1, <1>2 DEF Ids
  <2>3. CASE i = Len(q) + 1 /\ j \in 1 .. Len(q)
    BY <2>3, <1>1, <1>2 DEF Ids
  <2> QED
    BY <2>1, <2>2, <2>3, <1>2
<1> QED
  BY <1>1, <1>3, <1>4

\* What a step that numbers an event leaves in the history and the rows.
LEMMA NumberFacts ==
  ASSUME IInv, NEW p \in Publishers, Number(NextEvent(p))
  PROVE  /\ NextEvent(p) \in Events
         /\ NextEvent(p).id = published + 1
         /\ published' = published + 1
         /\ sequence' \in Nat
         /\ history' \in Seq(Events) /\ Len(history') <= MaxHistory
         /\ rows' \in SUBSET Events
         /\ HistoryOrdered'
         /\ RowsHaveLast'
         /\ \A i \in DOMAIN history' : history'[i].id <= published'
         /\ Unique(history')
         /\ \A r \in rows' : r.id <= published'
         /\ \A r, q \in rows' : r.id = q.id => r = q
<1> DEFINE e == NextEvent(p)
<1>1. /\ e \in Events /\ e.id = published + 1 /\ e.seq = sequence + 1
      /\ published' = published + 1 /\ sequence' = sequence + 1
      /\ published \in Nat /\ sequence \in Nat
      /\ history \in Seq(Events) /\ Len(history) <= MaxHistory /\ Len(history) \in Nat
      /\ DOMAIN history = 1 .. Len(history)
      /\ history' = Remember(history, e)
      /\ rows' \in {rows, Replace(rows, e)}
  BY DEF IInv, TypeOK, Number, NextEvent, Events
<1> HIDE DEF e
<1>2. /\ history' \in Seq(Events)
      /\ Len(history') \in 1 .. MaxHistory
      /\ DOMAIN history' = 1 .. Len(history')
      /\ history'[Len(history')] = e
  BY <1>1, RememberFacts, LenProperties
<1>3. PICK k \in {0, 1} : \A i \in 1 .. (Len(history') - 1) :
              i + k \in DOMAIN history /\ history'[i] = history[i + k]
  BY <1>1, RememberFacts
<1>4. \A i \in DOMAIN history : history[i].seq <= sequence /\ history[i].id <= published
                               /\ history[i] \in Events
  <2> SUFFICES ASSUME NEW i \in DOMAIN history
               PROVE  history[i].seq <= sequence /\ history[i].id <= published
                      /\ history[i] \in Events
    OBVIOUS
  <2>1. history # << >> /\ history[i] \in Events /\ history[Len(history)] \in Events
    BY <1>1
  <2>2. history[Len(history)].seq = sequence
    BY <2>1 DEF IInv, HistoryOrdered
  <2>3. i < Len(history) => history[i].seq < history[Len(history)].seq
    BY <1>1 DEF IInv, HistoryOrdered
  <2> QED
    BY <2>1, <2>2, <2>3, <1>1 DEF IInv, FreshIds, Events
<1>5. \A i \in 1 .. (Len(history') - 1) :
        history'[i].seq < e.seq /\ history'[i].id < e.id /\ history'[i] \in Events
  <2> SUFFICES ASSUME NEW i \in 1 .. (Len(history') - 1)
               PROVE  history'[i].seq < e.seq /\ history'[i].id < e.id
                      /\ history'[i] \in Events
    OBVIOUS
  <2>1. i + k \in DOMAIN history /\ history'[i] = history[i + k]
    BY <1>3
  <2>2. history[i + k].seq \in Nat /\ history[i + k].id \in Nat
    BY <2>1, <1>4 DEF Events
  <2> QED
    BY <2>1, <2>2, <1>1, <1>4
<1>6. HistoryOrdered'
  <2>1. history' # << >>
    BY <1>2
  <2>2. ASSUME NEW i \in DOMAIN history', NEW j \in DOMAIN history', i < j
        PROVE  history'[i].seq < history'[j].seq
    <3>1. i \in 1 .. (Len(history') - 1)
      BY <1>2, <2>2
    <3>2. CASE j = Len(history')
      BY <3>1, <3>2, <1>2, <1>5
    <3>3. CASE j \in 1 .. (Len(history') - 1)
      <4>1. i + k \in DOMAIN history /\ j + k \in DOMAIN history /\ i + k < j + k
        BY <3>1, <3>3, <1>3, <2>2
      <4>2. history[i + k].seq < history[j + k].seq
        BY <4>1 DEF IInv, HistoryOrdered
      <4> QED
        BY <4>2, <3>1, <3>3, <1>3
    <3> QED
      BY <3>2, <3>3, <1>2
  <2> QED
    BY <2>1, <2>2, <1>1, <1>2 DEF HistoryOrdered
<1>7. \A i \in DOMAIN history' : history'[i].id <= published'
  <2> SUFFICES ASSUME NEW i \in DOMAIN history' PROVE history'[i].id <= published'
    OBVIOUS
  <2>1. CASE i = Len(history')
    BY <2>1, <1>1, <1>2
  <2>2. CASE i \in 1 .. (Len(history') - 1)
    BY <2>2, <1>1, <1>5 DEF Events
  <2> QED
    BY <2>1, <2>2, <1>2
<1>8. Unique(history')
  <2> SUFFICES ASSUME NEW i \in DOMAIN history', NEW j \in DOMAIN history', i < j
               PROVE  history'[i].id # history'[j].id
    BY <1>2 DEF Unique
  <2>1. i \in 1 .. (Len(history') - 1)
    BY <1>2
  <2>2. CASE j = Len(history')
    BY <2>1, <2>2, <1>2, <1>5, <1>1, SMTT(20) DEF Events
  <2>3. CASE j \in 1 .. (Len(history') - 1)
    <3>1. i + k \in DOMAIN history /\ j + k \in DOMAIN history /\ i + k # j + k
      BY <2>1, <2>3, <1>3
    <3> QED
      BY <3>1, <2>1, <2>3, <1>3 DEF IInv, DistinctIds
  <2> QED
    BY <2>2, <2>3, <1>2
<1>9. /\ rows' \in SUBSET Events
      /\ \A r \in rows' : r.id <= published'
      /\ \A r, q \in rows' : r.id = q.id => r = q
  <2>1. \A r \in rows : r \in Events /\ r.id <= published /\ r.id \in Nat
    BY DEF IInv, TypeOK, FreshIds, Events
  <2>2. \A r \in rows' : r \in rows \/ r = e
    BY <1>1 DEF Replace
  <2> QED
    BY <2>1, <2>2, <1>1 DEF IInv, DistinctIds
<1>10. RowsHaveLast'
  <2>1. CASE rows' = rows
    BY <2>1 DEF IInv, RowsHaveLast
  <2>2. CASE rows' = Replace(rows, e)
    <3> DEFINE kept == { r \in rows : r.seq # e.seq }
    <3>1. rows' = kept \cup {e}
      BY <2>2 DEF Replace
    <3>2. IsFiniteSet(kept) /\ kept \subseteq rows
      BY FS_Subset DEF IInv, RowsHaveLast
    <3>3. IsFiniteSet(rows')
      BY <3>1, <3>2, FS_AddElement
    <3>4. \A r \in kept : r.seq \in Nat
      BY DEF IInv, TypeOK, Events
    <3>5. CASE \E r \in rows : r.seq > e.seq
      <4>1. PICK top \in rows : \A q \in rows : q.seq <= top.seq
        BY <3>5 DEF IInv, RowsHaveLast
      <4>2. \A r \in rows : r.seq \in Nat
        BY DEF IInv, TypeOK, Events
      <4>3. top \in kept /\ e.seq <= top.seq
        BY <3>5, <4>1, <4>2, <1>1
      <4> QED
        BY <4>1, <4>3, <3>1, <3>2, <3>3 DEF RowsHaveLast
    <3>6. CASE ~ \E r \in rows : r.seq > e.seq
      BY <3>6, <3>1, <3>2, <3>3, <3>4, <1>1 DEF RowsHaveLast
    <3> QED
      BY <3>5, <3>6
  <2> QED
    BY <2>1, <2>2, <1>1
<1> QED
  BY <1>1, <1>2, <1>6, <1>7, <1>8, <1>9, <1>10 DEF e

\* What a replay is, whether it comes from the deque or from the rows.
LEMMA ReplayFacts ==
  ASSUME IInv, NEW r \in Replays, HistoryFor(r)
  PROVE  /\ history' = r
         /\ r \in Seq(Events) /\ Len(r) <= MaxHistory
         /\ \A i \in DOMAIN r : r[i].id <= published
         /\ Unique(r)
         /\ sequence' \in Nat
         /\ HistoryOrdered'
<1>1. CASE history # << >> \/ rows = {}
  <2>1. r = history /\ history' = history /\ sequence' = sequence
    BY <1>1 DEF Replays, HistoryFor
  <2> QED
    BY <2>1 DEF IInv, TypeOK, FreshIds, DistinctIds, HistoryOrdered, Unique
<1>2. CASE ~(history # << >> \/ rows = {})
  <2>1. r \in Loads /\ rows # {} /\ history' = r /\ sequence' = r[Len(r)].seq
    BY <1>2 DEF Replays, HistoryFor
  <2>2. /\ r \in Seq(Events)
        /\ Len(r) \in 1 .. MaxHistory
        /\ \A i \in DOMAIN r : r[i] \in rows
        /\ \A i, j \in DOMAIN r : i < j => r[i].seq < r[j].seq
    BY <2>1, LoadFacts DEF IInv
  <2>3. DOMAIN r = 1 .. Len(r) /\ r # << >> /\ \A i \in DOMAIN r : r[i].seq \in Nat
    BY <2>2 DEF IInv, TypeOK, Events
  <2>4. HistoryOrdered'
    BY <2>1, <2>2, <2>3 DEF HistoryOrdered
  <2>5. Unique(r)
    <3> SUFFICES ASSUME NEW i \in DOMAIN r, NEW j \in DOMAIN r, i < j
                 PROVE  r[i].id # r[j].id
      BY <2>3 DEF Unique
    <3>1. r[i].seq < r[j].seq /\ r[i] \in rows /\ r[j] \in rows
      BY <2>2
    <3>2. r[i] # r[j]
      BY <3>1, <2>3
    <3> QED
      BY <3>1, <3>2 DEF IInv, DistinctIds
  <2> QED
    BY <2>1, <2>2, <2>3, <2>4, <2>5, BrokerAssumption DEF IInv, FreshIds
<1> QED
  BY <1>1, <1>2

\* What the loop over a snapshot does to the queues, cut short or not.
LEMMA OfferFacts ==
  ASSUME IInv, NEW e \in Events, NEW targets \in SUBSET Subscribers,
         \A s \in targets : e.id \notin Ids(stream[s]),
         Offer(e, targets)
  PROVE  /\ stream' \in [Subscribers -> Seq(Events)]
         /\ aborted' \in SUBSET (Nat \ {0})
         /\ aborted \subseteq aborted'
         /\ \A s \in Subscribers :
              /\ Len(stream[s]) <= Len(stream'[s])
              /\ Unique(stream'[s])
              /\ Ids(stream[s]) \subseteq Ids(stream'[s])
              /\ Ids(stream'[s]) \subseteq
                   Ids(stream[s]) \cup (IF s \in targets THEN {e.id} ELSE {})
         /\ \A s \in targets : e.id \in Ids(stream'[s]) \cup aborted'
<1>1. PICK lucky \in SUBSET targets :
        /\ Give(e, lucky)
        /\ \/ lucky = targets /\ aborted' = aborted
           \/ aborted' = aborted \cup {e.id}
  <2>1. CASE Full(targets) = {}
    BY <2>1 DEF Offer
  <2>2. CASE Full(targets) # {}
    BY <2>2 DEF Offer
  <2> QED
    BY <2>1, <2>2
<1>2. stream \in [Subscribers -> Seq(Events)] /\ aborted \in SUBSET (Nat \ {0})
  BY DEF IInv, TypeOK
<1>3. \A s \in Subscribers : Unique(stream[s])
  BY DEF IInv, NoDuplicateDelivery, Unique
<1>4. ASSUME NEW s \in Subscribers
      PROVE  /\ stream'[s] \in Seq(Events)
             /\ Len(stream[s]) <= Len(stream'[s])
             /\ Unique(stream'[s])
             /\ Ids(stream'[s]) = Ids(stream[s]) \cup (IF s \in lucky THEN {e.id} ELSE {})
  <2>1. stream[s] \in Seq(Events) /\ Len(stream[s]) \in Nat
    BY <1>2
  <2>2. CASE s \in lucky
    <3>1. stream'[s] = Append(stream[s], e)
      BY <1>1, <2>2 DEF Give
    <3> QED
      BY <3>1, <2>1, <2>2, <1>3, AppendIds
  <2>3. CASE s \notin lucky
    BY <2>1, <2>3, <1>1, <1>3 DEF Give
  <2> QED
    BY <2>2, <2>3
<1>5. stream' \in [Subscribers -> Seq(Events)]
  BY <1>1, <1>4 DEF Give
<1>6. aborted' \in SUBSET (Nat \ {0}) /\ aborted \subseteq aborted'
  BY <1>1, <1>2 DEF Events
<1> QED
  BY <1>1, <1>4, <1>5, <1>6

\* The initial state satisfies the inductive invariant.
LEMMA InitInv == Init => IInv
<1> SUFFICES ASSUME Init PROVE IInv
  OBVIOUS
<1> USE BrokerAssumption DEF Init
<1>1. TypeOK
  BY DEF TypeOK
<1>2. RowsHaveLast
  BY FS_EmptySet DEF RowsHaveLast
<1>3. FreshIds /\ DistinctIds /\ HistoryOrdered
  BY DEF FreshIds, DistinctIds, HistoryOrdered
<1>4. NewcomersUntouched /\ NoDuplicateDelivery /\ NoSilentGap
  BY DEF NewcomersUntouched, NoDuplicateDelivery, NoSilentGap, InFlight, Registered
<1> QED
  BY <1>1, <1>2, <1>3, <1>4 DEF IInv

\* The identities of events, said of whole queues.
LEMMA StreamIds ==
  ASSUME IInv, NEW s \in Subscribers
  PROVE  /\ stream[s] \in Seq(Events)
         /\ \A n \in Ids(stream[s]) : n \in Nat /\ n <= published
         /\ \A n \in InFlight(s) : n \in Nat /\ n <= published
         /\ Unique(stream[s])
         /\ Ids(stream[s]) \cap InFlight(s) = {}
<1>1. stream[s] \in Seq(Events)
  BY DEF IInv, TypeOK
<1>2. \A n \in Ids(stream[s]) : n \in Nat /\ n <= published
  <2>1. \A i \in DOMAIN stream[s] : stream[s][i] \in Events /\ stream[s][i].id <= published
    BY <1>1 DEF IInv, FreshIds
  <2> QED
    BY <2>1 DEF Ids, Events
<1>3. \A n \in InFlight(s) : n \in Nat /\ n <= published
  BY DEF IInv, TypeOK, FreshIds, InFlight, Calls, Events
<1>4. Unique(stream[s]) /\ Ids(stream[s]) \cap InFlight(s) = {}
  BY DEF IInv, NoDuplicateDelivery, Unique
<1> QED
  BY <1>1, <1>2, <1>3, <1>4

\* publish() resumes: its event moves from the suspended call to the queues.
LEMMA EndStep ==
  ASSUME IInv, NEW p \in Publishers, PublishEnd(p)
  PROVE  IInv'
<1>1. PICK c \in suspended : Offer(c.event, c.to) /\ suspended' = suspended \ {c}
  BY DEF PublishEnd
<1>2. UNCHANGED << store, sockets, counters >>
  BY DEF PublishEnd
<1> DEFINE e == c.event
           to == c.to
<1>3. e \in Events /\ to \in SUBSET Subscribers /\ e.id <= published
  BY <1>1 DEF IInv, TypeOK, Calls, FreshIds
<1>4. \A s \in to : e.id \in InFlight(s)
  BY <1>1 DEF InFlight
<1>5. \A s \in to : e.id \notin Ids(stream[s])
  BY <1>3, <1>4, StreamIds
<1>6. /\ stream' \in [Subscribers -> Seq(Events)]
      /\ aborted' \in SUBSET (Nat \ {0})
      /\ aborted \subseteq aborted'
      /\ \A s \in Subscribers :
           /\ Len(stream[s]) <= Len(stream'[s])
           /\ Unique(stream'[s])
           /\ Ids(stream[s]) \subseteq Ids(stream'[s])
           /\ Ids(stream'[s]) \subseteq
                Ids(stream[s]) \cup (IF s \in to THEN {e.id} ELSE {})
      /\ \A s \in to : e.id \in Ids(stream'[s]) \cup aborted'
  <2>1. Offer(e, to)
    BY <1>1
  <2> HIDE DEF e, to
  <2> QED
    BY <2>1, <1>3, <1>5, OfferFacts
<1>7. \A s \in Subscribers :
        /\ InFlight(s)' \subseteq InFlight(s) \ {e.id}
        /\ InFlight(s) \subseteq InFlight(s)' \cup (IF s \in to THEN {e.id} ELSE {})
  <2>1. \A d \in suspended' : d \in suspended /\ d.event.id # e.id
    BY <1>1 DEF IInv, DistinctIds
  <2>2. \A d \in suspended : d = c \/ d \in suspended'
    BY <1>1
  <2> QED
    BY <2>1, <2>2 DEF InFlight
<1>8. TypeOK'
  <2>1. \A s \in Subscribers : got'[s] <= Len(stream'[s]) /\ replayed'[s] <= Len(stream'[s])
    <3> SUFFICES ASSUME NEW s \in Subscribers
                 PROVE  got'[s] <= Len(stream'[s]) /\ replayed'[s] <= Len(stream'[s])
      OBVIOUS
    <3>1. stream[s] \in Seq(Events) /\ stream'[s] \in Seq(Events)
      BY <1>6 DEF IInv, TypeOK
    <3>2. Len(stream[s]) \in Nat /\ Len(stream'[s]) \in Nat
      BY <3>1
    <3>3. /\ got[s] \in Nat /\ replayed[s] \in Nat
          /\ got[s] <= Len(stream[s]) /\ replayed[s] <= Len(stream[s])
      BY DEF IInv, TypeOK
    <3> QED
      BY <3>2, <3>3, <1>2, <1>6 DEF sockets
  <2>2. suspended' \in SUBSET Calls
    BY <1>1 DEF IInv, TypeOK
  <2> QED
    BY <2>1, <2>2, <1>2, <1>6 DEF IInv, TypeOK, store, sockets, counters
<1>9. FreshIds' /\ DistinctIds' /\ RowsHaveLast' /\ HistoryOrdered'
  <2>1. \A s \in Subscribers : \A n \in Ids(stream'[s]) : n <= published
    BY <1>3, <1>6, StreamIds
  <2>2. \A s \in Subscribers : \A i \in DOMAIN stream'[s] : stream'[s][i].id <= published'
    BY <2>1, <1>2 DEF Ids, store
  <2> QED
    BY <2>2, <1>1, <1>2
       DEF IInv, FreshIds, DistinctIds, RowsHaveLast, HistoryOrdered, store
<1>10. NewcomersUntouched'
  BY <1>2, <1>7 DEF IInv, NewcomersUntouched, sockets
<1>11. NoDuplicateDelivery'
  <2>1. \A s \in Subscribers : Ids(stream'[s]) \cap InFlight(s)' = {}
    BY <1>6, <1>7, StreamIds
  <2> QED
    BY <2>1, <1>6 DEF NoDuplicateDelivery, Unique
<1>12. NoSilentGap'
  BY <1>2, <1>6, <1>7 DEF IInv, NoSilentGap, Registered, sockets, store
<1> QED
  BY <1>8, <1>9, <1>10, <1>11, <1>12 DEF IInv

\* publish() numbers its event and suspends: the event is in flight to those
\* registered now.
LEMMA BeginStep ==
  ASSUME IInv, NEW p \in Publishers, PublishBegin(p)
  PROVE  IInv'
<1> DEFINE e == NextEvent(p)
<1>1. /\ Number(e)
      /\ suspended' = suspended \cup {[event |-> e, to |-> Registered]}
      /\ UNCHANGED << redis, queues, sockets, counters >>
  BY DEF PublishBegin
<1>2. /\ e \in Events /\ e.id = published + 1
      /\ published' = published + 1 /\ sequence' \in Nat
      /\ history' \in Seq(Events) /\ Len(history') <= MaxHistory
      /\ rows' \in SUBSET Events
      /\ HistoryOrdered' /\ RowsHaveLast'
      /\ \A i \in DOMAIN history' : history'[i].id <= published'
      /\ Unique(history')
      /\ \A r \in rows' : r.id <= published'
      /\ \A r, q \in rows' : r.id = q.id => r = q
  BY <1>1, NumberFacts
<1> HIDE DEF e
<1>3. published \in Nat /\ published' \in Nat /\ published < published'
  BY <1>2 DEF IInv, TypeOK
<1>4. [event |-> e, to |-> Registered] \in Calls
  BY <1>2 DEF Calls, Registered
<1>5. TypeOK'
  BY <1>1, <1>2, <1>3, <1>4 DEF IInv, TypeOK, queues, sockets, counters
<1>6. \A c \in suspended : c.event.id <= published /\ c.event.id \in Nat
  BY DEF IInv, TypeOK, FreshIds, Calls, Events
<1>7. FreshIds'
  <2>1. \A c \in suspended' : c.event.id <= published'
    BY <1>1, <1>2, <1>3, <1>6
  <2>2. \A s \in Subscribers : \A i \in DOMAIN stream'[s] : stream'[s][i].id <= published'
    <3>1. \A s \in Subscribers : \A n \in Ids(stream[s]) : n <= published'
      BY <1>3, StreamIds
    <3> QED
      BY <3>1, <1>1 DEF Ids, queues
  <2> QED
    BY <2>1, <2>2, <1>2 DEF FreshIds
<1>8. DistinctIds'
  <2>1. \A c, d \in suspended' : c.event.id = d.event.id => c = d
    BY <1>1, <1>2, <1>3, <1>6 DEF IInv, DistinctIds
  <2> QED
    BY <2>1, <1>2 DEF DistinctIds, Unique
<1>9. \A s \in Subscribers :
        InFlight(s)' = InFlight(s) \cup (IF s \in Registered THEN {e.id} ELSE {})
  <2> DEFINE new == [event |-> e, to |-> Registered]
  <2>1. new.event = e /\ new.to = Registered /\ suspended' = suspended \cup {new}
    BY <1>1
  <2> HIDE DEF new
  <2> SUFFICES ASSUME NEW s \in Subscribers
               PROVE  InFlight(s)' =
                        InFlight(s) \cup (IF s \in Registered THEN {e.id} ELSE {})
    OBVIOUS
  <2>2. CASE s \in Registered
    BY <2>1, <2>2 DEF InFlight
  <2>3. CASE s \notin Registered
    BY <2>1, <2>3 DEF InFlight
  <2> QED
    BY <2>2, <2>3
<1>10. NewcomersUntouched'
  BY <1>1, <1>9 DEF IInv, NewcomersUntouched, Registered, sockets
<1>11. NoDuplicateDelivery'
  <2>1. \A s \in Subscribers : Ids(stream'[s]) \cap InFlight(s)' = {}
    <3> SUFFICES ASSUME NEW s \in Subscribers PROVE Ids(stream[s]) \cap InFlight(s)' = {}
      BY <1>1 DEF queues
    <3>1. e.id \notin Ids(stream[s])
      BY <1>2, <1>3, StreamIds
    <3> QED
      BY <3>1, <1>9, StreamIds
  <2> QED
    BY <2>1, <1>1 DEF IInv, NoDuplicateDelivery, queues
<1>12. NoSilentGap'
  <2> SUFFICES ASSUME NEW s \in Registered, NEW n \in (joined[s] + 1) .. published'
               PROVE  n \in Ids(stream[s]) \cup InFlight(s)' \cup aborted
    BY <1>1 DEF NoSilentGap, Registered, sockets, queues
  <2>1. s \in Subscribers /\ joined[s] \in Nat
    BY DEF Registered, IInv, TypeOK
  <2>2. CASE n = e.id
    BY <2>1, <2>2, <1>9
  <2>3. CASE n \in (joined[s] + 1) .. published
    BY <2>1, <2>3, <1>9 DEF IInv, NoSilentGap
  <2> QED
    BY <2>1, <2>2, <2>3, <1>2, <1>3
<1> QED
  BY <1>2, <1>5, <1>7, <1>8, <1>10, <1>11, <1>12 DEF IInv

\* Without Redis numbering and delivery are one step.
LEMMA AtOnceStep ==
  ASSUME IInv, NEW p \in Publishers, PublishAtOnce(p)
  PROVE  IInv'
<1> DEFINE e == NextEvent(p)
<1>1. /\ Number(e)
      /\ Offer(e, Registered)
      /\ UNCHANGED << redis, suspended, sockets, counters >>
  BY DEF PublishAtOnce
<1>2. /\ e \in Events /\ e.id = published + 1
      /\ published' = published + 1 /\ sequence' \in Nat
      /\ history' \in Seq(Events) /\ Len(history') <= MaxHistory
      /\ rows' \in SUBSET Events
      /\ HistoryOrdered' /\ RowsHaveLast'
      /\ \A i \in DOMAIN history' : history'[i].id <= published'
      /\ Unique(history')
      /\ \A r \in rows' : r.id <= published'
      /\ \A r, q \in rows' : r.id = q.id => r = q
  BY <1>1, NumberFacts
<1> HIDE DEF e
<1>3. published \in Nat /\ published' \in Nat /\ published < published'
  BY <1>2 DEF IInv, TypeOK
<1>4. Registered \in SUBSET Subscribers /\ \A s \in Registered : e.id \notin Ids(stream[s])
  <2>1. Registered \in SUBSET Subscribers
    BY DEF Registered
  <2> QED
    BY <2>1, <1>2, <1>3, StreamIds
<1>5. /\ stream' \in [Subscribers -> Seq(Events)]
      /\ aborted' \in SUBSET (Nat \ {0})
      /\ aborted \subseteq aborted'
      /\ \A s \in Subscribers :
           /\ Len(stream[s]) <= Len(stream'[s])
           /\ Unique(stream'[s])
           /\ Ids(stream[s]) \subseteq Ids(stream'[s])
           /\ Ids(stream'[s]) \subseteq
                Ids(stream[s]) \cup (IF s \in Registered THEN {e.id} ELSE {})
      /\ \A s \in Registered : e.id \in Ids(stream'[s]) \cup aborted'
  BY <1>1, <1>2, <1>4, OfferFacts
<1>6. \A s \in Subscribers : InFlight(s)' = InFlight(s)
  BY <1>1 DEF InFlight
<1>7. TypeOK'
  <2>1. \A s \in Subscribers : got'[s] <= Len(stream'[s]) /\ replayed'[s] <= Len(stream'[s])
    <3> SUFFICES ASSUME NEW s \in Subscribers
                 PROVE  got'[s] <= Len(stream'[s]) /\ replayed'[s] <= Len(stream'[s])
      OBVIOUS
    <3>1. stream[s] \in Seq(Events) /\ stream'[s] \in Seq(Events)
      BY <1>5 DEF IInv, TypeOK
    <3>2. Len(stream[s]) \in Nat /\ Len(stream'[s]) \in Nat
      BY <3>1
    <3>3. /\ got[s] \in Nat /\ replayed[s] \in Nat
          /\ got[s] <= Len(stream[s]) /\ replayed[s] <= Len(stream[s])
      BY DEF IInv, TypeOK
    <3> QED
      BY <3>2, <3>3, <1>1, <1>5 DEF sockets
  <2> QED
    BY <2>1, <1>1, <1>2, <1>3, <1>5 DEF IInv, TypeOK, sockets, counters
<1>8. FreshIds'
  <2>1. ASSUME NEW s \in Subscribers, NEW n \in Ids(stream'[s]) PROVE n <= published'
    <3>1. n \in Ids(stream[s]) \/ n = e.id
      BY <1>5
    <3>2. n \in Ids(stream[s]) => n \in Nat /\ n <= published
      BY StreamIds
    <3> QED
      BY <3>1, <3>2, <1>2, <1>3
  <2>2. \A s \in Subscribers : \A i \in DOMAIN stream'[s] : stream'[s][i].id <= published'
    BY <2>1 DEF Ids
  <2>3. \A c \in suspended' : c.event.id <= published'
    <3>1. \A c \in suspended : c.event.id <= published /\ c.event.id \in Nat
      BY DEF IInv, TypeOK, FreshIds, Calls, Events
    <3> QED
      BY <3>1, <1>1, <1>3
  <2> QED
    BY <2>2, <2>3, <1>2 DEF FreshIds
<1>9. DistinctIds'
  BY <1>1, <1>2 DEF IInv, DistinctIds, Unique
<1>10. NewcomersUntouched'
  BY <1>1, <1>6 DEF IInv, NewcomersUntouched, sockets
<1>11. NoDuplicateDelivery'
  <2>1. \A s \in Subscribers : Ids(stream'[s]) \cap InFlight(s)' = {}
    <3> SUFFICES ASSUME NEW s \in Subscribers PROVE Ids(stream'[s]) \cap InFlight(s) = {}
      BY <1>6
    <3>1. e.id \notin InFlight(s)
      BY <1>2, <1>3, StreamIds
    <3> QED
      BY <3>1, <1>5, StreamIds
  <2> QED
    BY <2>1, <1>5 DEF NoDuplicateDelivery, Unique
<1>12. NoSilentGap'
  <2> SUFFICES ASSUME NEW s \in Registered, NEW n \in (joined[s] + 1) .. published'
               PROVE  n \in Ids(stream'[s]) \cup InFlight(s) \cup aborted'
    BY <1>1, <1>6 DEF NoSilentGap, Registered, sockets
  <2>1. s \in Subscribers /\ joined[s] \in Nat
    BY DEF Registered, IInv, TypeOK
  <2>2. CASE n = e.id
    BY <2>2, <1>5
  <2>3. CASE n \in (joined[s] + 1) .. published
    BY <2>1, <2>3, <1>5 DEF IInv, NoSilentGap
  <2> QED
    BY <2>1, <2>2, <2>3, <1>2, <1>3
<1> QED
  BY <1>2, <1>7, <1>8, <1>9, <1>10, <1>11, <1>12 DEF IInv

\* The publisher is cancelled: its event is in the history and reaches nobody.
LEMMA CancelStep ==
  ASSUME IInv, NEW p \in Publishers, CancelPublish(p)
  PROVE  IInv'
<1>1. PICK c \in suspended : aborted' = aborted \cup {c.event.id}
                             /\ suspended' = suspended \ {c}
  BY DEF CancelPublish
<1>2. /\ UNCHANGED << store, stream, sockets, clears, restarts >>
      /\ cancels' = cancels + 1
  BY DEF CancelPublish
<1>3. c \in Calls /\ c.event.id \in Nat \ {0}
  BY <1>1 DEF IInv, TypeOK, Calls, Events
<1>4. TypeOK'
  <2>1. suspended' \in SUBSET Calls
    BY <1>1 DEF IInv, TypeOK
  <2>2. aborted' \in SUBSET (Nat \ {0})
    BY <1>1, <1>3 DEF IInv, TypeOK
  <2>3. cancels' \in Nat
    BY <1>2 DEF IInv, TypeOK
  <2> QED
    BY <2>1, <2>2, <2>3, <1>2 DEF IInv, TypeOK, store, sockets
<1>5. \A s \in Subscribers : /\ InFlight(s)' \subseteq InFlight(s)
                              /\ InFlight(s) \subseteq InFlight(s)' \cup aborted'
  <2>1. \A d \in suspended : d.event.id = c.event.id \/ d \in suspended'
    BY <1>1
  <2> QED
    BY <2>1, <1>1 DEF InFlight
<1>6. FreshIds' /\ DistinctIds' /\ RowsHaveLast' /\ HistoryOrdered'
  BY <1>1, <1>2 DEF IInv, FreshIds, DistinctIds, RowsHaveLast, HistoryOrdered, store
<1>7. NewcomersUntouched' /\ NoDuplicateDelivery'
  BY <1>2, <1>5 DEF IInv, NewcomersUntouched, NoDuplicateDelivery, sockets
<1>8. NoSilentGap'
  BY <1>1, <1>2, <1>5 DEF IInv, NoSilentGap, Registered, sockets, store
<1> QED
  BY <1>4, <1>6, <1>7, <1>8 DEF IInv

\* A client connects: it gets what is remembered, and from then on every event.
LEMMA SubscribeStep ==
  ASSUME IInv, NEW s \in Subscribers, Subscribe(s)
  PROVE  IInv'
<1>1. PICK r \in Replays :
        /\ HistoryFor(r)
        /\ stream' = [stream EXCEPT ![s] = r]
        /\ replayed' = [replayed EXCEPT ![s] = Len(r)]
  BY DEF Subscribe
<1>2. /\ conn[s] = "new"
      /\ conn' = [conn EXCEPT ![s] = "open"]
      /\ joined' = [joined EXCEPT ![s] = published]
      /\ UNCHANGED << redis, published, rows, got, suspended, aborted, counters >>
  BY DEF Subscribe
<1>3. /\ history' = r
      /\ r \in Seq(Events) /\ Len(r) <= MaxHistory /\ Len(r) \in Nat
      /\ \A i \in DOMAIN r : r[i].id <= published
      /\ Unique(r)
      /\ sequence' \in Nat
      /\ HistoryOrdered'
  BY <1>1, ReplayFacts
<1>4. stream'[s] = r /\ \A q \in Subscribers : q # s => stream'[q] = stream[q]
  BY <1>1 DEF IInv, TypeOK
<1>5. InFlight(s) = {} /\ got[s] = 0 /\ \A q \in Subscribers : InFlight(q)' = InFlight(q)
  BY <1>2 DEF IInv, NewcomersUntouched, InFlight
<1>6. TypeOK'
  <2>1. /\ stream' \in [Subscribers -> Seq(Events)]
        /\ replayed' \in [Subscribers -> Nat]
        /\ conn' \in [Subscribers -> {"new", "open", "closed"}]
        /\ joined' \in [Subscribers -> Nat]
    BY <1>1, <1>2, <1>3 DEF IInv, TypeOK
  <2>2. \A q \in Subscribers : got'[q] <= Len(stream'[q]) /\ replayed'[q] <= Len(stream'[q])
    <3>1. got'[s] = 0 /\ replayed'[s] = Len(r) /\ stream'[s] = r
      BY <1>1, <1>2, <1>4, <1>5 DEF IInv, TypeOK
    <3>2. \A q \in Subscribers : q # s => /\ got'[q] = got[q]
                                          /\ replayed'[q] = replayed[q]
                                          /\ stream'[q] = stream[q]
      BY <1>1, <1>2, <1>4 DEF IInv, TypeOK
    <3>3. \A q \in Subscribers : got[q] <= Len(stream[q]) /\ replayed[q] <= Len(stream[q])
      BY DEF IInv, TypeOK
    <3> QED
      BY <3>1, <3>2, <3>3, <1>3
  <2> QED
    BY <2>1, <2>2, <1>2, <1>3 DEF IInv, TypeOK, counters
<1>7. FreshIds' /\ DistinctIds' /\ RowsHaveLast'
  <2>1. \A q \in Subscribers : \A i \in DOMAIN stream'[q] : stream'[q][i].id <= published
    BY <1>3, <1>4 DEF IInv, FreshIds
  <2> QED
    BY <2>1, <1>2, <1>3 DEF IInv, FreshIds, DistinctIds, RowsHaveLast, Unique
<1>8. NewcomersUntouched'
  BY <1>2, <1>5 DEF IInv, TypeOK, NewcomersUntouched
<1>9. NoDuplicateDelivery'
  BY <1>3, <1>4, <1>5 DEF IInv, NoDuplicateDelivery, Unique
<1>10. NoSilentGap'
  <2> SUFFICES ASSUME NEW q \in Subscribers, conn'[q] = "open",
                      NEW n \in (joined'[q] + 1) .. published
               PROVE  n \in Ids(stream'[q]) \cup InFlight(q) \cup aborted
    BY <1>2, <1>5 DEF NoSilentGap, Registered
  <2>1. q # s
    <3>1. joined'[s] = published /\ published \in Nat
      BY <1>2 DEF IInv, TypeOK
    <3> QED
      BY <3>1
  <2>2. conn[q] = "open" /\ joined'[q] = joined[q] /\ stream'[q] = stream[q]
    BY <2>1, <1>2, <1>4 DEF IInv, TypeOK
  <2> QED
    BY <2>2 DEF IInv, NoSilentGap, Registered
<1> QED
  BY <1>3, <1>6, <1>7, <1>8, <1>9, <1>10 DEF IInv

\* The other steps of a connection.
LEMMA ConnectionStep ==
  ASSUME IInv, NEW s \in Subscribers, Receive(s) \/ Unsubscribe(s)
  PROVE  IInv'
<1>1. /\ UNCHANGED << store, queues, replayed, joined, suspended, counters >>
      /\ conn[s] = "open"
      /\ \/ conn' = conn /\ got[s] < Len(stream[s]) /\ got' = [got EXCEPT ![s] = got[s] + 1]
         \/ conn' = [conn EXCEPT ![s] = "closed"] /\ got' = got
  BY DEF Receive, Unsubscribe
<1>2. \A q \in Subscribers : InFlight(q)' = InFlight(q)
  BY <1>1 DEF InFlight
<1>3. TypeOK'
  <2>1. got' \in [Subscribers -> Nat]
    <3>1. got \in [Subscribers -> Nat]
      BY DEF IInv, TypeOK
    <3> QED
      BY <3>1, <1>1
  <2>2. conn' \in [Subscribers -> {"new", "open", "closed"}]
    BY <1>1 DEF IInv, TypeOK
  <2>3. \A q \in Subscribers : got'[q] <= Len(stream[q])
    <3> SUFFICES ASSUME NEW q \in Subscribers PROVE got'[q] <= Len(stream[q])
      OBVIOUS
    <3>1. stream[q] \in Seq(Events) /\ got[q] \in Nat /\ got[q] <= Len(stream[q])
      BY DEF IInv, TypeOK
    <3>2. Len(stream[q]) \in Nat
      BY <3>1
    <3>3. got'[q] = got[q] \/ (q = s /\ got'[q] = got[q] + 1 /\ got[q] < Len(stream[q]))
      BY <1>1 DEF IInv, TypeOK
    <3> QED
      BY <3>1, <3>2, <3>3
  <2> QED
    BY <2>1, <2>2, <2>3, <1>1 DEF IInv, TypeOK, store, queues, counters
<1>4. FreshIds' /\ DistinctIds' /\ RowsHaveLast' /\ HistoryOrdered' /\ NoDuplicateDelivery'
  BY <1>1, <1>2 DEF IInv, FreshIds, DistinctIds, RowsHaveLast, HistoryOrdered,
                    NoDuplicateDelivery, store, queues
<1>5. NewcomersUntouched'
  <2>1. \A q \in Subscribers : conn'[q] = "new" => conn[q] = "new" /\ got'[q] = got[q]
    BY <1>1 DEF IInv, TypeOK
  <2> QED
    BY <2>1, <1>2 DEF IInv, NewcomersUntouched
<1>6. NoSilentGap'
  <2>1. \A q \in Subscribers : conn'[q] = "open" => conn[q] = "open"
    BY <1>1 DEF IInv, TypeOK
  <2> QED
    BY <2>1, <1>1, <1>2 DEF IInv, NoSilentGap, Registered, store, queues
<1> QED
  BY <1>3, <1>4, <1>5, <1>6 DEF IInv

\* Reading the history, and clearing it.
LEMMA HistoryStep ==
  ASSUME IInv, ReadHistory \/ DeleteSession \/ CreateSession
  PROVE  IInv'
<1>1. /\ UNCHANGED << redis, published, queues, sockets, suspended, cancels, restarts >>
      /\ rows' \in {rows, {}} /\ clears' \in Nat
  BY DEF ReadHistory, DeleteSession, CreateSession, counters, IInv, TypeOK
<1>2. /\ history' \in Seq(Events) /\ Len(history') <= MaxHistory
      /\ \A i \in DOMAIN history' : history'[i].id <= published
      /\ Unique(history')
      /\ sequence' \in Nat
      /\ HistoryOrdered'
  <2>1. CASE ReadHistory
    <3>1. PICK r \in Replays : HistoryFor(r)
      BY <2>1 DEF ReadHistory
    <3> QED
      BY <3>1, ReplayFacts
  <2>2. CASE DeleteSession \/ CreateSession
    <3>1. history' = << >> /\ sequence' = 0
      BY <2>2 DEF DeleteSession, CreateSession
    <3> QED
      BY <3>1, BrokerAssumption DEF HistoryOrdered, Unique
  <2> QED
    BY <2>1, <2>2
<1>3. \A q \in Subscribers : InFlight(q)' = InFlight(q)
  BY <1>1 DEF InFlight
<1>4. TypeOK'
  BY <1>1, <1>2 DEF IInv, TypeOK, queues, sockets
<1>5. RowsHaveLast'
  BY <1>1, FS_EmptySet DEF IInv, RowsHaveLast
<1>6. FreshIds' /\ DistinctIds'
  BY <1>1, <1>2 DEF IInv, FreshIds, DistinctIds, Unique, queues
<1>7. NewcomersUntouched' /\ NoDuplicateDelivery' /\ NoSilentGap'
  BY <1>1, <1>3 DEF IInv, NewcomersUntouched, NoDuplicateDelivery, NoSilentGap,
                    Registered, queues, sockets
<1> QED
  BY <1>2, <1>4, <1>5, <1>6, <1>7 DEF IInv

\* A restart loses memory and connections; nobody is registered afterwards.
LEMMA RestartStep == ASSUME IInv, Restart PROVE IInv'
<1>1. /\ redis' \in BOOLEAN /\ history' = << >> /\ sequence' = 0 /\ suspended' = {}
      /\ restarts' = restarts + 1
      /\ UNCHANGED << published, rows, stream, replayed, got, joined, cancels, clears >>
  BY DEF Restart
<1>2. \A q \in Subscribers : conn'[q] = (IF conn[q] = "open" THEN "closed" ELSE conn[q])
  BY DEF Restart
<1>3. Registered' = {}
  BY <1>2 DEF Registered
<1>4. \A q \in Subscribers : InFlight(q)' = {}
  BY <1>1 DEF InFlight
<1>5. TypeOK'
  <2>1. aborted' \in SUBSET (Nat \ {0})
    BY DEF Restart, IInv, TypeOK, Calls, Events
  <2>2. conn' \in [Subscribers -> {"new", "open", "closed"}]
    BY DEF Restart, IInv, TypeOK
  <2> QED
    BY <2>1, <2>2, <1>1, BrokerAssumption DEF IInv, TypeOK
<1>6. FreshIds' /\ DistinctIds' /\ RowsHaveLast' /\ HistoryOrdered'
  BY <1>1 DEF IInv, FreshIds, DistinctIds, RowsHaveLast, HistoryOrdered
<1>7. NewcomersUntouched'
  BY <1>1, <1>2, <1>4 DEF IInv, NewcomersUntouched
<1>8. NoDuplicateDelivery'
  BY <1>1, <1>4 DEF IInv, NoDuplicateDelivery
<1>9. NoSilentGap'
  BY <1>3 DEF NoSilentGap
<1> QED
  BY <1>5, <1>6, <1>7, <1>8, <1>9 DEF IInv

\* The inductive step.
LEMMA StepInv == IInv /\ [Next]_vars => IInv'
<1> SUFFICES ASSUME IInv, [Next]_vars PROVE IInv'
  OBVIOUS
<1>1. CASE UNCHANGED vars
  <2>1. TypeOK'
    BY <1>1 DEF vars, IInv, TypeOK
  <2>2. FreshIds' /\ DistinctIds' /\ RowsHaveLast' /\ HistoryOrdered'
    BY <1>1 DEF vars, IInv, FreshIds, DistinctIds, RowsHaveLast, HistoryOrdered
  <2>3. NewcomersUntouched' /\ NoDuplicateDelivery' /\ NoSilentGap'
    BY <1>1 DEF vars, IInv, NewcomersUntouched, NoDuplicateDelivery, NoSilentGap,
                InFlight, Registered
  <2> QED
    BY <2>1, <2>2, <2>3 DEF IInv
<1>2. ASSUME NEW p \in Publishers, Publish(p) PROVE IInv'
  BY <1>2, BeginStep, EndStep, AtOnceStep, CancelStep DEF Publish
<1>3. ASSUME NEW s \in Subscribers, Connection(s) PROVE IInv'
  BY <1>3, SubscribeStep, ConnectionStep DEF Connection
<1> QED
  BY <1>1, <1>2, <1>3, HistoryStep, RestartStep DEF Next

\* Every reachable state satisfies the strengthening.
LEMMA Inductive == Spec => []IInv
<1> QED
  BY InitInv, StepInv, PTL DEF Spec

\* The history never outgrows the bound of its deque, and no client is further
\* than the end of what it was given.
THEOREM TypeCorrect == Spec => []TypeOK
<1>1. IInv => TypeOK
  BY DEF IInv
<1> QED
  BY <1>1, Inductive, PTL

\* The remembered events are numbered upwards and the counter stands at the last
\* one, whatever is cleared, lost in a restart or loaded back from SQLite.
THEOREM HistoryStaysOrdered == Spec => []HistoryOrdered
<1>1. IInv => HistoryOrdered
  BY DEF IInv
<1> QED
  BY <1>1, Inductive, PTL

\* subscribe() and publish() never hand one event to a client twice, for any
\* number of clients and of publishers suspended at once.
THEOREM DeliveredAtMostOnce == Spec => []NoDuplicateDelivery
<1>1. IInv => NoDuplicateDelivery
  BY DEF IInv
<1> QED
  BY <1>1, Inductive, PTL

\* A connected client misses an event only when its publish() was cut short.
THEOREM NoEventMissed == Spec => []NoSilentGap
<1>1. IInv => NoSilentGap
  BY DEF IInv
<1> QED
  BY <1>1, Inductive, PTL

----------------------------------------------------------------------------
\* The order a client sees.  Numbers only grow while nothing is cleared and the
\* process lives; so an event in a suspended publish() that s will be given differs
\* from all s was given, and is later than those of the same publisher.
InOrder(q, all) ==
  \A i, j \in DOMAIN q :
    i < j => /\ q[i].seq # q[j].seq
             /\ all \/ q[i].by = q[j].by => q[i].seq < q[j].seq

\* e may be put behind the events of q.
Follows(q, e, all) ==
  \A i \in DOMAIN q : /\ q[i].seq # e.seq
                      /\ all \/ q[i].by = e.by => q[i].seq < e.seq

Numbered ==
  clears = 0 =>
    /\ ~redis => suspended = {}
    /\ \A c \in suspended : c.event.seq <= sequence
    /\ \A c, d \in suspended : c # d => c.event.seq # d.event.seq /\ c.event.by # d.event.by
    /\ \A s \in Registered :
         /\ \A i \in DOMAIN stream[s] : stream[s][i].seq <= sequence
         /\ \A c \in suspended : s \in c.to => Follows(stream[s], c.event, FALSE)
         /\ InOrder(stream[s], ~redis)

\* A queue in order stays so when an event that may follow is appended.
LEMMA AppendOrder ==
  ASSUME NEW q \in Seq(Events), NEW e \in Events, NEW all \in BOOLEAN,
         InOrder(q, all), Follows(q, e, all)
  PROVE  /\ InOrder(Append(q, e), all)
         /\ \A i \in DOMAIN Append(q, e) : \/ i \in DOMAIN q /\ Append(q, e)[i] = q[i]
                                           \/ Append(q, e)[i] = e
<1>1. /\ Len(q) \in Nat /\ DOMAIN q = 1 .. Len(q)
      /\ DOMAIN Append(q, e) = 1 .. (Len(q) + 1)
      /\ \A i \in 1 .. Len(q) : Append(q, e)[i] = q[i]
      /\ Append(q, e)[Len(q) + 1] = e
  BY AppendProperties, LenProperties
<1>2. ASSUME NEW i \in 1 .. (Len(q) + 1), NEW j \in 1 .. (Len(q) + 1), i < j
      PROVE  /\ Append(q, e)[i].seq # Append(q, e)[j].seq
             /\ all \/ Append(q, e)[i].by = Append(q, e)[j].by
                  => Append(q, e)[i].seq < Append(q, e)[j].seq
  <2>1. i \in 1 .. Len(q) /\ Append(q, e)[i] = q[i]
    BY <1>1, <1>2
  <2>2. CASE j \in 1 .. Len(q)
    BY <1>1, <1>2, <2>1, <2>2 DEF InOrder
  <2>3. CASE j = Len(q) + 1
    BY <1>1, <2>1, <2>3 DEF Follows
  <2> QED
    BY <1>1, <2>2, <2>3
<1>3. InOrder(Append(q, e), all)
  BY <1>1, <1>2 DEF InOrder
<1> QED
  BY <1>1, <1>3

\* Numbers are positive.
LEMMA EventsTyped ==
  /\ \A q \in Seq(Events) : \A i \in DOMAIN q : q[i] \in Events /\ q[i].seq \in Nat \ {0}
  /\ IInv => /\ \A c \in suspended : c.event \in Events /\ c.event.seq \in Nat \ {0}
             /\ \A s \in Subscribers : stream[s] \in Seq(Events)
             /\ Registered \subseteq Subscribers
<1>1. ASSUME NEW q \in Seq(Events), NEW i \in DOMAIN q PROVE q[i] \in Events
  OBVIOUS
<1>2. \A e \in Events : e.seq \in Nat \ {0}
  BY DEF Events
<1>3. IInv => /\ \A c \in suspended : c.event \in Events
              /\ \A s \in Subscribers : stream[s] \in Seq(Events)
  BY DEF IInv, TypeOK, Calls
<1> QED
  BY <1>1, <1>2, <1>3 DEF Registered

\* What the loop over a snapshot does to one queue.
LEMMA OfferGives ==
  ASSUME NEW e, NEW targets \in SUBSET Subscribers, Offer(e, targets), NEW s \in Subscribers
  PROVE  stream'[s] = stream[s] \/ (s \in targets /\ stream'[s] = Append(stream[s], e))
BY DEF Offer, Give, Full

\* An event just numbered may follow everything.
LEMMA BeginOrder == ASSUME IInv, Numbered, NEW p \in Publishers, PublishBegin(p) PROVE Numbered'
<1> SUFFICES ASSUME clears' = 0 PROVE Numbered'
  BY DEF Numbered
<1> DEFINE e == NextEvent(p)
           new == [event |-> e, to |-> Registered]
<1>1. /\ UNCHANGED << redis, stream, conn >> /\ clears = 0 /\ redis
      /\ sequence' = sequence + 1 /\ sequence \in Nat
      /\ e.seq = sequence + 1 /\ e.by = p
      /\ suspended' = suspended \cup {new}
      /\ \A c \in suspended : c.event.by # p
  BY DEF PublishBegin, Number, NextEvent, queues, sockets, counters, IInv, TypeOK
<1>2. new.event = e /\ new.to = Registered
  OBVIOUS
<1> HIDE DEF e, new
<1>3. /\ \A c \in suspended : c.event.seq \in Nat /\ c.event.seq <= sequence
      /\ \A s \in Registered : \A i \in DOMAIN stream[s] :
           stream[s][i].seq \in Nat /\ stream[s][i].seq <= sequence
  BY <1>1, EventsTyped DEF Numbered
<1>4. Registered' = Registered
  BY <1>1 DEF Registered
<1>5. \A c \in suspended' : c.event.seq <= sequence'
  BY <1>1, <1>2, <1>3
<1>6. \A c, d \in suspended' : c # d => c.event.seq # d.event.seq /\ c.event.by # d.event.by
  <2>1. \A c \in suspended : c.event.seq # e.seq /\ c.event.by # e.by
    BY <1>1, <1>3
  <2> QED
    BY <1>1, <1>2, <2>1 DEF Numbered
<1>7. \A s \in Registered :
        /\ \A i \in DOMAIN stream[s] : stream[s][i].seq <= sequence'
        /\ \A c \in suspended' : s \in c.to => Follows(stream[s], c.event, FALSE)
        /\ InOrder(stream[s], ~redis)
  <2>1. \A s \in Registered : Follows(stream[s], e, FALSE)
    BY <1>1, <1>3 DEF Follows
  <2>2. \A s \in Registered :
          /\ \A c \in suspended : s \in c.to => Follows(stream[s], c.event, FALSE)
          /\ InOrder(stream[s], ~redis)
    BY <1>1 DEF Numbered
  <2>3. \A n \in Nat : n <= sequence => n <= sequence'
    BY <1>1
  <2> QED
    BY <1>1, <1>2, <1>3, <2>1, <2>2, <2>3
<1> QED
  BY <1>1, <1>4, <1>5, <1>6, <1>7 DEF Numbered

\* publish() resumes: its event follows all its subscribers were given.
LEMMA EndOrder == ASSUME IInv, Numbered, NEW p \in Publishers, PublishEnd(p) PROVE Numbered'
<1> SUFFICES ASSUME clears' = 0 PROVE Numbered'
  BY DEF Numbered
<1>1. PICK c \in suspended : Offer(c.event, c.to) /\ suspended' = suspended \ {c}
  BY DEF PublishEnd
<1>2. UNCHANGED << redis, sequence, conn, clears >>
  BY DEF PublishEnd, store, sockets, counters
<1>3. c.event \in Events /\ c.to \in SUBSET Subscribers /\ c.event.seq <= sequence /\ redis
  BY <1>1, <1>2 DEF IInv, TypeOK, Calls, Numbered
<1>4. Registered' = Registered
  BY <1>2 DEF Registered
<1>5. ASSUME NEW s \in Registered
      PROVE  /\ \A i \in DOMAIN stream'[s] : stream'[s][i].seq <= sequence
             /\ \A d \in suspended' : s \in d.to => Follows(stream'[s], d.event, FALSE)
             /\ InOrder(stream'[s], FALSE)
  <2>1. /\ s \in Subscribers /\ stream[s] \in Seq(Events)
        /\ \A i \in DOMAIN stream[s] : stream[s][i].seq <= sequence
        /\ \A d \in suspended : s \in d.to => Follows(stream[s], d.event, FALSE)
        /\ InOrder(stream[s], FALSE)
    BY <1>2, <1>3 DEF IInv, TypeOK, Registered, Numbered
  <2>2. stream'[s] = stream[s] \/ (s \in c.to /\ stream'[s] = Append(stream[s], c.event))
    BY <1>1, <1>3, <2>1, OfferGives
  <2>3. CASE stream'[s] = stream[s]
    BY <1>1, <2>1, <2>3
  <2>4. CASE s \in c.to /\ stream'[s] = Append(stream[s], c.event)
    <3>1. /\ InOrder(stream'[s], FALSE)
          /\ \A i \in DOMAIN stream'[s] : \/ i \in DOMAIN stream[s] /\ stream'[s][i] = stream[s][i]
                                          \/ stream'[s][i] = c.event
      <4>1. c.event \in Events /\ Follows(stream[s], c.event, FALSE)
        BY <1>1, <1>3, <2>1, <2>4
      <4> QED
        BY <2>1, <2>4, <4>1, AppendOrder
    <3>2. \A d \in suspended' : s \in d.to => Follows(stream'[s], d.event, FALSE)
      <4> SUFFICES ASSUME NEW d \in suspended', s \in d.to,
                          NEW i \in DOMAIN stream'[s]
                   PROVE  /\ stream'[s][i].seq # d.event.seq
                          /\ stream'[s][i].by = d.event.by => stream'[s][i].seq < d.event.seq
        BY DEF Follows
      <4>1. d \in suspended /\ d # c
        BY <1>1
      <4>2. c.event.seq # d.event.seq /\ c.event.by # d.event.by
        BY <1>1, <1>2, <4>1 DEF Numbered
      <4>3. Follows(stream[s], d.event, FALSE)
        BY <2>1, <4>1
      <4> QED
        BY <3>1, <4>2, <4>3 DEF Follows
    <3> QED
      BY <1>3, <2>1, <3>1, <3>2
  <2> QED
    BY <2>2, <2>3, <2>4
<1>6. /\ \A d \in suspended' : d.event.seq <= sequence
      /\ \A d, g \in suspended' : d # g => d.event.seq # g.event.seq /\ d.event.by # g.event.by
  BY <1>1, <1>2 DEF Numbered
<1> QED
  BY <1>2, <1>3, <1>4, <1>5, <1>6 DEF Numbered

\* Without a suspension the number is the highest so far wherever it arrives.
LEMMA AtOnceOrder == ASSUME IInv, Numbered, NEW p \in Publishers, PublishAtOnce(p) PROVE Numbered'
<1> SUFFICES ASSUME clears' = 0 PROVE Numbered'
  BY DEF Numbered
<1> DEFINE e == NextEvent(p)
<1>1. /\ UNCHANGED << redis, conn, clears, suspended >> /\ redis = FALSE
      /\ sequence' = sequence + 1 /\ sequence \in Nat /\ e.seq = sequence + 1
      /\ e \in Events /\ Offer(e, Registered)
  BY DEF PublishAtOnce, Number, NextEvent, sockets, counters, IInv, TypeOK, Events
<1> HIDE DEF e
<1>2. Registered' = Registered /\ Registered \in SUBSET Subscribers /\ suspended = {}
  BY <1>1 DEF Registered, Numbered
<1>3. ASSUME NEW s \in Registered
      PROVE  /\ \A i \in DOMAIN stream'[s] : stream'[s][i].seq <= sequence'
             /\ InOrder(stream'[s], TRUE)
  <2>1. /\ s \in Subscribers /\ stream[s] \in Seq(Events)
        /\ \A i \in DOMAIN stream[s] : stream[s][i].seq <= sequence /\ stream[s][i].seq \in Nat
        /\ InOrder(stream[s], TRUE)
    BY <1>1, <1>2, EventsTyped DEF Numbered
  <2>2. Follows(stream[s], e, TRUE)
    BY <1>1, <2>1 DEF Follows
  <2>0. \A i \in DOMAIN stream[s] : stream[s][i].seq <= sequence'
    BY <1>1, <2>1
  <2>3. CASE stream'[s] = stream[s]
    BY <2>0, <2>1, <2>3
  <2>4. CASE stream'[s] = Append(stream[s], e)
    <3>1. /\ InOrder(stream'[s], TRUE)
          /\ \A i \in DOMAIN stream'[s] : \/ i \in DOMAIN stream[s] /\ stream'[s][i] = stream[s][i]
                                          \/ stream'[s][i] = e
      BY <1>1, <2>1, <2>2, <2>4, AppendOrder
    <3>2. e.seq <= sequence'
      BY <1>1
    <3> QED
      BY <2>0, <3>1, <3>2
  <2> QED
    BY <1>1, <1>2, <2>3, <2>4, OfferGives
<1> QED
  BY <1>1, <1>2, <1>3 DEF Numbered

\* A history loaded back only restores a counter that stood at zero.
LEMMA ReplayOrder ==
  ASSUME IInv, Numbered, clears = 0, NEW r \in Replays, HistoryFor(r)
  PROVE  /\ sequence' = sequence
              \/ (suspended = {} /\ \A s \in Registered : DOMAIN stream[s] = {})
         /\ \A all \in BOOLEAN : InOrder(r, all)
         /\ \A i \in DOMAIN r : r[i].seq <= sequence'
<1>1. history' = r /\ r \in Seq(Events) /\ HistoryOrdered' /\ sequence' \in Nat
  BY ReplayFacts
<1>2. \A i \in DOMAIN r : r[i].seq \in Nat
  BY <1>1, EventsTyped
<1>3. \A all \in BOOLEAN : InOrder(r, all)
  BY <1>1, <1>2 DEF HistoryOrdered, InOrder
<1>4. \A i \in DOMAIN r : r[i].seq <= sequence'
  <2> SUFFICES ASSUME NEW i \in DOMAIN r PROVE r[i].seq <= sequence'
    OBVIOUS
  <2>1. Len(r) \in Nat /\ DOMAIN r = 1 .. Len(r) /\ r # << >>
    BY <1>1
  <2>2. Len(r) \in DOMAIN r /\ r[Len(r)].seq = sequence'
    BY <1>1, <2>1 DEF HistoryOrdered
  <2>3. i < Len(r) => r[i].seq < r[Len(r)].seq
    BY <1>1, <2>1, <2>2 DEF HistoryOrdered
  <2> QED
    BY <1>1, <1>2, <2>1, <2>2, <2>3
<1>5. ASSUME sequence' # sequence
      PROVE  suspended = {} /\ \A s \in Registered : DOMAIN stream[s] = {}
  <2>1. history = << >>
    BY <1>5 DEF HistoryFor
  <2>2. sequence = 0
    BY <2>1 DEF IInv, HistoryOrdered
  <2>3. /\ \A c \in suspended : c.event.seq \in Nat \ {0} /\ c.event.seq <= sequence
        /\ \A s \in Registered : \A i \in DOMAIN stream[s] :
             stream[s][i].seq \in Nat \ {0} /\ stream[s][i].seq <= sequence
    BY EventsTyped DEF Numbered
  <2> QED
    BY <2>2, <2>3
<1> QED
  BY <1>3, <1>4, <1>5

\* A client connects: its replay is in order, and no suspended call is for it.
LEMMA SubscribeOrder == ASSUME IInv, Numbered, NEW s \in Subscribers, Subscribe(s) PROVE Numbered'
<1> SUFFICES ASSUME clears' = 0 PROVE Numbered'
  BY DEF Numbered
<1>1. PICK r \in Replays : HistoryFor(r) /\ stream' = [stream EXCEPT ![s] = r]
  BY DEF Subscribe
<1>2. /\ conn[s] = "new" /\ conn' = [conn EXCEPT ![s] = "open"]
      /\ UNCHANGED << redis, suspended, clears >> /\ clears = 0
  BY DEF Subscribe, counters
<1>3. /\ sequence' = sequence
           \/ (suspended = {} /\ \A q \in Registered : DOMAIN stream[q] = {})
      /\ InOrder(r, ~redis)
      /\ \A i \in DOMAIN r : r[i].seq <= sequence'
  BY <1>1, <1>2, ReplayOrder DEF IInv, TypeOK
<1>4. \A c \in suspended : s \notin c.to
  BY <1>2 DEF IInv, NewcomersUntouched, InFlight
<1>5. stream'[s] = r /\ \A q \in Subscribers : q # s => stream'[q] = stream[q]
  BY <1>1 DEF IInv, TypeOK
<1>6. \A q \in Registered' : q = s \/ (q # s /\ q \in Registered /\ q \in Subscribers)
  BY <1>2 DEF Registered, IInv, TypeOK
<1>7. ASSUME NEW q \in Registered'
      PROVE  /\ \A i \in DOMAIN stream'[q] : stream'[q][i].seq <= sequence'
             /\ \A c \in suspended : q \in c.to => Follows(stream'[q], c.event, FALSE)
             /\ InOrder(stream'[q], ~redis)
  <2>1. CASE q = s
    BY <1>3, <1>4, <1>5, <2>1
  <2>2. CASE q # s
    BY <1>2, <1>3, <1>5, <1>6, <2>2 DEF Numbered
  <2> QED
    BY <2>1, <2>2
<1>8. \A c \in suspended : c.event.seq <= sequence'
  BY <1>2, <1>3 DEF Numbered
<1> QED
  BY <1>2, <1>7, <1>8 DEF Numbered

\* The other steps give nobody anything.
LEMMA RestOrder ==
  ASSUME IInv, Numbered,
         \/ \E p \in Publishers : CancelPublish(p)
         \/ \E s \in Subscribers : Receive(s) \/ Unsubscribe(s)
         \/ ReadHistory \/ DeleteSession \/ CreateSession \/ Restart
         \/ UNCHANGED vars
  PROVE  Numbered'
<1> SUFFICES ASSUME clears' = 0 PROVE Numbered'
  BY DEF Numbered
<1>1. CASE Restart
  <2>1. Registered' = {} /\ suspended' = {}
    BY <1>1 DEF Restart, Registered
  <2> QED
    BY <2>1 DEF Numbered
<1>2. CASE ReadHistory
  <2>1. PICK r \in Replays : HistoryFor(r)
    BY <1>2 DEF ReadHistory
  <2>2. UNCHANGED << redis, stream, conn, suspended, clears >> /\ clears = 0
    BY <1>2 DEF ReadHistory, queues, sockets, counters
  <2>3. \/ sequence' = sequence
        \/ (suspended = {} /\ \A q \in Registered : DOMAIN stream[q] = {})
    BY <2>1, <2>2, ReplayOrder
  <2>4. Registered' = Registered
    BY <2>2 DEF Registered
  <2> QED
    BY <2>2, <2>3, <2>4 DEF Numbered
<1>3. CASE DeleteSession \/ CreateSession
  <2>1. clears' = clears + 1 /\ clears \in Nat
    BY <1>3 DEF DeleteSession, CreateSession, IInv, TypeOK
  <2> QED
    BY <2>1
<1>4. CASE \/ \E p \in Publishers : CancelPublish(p)
           \/ \E s \in Subscribers : Receive(s) \/ Unsubscribe(s)
           \/ UNCHANGED vars
  <2>1. UNCHANGED << redis, sequence, stream, clears >> /\ suspended' \subseteq suspended
    BY <1>4 DEF CancelPublish, Receive, Unsubscribe, vars, store, queues, counters
  <2>2. Registered' \subseteq Registered
    BY <1>4 DEF CancelPublish, Receive, Unsubscribe, vars, sockets, Registered, IInv, TypeOK
  <2> QED
    BY <2>1, <2>2 DEF Numbered
<1> QED
  BY <1>1, <1>2, <1>3, <1>4

\* While nothing is cleared, a connected client never sees one number twice, and sees
\* the events of one publisher in the order they were published in.
THEOREM DeliveredInOrder == Spec => []DeliveryOrder
<1>1. Init => Numbered
  BY DEF Init, Numbered, Registered
<1>2. IInv /\ Numbered /\ [Next]_vars => Numbered'
  BY BeginOrder, EndOrder, AtOnceOrder, SubscribeOrder, RestOrder
     DEF Next, Publish, Connection
<1>3. Numbered => DeliveryOrder
  BY DEF Numbered, DeliveryOrder, InOrder
<1> QED
  BY <1>1, <1>2, <1>3, InitInv, StepInv, PTL DEF Spec
----------------------------------------------------------------------------
\* In the first run of the backend, while nothing is cleared, the counter stands at or
\* above every stored number, so that INSERT OR REPLACE has nothing to replace.
RowsNumbered == (restarts = 0 /\ clears = 0) => \A r \in rows : r.seq <= sequence

\* Numbering an event, saved or not, loses no row and leaves the counter on top.
LEMMA NumberKeepsRows ==
  ASSUME IInv, \A r \in rows : r.seq <= sequence, NEW p \in Publishers, Number(NextEvent(p))
  PROVE  rows \subseteq rows' /\ \A r \in rows' : r.seq <= sequence'
<1> DEFINE e == NextEvent(p)
<1>1. /\ e.seq = sequence + 1 /\ sequence' = sequence + 1 /\ sequence \in Nat
      /\ rows' = rows \/ rows' = Replace(rows, e)
  BY DEF Number, NextEvent, IInv, TypeOK
<1> HIDE DEF e
<1>2. \A r \in rows : r.seq \in Nat /\ r.seq <= sequence
  BY DEF IInv, TypeOK, Events
<1>3. \A r \in rows : r.seq # e.seq /\ r.seq <= sequence'
  BY <1>1, <1>2
<1>4. CASE rows' = rows
  BY <1>3, <1>4
<1>5. CASE rows' = Replace(rows, e)
  BY <1>1, <1>3, <1>5 DEF Replace
<1> QED
  BY <1>1, <1>4, <1>5

\* A history is only read back from the rows when the memory was emptied before.
LEMMA ReplayKeepsCounter ==
  ASSUME IInv, \A r \in rows : r.seq <= sequence, NEW q \in Replays, HistoryFor(q)
  PROVE  sequence' = sequence
<1>1. CASE history # << >> \/ rows = {}
  BY <1>1 DEF HistoryFor
<1>2. CASE history = << >> /\ rows # {}
  <2>1. sequence = 0
    BY <1>2 DEF IInv, HistoryOrdered
  <2>2. \A r \in rows : r.seq \in Nat \ {0}
    BY DEF IInv, TypeOK, Events
  <2> QED
    BY <1>2, <2>1, <2>2
<1> QED
  BY <1>1, <1>2

\* What each step does to the rows.
LEMMA RowsStep ==
  ASSUME IInv, RowsNumbered, [Next]_vars
  PROVE  RowsNumbered' /\ ((restarts = 0 /\ clears' = 0) => rows \subseteq rows')
<1> USE DEF store, counters
<1>1. restarts \in Nat /\ clears \in Nat
  BY DEF IInv, TypeOK
<1>2. CASE \E p \in Publishers : PublishBegin(p) \/ PublishAtOnce(p)
  <2>1. PICK p \in Publishers : Number(NextEvent(p)) /\ UNCHANGED << restarts, clears >>
    BY <1>2 DEF PublishBegin, PublishAtOnce
  <2> QED
    BY <2>1, NumberKeepsRows DEF RowsNumbered
<1>3. CASE ReadHistory \/ \E s \in Subscribers : Subscribe(s)
  <2>1. PICK q \in Replays : HistoryFor(q)
    BY <1>3 DEF ReadHistory, Subscribe
  <2>2. UNCHANGED << rows, restarts, clears >>
    BY <1>3 DEF ReadHistory, Subscribe
  <2> QED
    BY <2>1, <2>2, ReplayKeepsCounter DEF RowsNumbered
<1>4. CASE DeleteSession \/ CreateSession
  <2>1. clears' = clears + 1
    BY <1>4 DEF DeleteSession, CreateSession
  <2> QED
    BY <1>1, <2>1 DEF RowsNumbered
<1>5. CASE Restart
  <2>1. restarts' = restarts + 1 /\ rows' = rows
    BY <1>5 DEF Restart
  <2> QED
    BY <1>1, <2>1 DEF RowsNumbered
<1>6. CASE \/ \E p \in Publishers : PublishEnd(p) \/ CancelPublish(p)
           \/ \E s \in Subscribers : Receive(s) \/ Unsubscribe(s)
           \/ UNCHANGED vars
  <2>1. UNCHANGED << rows, sequence, restarts, clears >>
    BY <1>6 DEF PublishEnd, CancelPublish, Receive, Unsubscribe, vars
  <2> QED
    BY <2>1 DEF RowsNumbered
<1> QED
  BY <1>2, <1>3, <1>4, <1>5, <1>6 DEF Next, Publish, Connection

\* record_event() overwrites no stored event within one run of the backend, unless the
\* session is cleared: until then the counter is never below a stored number.
THEOREM StoredEventsAreKept == Spec => PersistedEventsKept
<1>1. Init => RowsNumbered
  BY DEF Init, RowsNumbered
<1>2. IInv /\ RowsNumbered /\ [Next]_vars => RowsNumbered'
  BY RowsStep
<1>3. IInv /\ RowsNumbered /\ [Next]_vars
        => [(restarts = 0 /\ clears' = 0) => rows \subseteq rows']_vars
  BY RowsStep
<1> QED
  BY <1>1, <1>2, <1>3, InitInv, StepInv, PTL DEF Spec, PersistedEventsKept
=============================================================================
