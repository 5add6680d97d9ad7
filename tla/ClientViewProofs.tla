-------------------------- MODULE ClientViewProofs --------------------------
(***************************************************************************)
(* Proofs about ClientView for any sessions and any lengths of logs, of    *)
(* histories and of the list.  What the list holds of the session shown    *)
(* ends with an unbroken run of numbers, next to the place of the socket   *)
(* in its replay; while the replay brings back what was cut off, the list  *)
(* is full, so that each old event drives out the one that comes next.     *)
(***************************************************************************)
EXTENDS ClientView, SequenceTheorems, FiniteSetTheorems, TLAPS

\* A set of places of a queue that is not empty has a last one: of the intervals from
\* its members to the end, one contains no other.
LEMMA LastPlace ==
  ASSUME NEW n \in Nat, NEW I \in SUBSET (1 .. n), I # {}
  PROVE  Max(I) \in I /\ \A i \in I : i <= Max(I)
<1> DEFINE S == 1 .. n
           Ends == { i .. n : i \in I }
<1>1. IsWellFoundedOn(StrictSubsetOrdering(S), SUBSET S)
  <2>1. IsFiniteSet(S)
    BY FS_Interval
  <2> QED
    BY <2>1, FS_StrictSubsetOrderingWellFounded, FS_FiniteSubsetsOfFinite
<1>2. Ends \subseteq SUBSET S /\ Ends # {}
  <2>1. \A i \in I : i .. n \subseteq 1 .. n
    OBVIOUS
  <2> QED
    BY <2>1
<1>3. PICK x \in Ends : \A y \in Ends : << y, x >> \notin StrictSubsetOrdering(S)
  <2> HIDE DEF S, Ends
  <2> QED
    BY <1>1, <1>2, WFMin
<1>4. PICK i \in I : x = i .. n
  OBVIOUS
<1>5. ASSUME NEW k \in I, k > i  PROVE FALSE
  <2>1. k .. n \subseteq i .. n /\ i \in i .. n /\ i \notin k .. n
    BY <1>5
  <2>2. << k .. n, i .. n >> \in StrictSubsetOrdering(S)
    BY <1>2, <1>4, <2>1 DEF StrictSubsetOrdering
  <2> QED
    BY <1>3, <1>4, <2>2
<1>6. \A k \in I : i >= k
  BY <1>5
<1> QED
  BY <1>6 DEF Max

\* The last status of a queue, if it has one.
LEMMA Last1Facts ==
  ASSUME NEW q \in Seq(Kinds)
  PROVE  /\ Last1(q) \in 0 .. Len(q)
         /\ Last1(q) # 0 => q[Last1(q)] # "note"
         /\ \A i \in 1 .. Len(q) : q[i] # "note" => i <= Last1(q) /\ Last1(q) # 0
<1> DEFINE I == { i \in 1 .. Len(q) : q[i] # "note" }
<1>1. Last1(q) = IF I # {} THEN Max(I) ELSE 0
  BY DEF Last1, SelectLastInSeq
<1>2. Len(q) \in Nat /\ I \in SUBSET (1 .. Len(q))
  OBVIOUS
<1>3. I # {} => Max(I) \in I /\ \A i \in I : i <= Max(I)
  BY <1>2, LastPlace
<1>4. \A i \in 1 .. Len(q) : i \in I <=> q[i] # "note"
  OBVIOUS
<1> HIDE DEF I
<1>5. CASE I = {}
  BY <1>1, <1>2, <1>4, <1>5
<1>6. CASE I # {}
  <2>1. PICK m \in I : Last1(q) = m /\ \A i \in I : i <= m
    BY <1>1, <1>3, <1>6
  <2>2. m \in 1 .. Len(q) /\ q[m] # "note"
    BY <1>2, <1>4
  <2>3. \A i \in 1 .. Len(q) : q[i] # "note" => i <= m
    BY <1>4, <2>1
  <2> QED
    BY <1>2, <2>1, <2>2, <2>3
<1> QED
  BY <1>5, <1>6

----------------------------------------------------------------------------
RequestKinds == {"none", "boot", "select", "create", "submit", "delete"}
Moments == {"none", "listing", "listed", "asked", "answered", "interrupted"}
Requests == [kind : RequestKinds, at : Moments, of : Sessions \cup {NoSession}, upto : Nat]
Asking == {"listed", "asked", "answered"}

\* Which requests and sockets there can be.
Shape ==
  /\ socket \in [state : {"none", "connecting", "open", "closed"}, next : Nat]
  /\ session = NoSession <=> socket.state = "none"
  /\ handler \in Requests /\ boot \in Requests
  /\ handler.kind \in {"select", "delete"} => handler.of \in Sessions
  /\ handler.kind = "create" => handler.of = NoSession
  /\ handler.at = "answered" => handler.kind = "select"
  /\ handler.at = "interrupted" => handler.kind = "delete"
  /\ handler.kind = "none" <=> handler = Idle
  /\ boot.at \in Asking => boot.of \in Sessions

\* What the page has heard of has a log, and its log is whole unless something was cut.
Logs ==
  /\ \A s \in up : log[s] # << >>
  /\ session # NoSession => log[session] # << >>
  /\ boot.at \in Asking => log[boot.of] # << >>
  /\ ~cut => \A s \in Sessions : Len(log[s]) <= Kept

\* The numbers the page knows are places of the logs.
Numbers ==
  /\ boot.at = "answered" => boot.upto <= Len(log[boot.of])
  /\ handler.at = "answered" => handler.upto <= Len(log[handler.of])
  /\ \A i \in DOMAIN events : events[i].n <= Len(log[events[i].of])
  /\ socket.state = "open" => socket.next \in 1 .. Len(log[session]) + 1

\* A history is the end of a log, up to the place it was read at.
LEMMA HistoryFacts ==
  ASSUME NEW s \in Sessions, NEW u \in Nat
  PROVE  /\ Oldest(u) \in 1 .. u + 1
         /\ u <= Kept => Oldest(u) = 1
         /\ u > Kept => Oldest(u) = u - Kept + 1
         /\ History(s, u) \in Seq(Events)
         /\ Len(History(s, u)) = u - Oldest(u) + 1
         /\ \A i \in 1 .. u - Oldest(u) + 1 :
              History(s, u)[i].of = s /\ History(s, u)[i].n = Oldest(u) + i - 1
         /\ Len(History(s, u)) <= Kept
<1> USE ClientAssumption
<1>1. /\ Oldest(u) \in 1 .. u + 1
      /\ u <= Kept => Oldest(u) = 1
      /\ u > Kept => Oldest(u) = u - Kept + 1
      /\ u - Oldest(u) + 1 <= Kept
  BY DEF Oldest
<1>2. PICK o \in 1 .. u + 1 : o = Oldest(u)
  BY <1>1
<1>3. PICK n \in Nat : n = u - o + 1
  BY <1>2
<1>4. History(s, u) = [i \in 1 .. n |-> [of |-> s, n |-> o + i - 1]]
  BY <1>2, <1>3 DEF History
<1>5. \A i \in 1 .. n : o + i - 1 \in Nat \ {0}
  BY <1>2
<1>6. \A i \in 1 .. n : [of |-> s, n |-> o + i - 1] \in Events
  BY <1>5 DEF Events
<1>7. History(s, u) \in Seq(Events) /\ Len(History(s, u)) = n
  <2>1. History(s, u) \in [1 .. n -> Events]
    BY <1>4, <1>6
  <2> QED
    BY <2>1, IsASeq, LenProperties
<1>8. \A i \in 1 .. n : History(s, u)[i].of = s /\ History(s, u)[i].n = o + i - 1
  BY <1>4
<1> QED
  BY <1>1, <1>2, <1>3, <1>7, <1>8

LEMMA HistoryIs ==
  ASSUME NEW s \in Sessions, NEW u \in Nat
  PROVE  \E o \in 1 .. u + 1, q \in Seq(Events) :
           /\ o = Oldest(u) /\ q = History(s, u) /\ Len(q) = u - o + 1
           /\ \A i \in 1 .. u - o + 1 : q[i] = [of |-> s, n |-> o + i - 1]
<1>1. PICK o \in 1 .. u + 1 : o = Oldest(u)
  BY HistoryFacts
<1>2. PICK q \in Seq(Events) : q = History(s, u)
  BY HistoryFacts
<1>3. Len(q) = u - o + 1
  BY <1>1, <1>2, HistoryFacts
<1>4. q = [i \in 1 .. u - o + 1 |-> [of |-> s, n |-> o + i - 1]]
  BY <1>1, <1>2 DEF History
<1>5. \A i \in 1 .. u - o + 1 : q[i] = [of |-> s, n |-> o + i - 1]
  BY <1>4
<1> QED
  BY <1>1, <1>2, <1>3, <1>5

\* The list r shows one event more than q, and the oldest no longer if it is full: what
\* it holds, seen from its end.
Extended(q, e, r) ==
  /\ r \in Seq(Events)
  /\ Len(r) = IF Len(q) < Shown THEN Len(q) + 1 ELSE Shown
  /\ r[Len(r)] = e
  /\ \A j \in 1 .. Len(r) - 1 : r[Len(r) - j] = q[Len(q) - j + 1]
  /\ Len(q) < Shown => r = Append(q, e)

LEMMA NewestFacts ==
  ASSUME NEW q \in Seq(Events), NEW e \in Events
  PROVE  Extended(q, e, Newest(Append(q, e)))
<1> USE ClientAssumption
<1>1. PICK w \in Seq(Events) : w = Append(q, e)
  BY AppendProperties
<1>2. PICK n \in Nat : n = Len(q)
  OBVIOUS
<1>3. Len(w) = n + 1 /\ w[n + 1] = e /\ \A i \in 1 .. n : w[i] = q[i]
  BY <1>1, <1>2
<1>4. CASE n < Shown
  <2>1. Newest(w) = w
    BY <1>3, <1>4 DEF Newest
  <2> QED
    BY <1>1, <1>2, <1>3, <1>4, <2>1 DEF Extended
<1>5. CASE n >= Shown
  <2>1. Newest(w) = SubSeq(w, n + 1 - Shown + 1, n + 1)
    BY <1>3, <1>5 DEF Newest
  <2>2. /\ Newest(w) \in Seq(Events) /\ Len(Newest(w)) = Shown
        /\ \A i \in 1 .. Shown : Newest(w)[i] = w[n + 1 - Shown + i]
    <3> DEFINE m == n + 1 - Shown + 1
    <3>1. m \in 1 .. n + 1 /\ m \in 1 .. Len(w) + 1 /\ n + 1 \in m - 1 .. Len(w)
      BY <1>3, <1>5
    <3>2. n + 1 - m + 1 = Shown /\ \A i \in 1 .. Shown : m + i - 1 = n + 1 - Shown + i
      OBVIOUS
    <3> HIDE DEF m
    <3>3. /\ SubSeq(w, m, n + 1) \in Seq(Events)
          /\ Len(SubSeq(w, m, n + 1)) = n + 1 - m + 1
          /\ \A i \in 1 .. n + 1 - m + 1 : SubSeq(w, m, n + 1)[i] = w[m + i - 1]
      BY <3>1, SubSeqProperties
    <3>4. SubSeq(w, m, n + 1) = Newest(w)
      BY <2>1 DEF m
    <3> QED
      BY <3>2, <3>3, <3>4
  <2>3. Newest(w)[Shown] = e
    BY <1>3, <2>2
  <2>4. \A j \in 1 .. Shown - 1 : Newest(w)[Shown - j] = q[n - j + 1]
    BY <1>3, <1>5, <2>2
  <2>5. PICK r \in Seq(Events) : r = Newest(w)
    BY <2>2
  <2>6. Len(r) = Shown /\ Len(r) = IF n < Shown THEN n + 1 ELSE Shown
    BY <1>5, <2>2, <2>5
  <2>7. r[Len(r)] = e /\ \A j \in 1 .. Len(r) - 1 : r[Len(r) - j] = q[n - j + 1]
    BY <2>3, <2>4, <2>5, <2>6
  <2>8. Extended(q, e, r)
    BY <1>2, <1>5, <2>6, <2>7 DEF Extended
  <2> QED
    BY <1>1, <2>5, <2>8
<1> QED
  BY <1>2, <1>4, <1>5

----------------------------------------------------------------------------
\* Logs only grow, and no event is cut off from one without it being noted.
Grown ==
  /\ log' \in [Sessions -> Seq(Kinds)]
  /\ \A s \in Sessions : Len(log[s]) <= Len(log'[s]) /\ (log[s] # << >> => log'[s] # << >>)
  /\ cut' \in BOOLEAN /\ (~cut' => ~cut)
  /\ ~cut' => \A s \in Sessions : Len(log'[s]) <= Kept

LEMMA PublishGrows ==
  ASSUME TypeOK, Logs, NEW s \in Sessions, NEW kind \in Kinds, Publish(s, kind)
  PROVE  Grown
<1> USE ClientAssumption
<1>1. log \in [Sessions -> Seq(Kinds)] /\ cut \in BOOLEAN
  BY DEF TypeOK
<1>2. log' = [log EXCEPT ![s] = Append(log[s], kind)] /\ cut' = (cut \/ Len(log[s]) >= Kept)
  BY DEF Publish
<1>3. Append(log[s], kind) \in Seq(Kinds) /\ Len(Append(log[s], kind)) = Len(log[s]) + 1
  BY <1>1, AppendProperties
<1>4. Append(log[s], kind) # << >>
  BY <1>3, <1>1, SMTT(20)
<1>5. log' \in [Sessions -> Seq(Kinds)]
  BY <1>1, <1>2, <1>3
<1>6. ASSUME NEW t \in Sessions
      PROVE  Len(log[t]) <= Len(log'[t]) /\ (log[t] # << >> => log'[t] # << >>)
  BY <1>1, <1>2, <1>3, <1>4
<1>7. ASSUME ~cut', NEW t \in Sessions  PROVE Len(log'[t]) <= Kept
  <2>1. ~cut /\ ~(Len(log[s]) >= Kept)
    BY <1>2, <1>7
  <2>2. Len(log[s]) + 1 <= Kept
    BY <1>1, <2>1
  <2> QED
    BY <1>1, <1>2, <1>3, <2>1, <2>2 DEF Logs
<1> QED
  BY <1>1, <1>2, <1>5, <1>6, <1>7 DEF Grown

LEMMA SameGrows ==
  ASSUME TypeOK, Logs, UNCHANGED log, cut' \in BOOLEAN, cut => cut'
  PROVE  Grown
BY DEF TypeOK, Logs, Grown

LEMMA NewSessionGrows ==
  ASSUME TypeOK, Logs, NEW s \in Sessions, NewSession(s), UNCHANGED cut
  PROVE  Grown /\ log'[s] # << >>
<1> USE ClientAssumption
<1>1. log \in [Sessions -> Seq(Kinds)] /\ cut \in BOOLEAN
  BY DEF TypeOK
<1>2. log' = [log EXCEPT ![s] = << "note" >>] /\ log[s] = << >>
  BY DEF NewSession
<1>3. << "note" >> \in Seq(Kinds) /\ Len(<< "note" >>) = 1 /\ << "note" >> # << >>
  BY DEF Kinds
<1>4. log' \in [Sessions -> Seq(Kinds)]
  BY <1>1, <1>2, <1>3
<1>5. \A t \in Sessions : Len(log[t]) <= Len(log'[t]) /\ (log[t] # << >> => log'[t] # << >>)
  BY <1>1, <1>2, <1>3
<1>6. ~cut => \A t \in Sessions : Len(log'[t]) <= Kept
  BY <1>1, <1>2, <1>3 DEF Logs
<1> QED
  BY <1>1, <1>2, <1>3, <1>4, <1>5, <1>6 DEF Grown

\* A task may report anything; what an interrupt and a message publish is one of Kinds.
LEMMA StepGrows ==
  ASSUME TypeOK, Shape, Logs, Next
  PROVE  Grown
<1>1. ASSUME NEW s \in Sessions, TaskReports(s)  PROVE Grown
  BY <1>1, PublishGrows DEF TaskReports
<1>2. ASSUME Boot  PROVE Grown
  BY <1>2, SameGrows DEF Boot, BootListed, BootArrives, BootAnswered, BootShown, BootFails,
     ShowHistory, ghosts, TypeOK
<1>3. ASSUME Buttons  PROVE Grown
  <2>1. ASSUME Interrupt  PROVE Grown
    <3>1. session \in Sessions
      BY <2>1 DEF Interrupt, InterruptEnabled, TypeOK
    <3>2. Interruption(session) \in Kinds
      BY DEF Interruption, Kinds
    <3> QED
      BY <2>1, <3>1, <3>2, PublishGrows DEF Interrupt
  <2> QED
    BY <1>3, <2>1, SameGrows DEF Buttons, Select, Create, SubmitCreates, Submit, Delete,
       ghosts, TypeOK
<1>4. ASSUME Answers  PROVE Grown
  <2>1. ASSUME Sent  PROVE Grown
    <3>1. handler.of \in Sessions
      BY <2>1 DEF Sent, TypeOK
    <3>2. (IF Busy(handler.of) THEN "note" ELSE "running") \in Kinds
      BY DEF Kinds
    <3> QED
      BY <2>1, <3>1, <3>2, PublishGrows DEF Sent
  <2>2. ASSUME DeleteInterrupts  PROVE Grown
    <3>1. handler.of \in Sessions
      BY <2>2 DEF DeleteInterrupts, Shape
    <3>2. Interruption(handler.of) \in Kinds
      BY DEF Interruption, Kinds
    <3> QED
      BY <2>2, <3>1, <3>2, PublishGrows DEF DeleteInterrupts
  <2>3. ASSUME NEW s \in Sessions, Created(s) \/ SubmitCreated(s)  PROVE Grown
    BY <2>3, NewSessionGrows DEF Created, SubmitCreated
  <2> QED
    BY <1>4, <2>1, <2>2, <2>3, SameGrows DEF Answers, SelectAnswered, SelectShown,
       SelectFails, Deleted, RequestFails, ghosts, TypeOK
<1>5. ASSUME Socket  PROVE Grown
  <2>1. ASSUME Receive  PROVE Grown
    BY <2>1, SameGrows DEF Receive, Show, TypeOK
  <2> QED
    BY <1>5, <2>1, SameGrows DEF Socket, SocketOpens, SocketCloses, ghosts, TypeOK
<1> QED
  BY <1>1, <1>2, <1>3, <1>4, <1>5 DEF Next, Backend

----------------------------------------------------------------------------
LEMMA SocketShape ==
  ASSUME NEW s \in Sessions \cup {NoSession}, TypeOK, Shape, SetSession(s)
  PROVE  /\ socket' \in [state : {"none", "connecting", "open", "closed"}, next : Nat]
         /\ session' = s
         /\ session' = NoSession <=> socket'.state = "none"
BY DEF SetSession, Shape, NoSocket

LEMMA ServedShape ==
  ASSUME TypeOK, NEW r \in Requests, r.of \in Sessions
  PROVE  /\ Served(r) \in Requests
         /\ Served(r).kind = r.kind /\ Served(r).of = r.of /\ Served(r).at = "answered"
         /\ Served(r).upto = Len(log[r.of])
<1>1. PICK m \in Nat : m = Len(log[r.of])
  BY DEF TypeOK
<1>2. Served(r) = [r EXCEPT !.at = "answered", !.upto = m]
  BY <1>1 DEF Served
<1> QED
  BY <1>1, <1>2 DEF Requests, Moments

PageTyped ==
  /\ up \subseteq Sessions
  /\ session \in Sessions \cup {NoSession}
  /\ muddled \in BOOLEAN /\ lost \in BOOLEAN

\* What the page shows is typed, whichever history or none it shows.
LEMMA HistoryShown ==
  ASSUME NEW r \in Requests, ShowHistory(r)
  PROVE  muddled' \in BOOLEAN /\ lost' \in BOOLEAN
BY DEF ShowHistory

LEMMA BootShape ==
  ASSUME TypeOK, Shape, Boot
  PROVE  Shape' /\ PageTyped'
<1>1. ASSUME BootListed  PROVE Shape' /\ PageTyped'
  BY <1>1 DEF BootListed, TypeOK, Shape, PageTyped, Requests, RequestKinds, Moments, Asking,
     Request, Idle, page, ghosts
<1>2. ASSUME BootArrives  PROVE Shape' /\ PageTyped'
  <2>1. boot.of \in Sessions
    BY <1>2 DEF BootArrives, Shape, Asking
  <2>2. SetSession(boot.of)
    BY <1>2 DEF BootArrives
  <2>3. /\ socket' \in [state : {"none", "connecting", "open", "closed"}, next : Nat]
        /\ session' = boot.of
        /\ session' = NoSession <=> socket'.state = "none"
    BY <2>1, <2>2, SocketShape
  <2>4. boot' = Request("boot", "asked", boot.of)
    BY <1>2 DEF BootArrives
  <2>5. muddled' \in BOOLEAN /\ UNCHANGED << up, handler, lost >>
    BY <1>2 DEF BootArrives
  <2> QED
    BY <2>1, <2>3, <2>4, <2>5 DEF TypeOK, Shape, PageTyped, Requests, RequestKinds, Moments,
       Asking, Request, Idle
<1>3. ASSUME BootAnswered  PROVE Shape' /\ PageTyped'
  <2>1. boot.of \in Sessions
    BY <1>3 DEF BootAnswered, Shape, Asking
  <2>2. boot' = Served(boot) /\ boot \in Requests
    BY <1>3 DEF BootAnswered, Shape
  <2> QED
    BY <1>3, <2>1, <2>2, ServedShape DEF BootAnswered, TypeOK, Shape, PageTyped, page, ghosts
<1>4. ASSUME BootShown  PROVE Shape' /\ PageTyped'
  <2>1. muddled' \in BOOLEAN /\ lost' \in BOOLEAN
    BY <1>4, HistoryShown DEF BootShown, Shape
  <2>2. boot' = Idle /\ UNCHANGED << up, session, socket, handler >>
    BY <1>4 DEF BootShown
  <2> QED
    BY <2>1, <2>2 DEF TypeOK, Shape, PageTyped, Requests, RequestKinds, Moments, Asking, Idle
<1>5. ASSUME BootFails  PROVE Shape' /\ PageTyped'
  BY <1>5 DEF BootFails, TypeOK, Shape, PageTyped, Requests, RequestKinds, Moments, Asking,
     Idle, page, ghosts
<1> QED
  BY <1>1, <1>2, <1>3, <1>4, <1>5 DEF Boot

LEMMA ButtonShape ==
  ASSUME TypeOK, Shape, Buttons
  PROVE  Shape' /\ PageTyped'
<1>1. ASSUME NEW s \in Sessions, Select(s)  PROVE Shape' /\ PageTyped'
  <2>1. SetSession(s) /\ handler' = Request("select", "asked", s)
    BY <1>1 DEF Select
  <2>2. /\ socket' \in [state : {"none", "connecting", "open", "closed"}, next : Nat]
        /\ session' = s
        /\ session' = NoSession <=> socket'.state = "none"
    BY <2>1, SocketShape
  <2>3. muddled' \in BOOLEAN /\ UNCHANGED << up, boot, lost >>
    BY <1>1 DEF Select
  <2> QED
    BY <2>1, <2>2, <2>3 DEF TypeOK, Shape, PageTyped, Requests, RequestKinds, Moments,
       Request, Idle
<1>2. ASSUME Create \/ SubmitCreates  PROVE Shape' /\ PageTyped'
  <2>1. \/ handler' = Request("create", "asked", NoSession)
        \/ handler' = Request("submit", "asked", NoSession)
    BY <1>2 DEF Create, SubmitCreates
  <2>2. muddled' \in BOOLEAN /\ lost' \in BOOLEAN /\ UNCHANGED << up, session, socket, boot >>
    BY <1>2 DEF Create, SubmitCreates, ClearEvents
  <2> QED
    BY <2>1, <2>2 DEF TypeOK, Shape, PageTyped, Requests, RequestKinds, Moments, Request, Idle
<1>3. ASSUME Submit \/ Delete  PROVE Shape' /\ PageTyped'
  <2>1. session \in Sessions
    BY <1>3 DEF Submit, Delete, TypeOK
  <2>2. \/ handler' = Request("submit", "asked", session)
        \/ handler' = Request("delete", "asked", session)
    BY <1>3 DEF Submit, Delete
  <2>3. UNCHANGED << up, session, socket, boot, muddled, lost >>
    BY <1>3 DEF Submit, Delete, page, ghosts
  <2> QED
    BY <2>1, <2>2, <2>3 DEF TypeOK, Shape, PageTyped, Requests, RequestKinds, Moments,
       Request, Idle
<1>4. ASSUME Interrupt  PROVE Shape' /\ PageTyped'
  BY <1>4 DEF Interrupt, TypeOK, Shape, PageTyped, page, requests
<1> QED
  BY <1>1, <1>2, <1>3, <1>4 DEF Buttons

LEMMA AnswerShape ==
  ASSUME TypeOK, Shape, Answers
  PROVE  Shape' /\ PageTyped'
<1>1. ASSUME SelectAnswered  PROVE Shape' /\ PageTyped'
  <2>1. handler.of \in Sessions /\ handler.kind = "select" /\ handler \in Requests
    BY <1>1 DEF SelectAnswered, Shape
  <2>2. handler' = Served(handler) /\ UNCHANGED << up, session, socket, boot, muddled, lost >>
    BY <1>1 DEF SelectAnswered, page, ghosts
  <2> QED
    BY <2>1, <2>2, ServedShape DEF TypeOK, Shape, PageTyped, Idle
<1>2. ASSUME SelectShown \/ SelectFails \/ Sent \/ RequestFails  PROVE Shape' /\ PageTyped'
  <2>1. muddled' \in BOOLEAN /\ lost' \in BOOLEAN
    BY <1>2, HistoryShown
       DEF SelectShown, SelectFails, Sent, RequestFails, ghosts, TypeOK, Shape
  <2>2. handler' = Idle /\ UNCHANGED << up, session, socket, boot >>
    BY <1>2 DEF SelectShown, SelectFails, Sent, RequestFails, page
  <2> QED
    BY <2>1, <2>2 DEF TypeOK, Shape, PageTyped, Requests, RequestKinds, Moments, Idle
<1>3. ASSUME DeleteInterrupts  PROVE Shape' /\ PageTyped'
  <2>1. /\ handler' = [handler EXCEPT !.at = "interrupted"] /\ handler.kind = "delete"
        /\ UNCHANGED << up, session, socket, boot, muddled, lost >>
    BY <1>3 DEF DeleteInterrupts, page
  <2> QED
    BY <2>1, ZenonT(60) DEF TypeOK, Shape, PageTyped, Requests, RequestKinds, Moments, Idle
<1>4. ASSUME Deleted  PROVE Shape' /\ PageTyped'
  <2>1. SetSession(NoSession) /\ handler' = Idle
    BY <1>4 DEF Deleted
  <2>2. /\ socket' \in [state : {"none", "connecting", "open", "closed"}, next : Nat]
        /\ session' = NoSession
        /\ session' = NoSession <=> socket'.state = "none"
    BY <2>1, SocketShape
  <2>3. muddled' \in BOOLEAN /\ lost' \in BOOLEAN /\ UNCHANGED boot /\ up' \subseteq up
    BY <1>4 DEF Deleted, ClearEvents
  <2> QED
    BY <2>1, <2>2, <2>3 DEF TypeOK, Shape, PageTyped, Requests, RequestKinds, Moments, Idle
<1>5. ASSUME NEW s \in Sessions, Created(s) \/ SubmitCreated(s)  PROVE Shape' /\ PageTyped'
  <2>1. SetSession(s) /\ up' = up \cup {s} /\ muddled' \in BOOLEAN /\ lost' = FALSE
    BY <1>5 DEF Created, SubmitCreated, NewSession
  <2>2. /\ socket' \in [state : {"none", "connecting", "open", "closed"}, next : Nat]
        /\ session' = s
        /\ session' = NoSession <=> socket'.state = "none"
    BY <2>1, SocketShape
  <2>3. handler' = Idle \/ handler' = Request("submit", "asked", s)
    BY <1>5 DEF Created, SubmitCreated
  <2>4. UNCHANGED boot
    BY <1>5 DEF Created, SubmitCreated
  <2>5. CASE handler' = Idle
    BY <2>1, <2>2, <2>4, <2>5
       DEF TypeOK, Shape, PageTyped, Requests, RequestKinds, Moments, Idle
  <2>6. CASE handler' = Request("submit", "asked", s)
    BY <2>1, <2>2, <2>4, <2>6
       DEF TypeOK, Shape, PageTyped, Requests, RequestKinds, Moments, Idle, Request
  <2> QED
    BY <2>3, <2>5, <2>6
<1> QED
  BY <1>1, <1>2, <1>3, <1>4, <1>5 DEF Answers

LEMMA StepShape ==
  ASSUME TypeOK, Shape, Next
  PROVE  Shape' /\ PageTyped'
<1>1. ASSUME NEW s \in Sessions, TaskReports(s)  PROVE Shape' /\ PageTyped'
  BY <1>1 DEF TaskReports, TypeOK, Shape, PageTyped, page, requests
<1>2. ASSUME Socket  PROVE Shape' /\ PageTyped'
  <2>1. ASSUME SocketOpens  PROVE Shape' /\ PageTyped'
    <3>1. session \in Sessions
      BY <2>1 DEF SocketOpens, Shape, TypeOK
    <3>2. Oldest(Len(log[session])) \in Nat
      <4>1. PICK u \in Nat : u = Len(log[session])
        BY <3>1 DEF TypeOK
      <4>2. Oldest(u) \in 1 .. u + 1
        BY <3>1, HistoryFacts
      <4> QED
        BY <4>1, <4>2
    <3> QED
      BY <2>1, <3>1, <3>2 DEF SocketOpens, TypeOK, Shape, PageTyped, requests, ghosts
  <2>2. ASSUME SocketCloses  PROVE Shape' /\ PageTyped'
    BY <2>2 DEF SocketCloses, TypeOK, Shape, PageTyped, requests, ghosts
  <2>3. ASSUME Receive  PROVE Shape' /\ PageTyped'
    BY <2>3 DEF Receive, TypeOK, Shape, PageTyped, requests
  <2> QED
    BY <1>2, <2>1, <2>2, <2>3 DEF Socket
<1> QED
  BY <1>1, <1>2, BootShape, ButtonShape, AnswerShape DEF Next, Backend

----------------------------------------------------------------------------
LEMMA StepLogs ==
  ASSUME TypeOK, Shape, Logs, Grown, Next
  PROVE  Logs'
<1>1. \A s \in up' : log'[s] # << >>
  <2>1. ASSUME NEW s \in Sessions, Created(s) \/ SubmitCreated(s)
        PROVE  up' = up \cup {s} /\ log'[s] # << >>
    BY <2>1, NewSessionGrows DEF Created, SubmitCreated, NewSession
  <2>2. CASE \E s \in Sessions : Created(s) \/ SubmitCreated(s)
    BY <2>1, <2>2 DEF Logs, Grown, TypeOK
  <2>3. CASE ~\E s \in Sessions : Created(s) \/ SubmitCreated(s)
    <3>1. up' \subseteq up
      BY <2>3 DEF Next, Backend, Boot, Buttons, Answers, Socket, TaskReports, BootListed,
         BootArrives, BootAnswered, BootShown, BootFails, Select, Create, SubmitCreates, Submit,
         Delete, Interrupt, SelectAnswered, SelectShown, SelectFails, Sent, DeleteInterrupts,
         Deleted, RequestFails, SocketOpens, SocketCloses, Receive
    <3> QED
      BY <3>1 DEF Logs, Grown, TypeOK
  <2> QED
    BY <2>2, <2>3
<1>2. session' # NoSession => log'[session'] # << >>
  <2>1. ASSUME NEW s \in Sessions, Created(s) \/ SubmitCreated(s)
        PROVE  session' = s /\ log'[s] # << >>
    BY <2>1, NewSessionGrows DEF Created, SubmitCreated, NewSession, SetSession
  <2>2. ASSUME NEW s \in Sessions, Select(s)  PROVE session' = s /\ log'[s] # << >>
    BY <2>2 DEF Select, SetSession, Logs, Grown
  <2>3. ASSUME BootArrives
        PROVE  session' = boot.of /\ boot.of \in Sessions /\ log'[boot.of] # << >>
    BY <2>3 DEF BootArrives, SetSession, Logs, Grown, Shape, Asking
  <2>4. ASSUME Deleted  PROVE session' = NoSession
    BY <2>4 DEF Deleted, SetSession
  <2>5. ASSUME UNCHANGED session  PROVE session' # NoSession => log'[session'] # << >>
    BY <2>5 DEF Logs, Grown, TypeOK
  <2> QED
    BY <2>1, <2>2, <2>3, <2>4, <2>5
       DEF Next, Backend, Boot, Buttons, Answers, Socket, TaskReports, BootListed,
       BootAnswered, BootShown, BootFails, Create, SubmitCreates, Submit, Delete, Interrupt,
       SelectAnswered, SelectShown, SelectFails, Sent, DeleteInterrupts, RequestFails,
       SocketOpens, SocketCloses, Receive, page
<1>3. boot'.at \in Asking => log'[boot'.of] # << >>
  <2>1. ASSUME BootListed  PROVE boot'.at \in Asking => log'[boot'.of] # << >>
    BY <2>1 DEF BootListed, Request, Idle, Asking, Logs, Grown, TypeOK
  <2>2. ASSUME BootArrives \/ BootAnswered
        PROVE  boot'.of = boot.of /\ boot.of \in Sessions /\ log'[boot.of] # << >>
    <3>1. boot.at \in Asking
      BY <2>2 DEF BootArrives, BootAnswered, Asking
    <3>2. boot.of \in Sessions /\ log'[boot.of] # << >>
      BY <3>1 DEF Shape, Logs, Grown
    <3>3. boot'.of = boot.of
      BY <2>2, <3>2, ServedShape DEF BootArrives, BootAnswered, Request, Shape
    <3> QED
      BY <3>2, <3>3
  <2>3. ASSUME BootShown \/ BootFails  PROVE boot'.at \notin Asking
    BY <2>3 DEF BootShown, BootFails, Idle, Asking
  <2>4. ASSUME UNCHANGED boot  PROVE boot'.at \in Asking => log'[boot'.of] # << >>
    BY <2>4 DEF Logs, Grown, Shape
  <2> QED
    BY <2>1, <2>2, <2>3, <2>4
       DEF Next, Backend, Boot, Buttons, Answers, Socket, TaskReports, Select, Create,
       SubmitCreates, Submit, Delete, Interrupt, SelectAnswered, SelectShown, SelectFails,
       Sent, DeleteInterrupts, Deleted, RequestFails, Created, SubmitCreated,
       SocketOpens, SocketCloses, Receive, requests
<1> QED
  BY <1>1, <1>2, <1>3 DEF Logs, Grown

\* The list is as it was, cleared, a history that was read, or one event longer.
LEMMA EventsChange ==
  ASSUME Next
  PROVE  \/ UNCHANGED events
         \/ events' = << >>
         \/ handler.at = "answered" /\ events' = History(handler.of, handler.upto)
         \/ boot.at = "answered" /\ events' = History(boot.of, boot.upto)
         \/ Receive
BY DEF Next, Backend, Boot, Buttons, Answers, Socket, TaskReports, BootListed, BootArrives,
   BootAnswered, BootShown, BootFails, Select, Create, SubmitCreates, Submit, Delete,
   Interrupt, SelectAnswered, SelectShown, SelectFails, Sent, DeleteInterrupts, Deleted,
   RequestFails, Created, SubmitCreated, SocketOpens, SocketCloses, ShowHistory, ClearEvents,
   page

\* The event that a socket brings next.
LEMMA NextEvent ==
  ASSUME TypeOK, Shape, Logs, Numbers, Receive
  PROVE  /\ session \in Sessions
         /\ socket.next \in 1 .. Len(log[session])
         /\ [of |-> session, n |-> socket.next] \in Events
<1>1. session \in Sessions
  BY DEF Receive, Shape, TypeOK
<1>2. socket.next \in 1 .. Len(log[session])
  BY <1>1 DEF Receive, Numbers, TypeOK
<1>3. socket.next \in Nat \ {0}
  BY <1>1, <1>2 DEF TypeOK
<1> QED
  BY <1>1, <1>2, <1>3 DEF Events

LEMMA StepEvents ==
  ASSUME TypeOK, Shape, Logs, Numbers, Grown, Next
  PROVE  /\ events' \in Seq(Events)
         /\ Len(events') <= (IF Kept > Shown THEN Kept ELSE Shown)
         /\ \A i \in DOMAIN events' : events'[i].n <= Len(log'[events'[i].of])
<1> USE ClientAssumption
<1> DEFINE Fine(q) == /\ q \in Seq(Events)
                      /\ Len(q) <= (IF Kept > Shown THEN Kept ELSE Shown)
                      /\ \A i \in DOMAIN q : q[i].n <= Len(log'[q[i].of])
<1>1. ASSUME NEW e \in Events, e.n <= Len(log[e.of])  PROVE e.n <= Len(log'[e.of])
  BY <1>1 DEF TypeOK, Grown, Events
<1>2. Fine(events)
  <2>1. \A i \in DOMAIN events : events[i] \in Events
    BY DEF TypeOK
  <2> QED
    BY <1>1, <2>1 DEF TypeOK, Numbers
<1>3. Fine(<< >>)
  OBVIOUS
<1>4. ASSUME NEW s \in Sessions, NEW u \in Nat, u <= Len(log[s])  PROVE Fine(History(s, u))
  <2>1. PICK o \in 1 .. u + 1 : o = Oldest(u)
    BY HistoryFacts
  <2>2. PICK q \in Seq(Events) :
          /\ q = History(s, u) /\ Len(q) = u - o + 1 /\ Len(q) <= Kept
          /\ \A i \in 1 .. u - o + 1 : q[i].of = s /\ q[i].n = o + i - 1
    <3>1. PICK q \in Seq(Events) : q = History(s, u)
      BY HistoryFacts
    <3> QED
      BY <2>1, <3>1, HistoryFacts, ZenonT(60)
  <2>3. u <= Len(log'[s])
    BY <1>4 DEF Grown, TypeOK
  <2>4. \A i \in 1 .. u - o + 1 : q[i].n <= Len(log'[q[i].of])
    BY <2>1, <2>2, <2>3 DEF Grown
  <2> QED
    BY <2>2, <2>4
<1>5. ASSUME Receive  PROVE Fine(events')
  <2>1. PICK e \in Events : e = [of |-> session, n |-> socket.next]
    BY <1>5, NextEvent
  <2>2. e.n <= Len(log'[e.of])
    <3>1. session \in Sessions /\ socket.next \in 1 .. Len(log[session])
      BY <1>5, NextEvent
    <3>2. e.n <= Len(log[e.of])
      BY <2>1, <3>1 DEF TypeOK
    <3> QED
      BY <1>1, <3>2
  <2>3. CASE events' = events
    BY <1>2, <2>3
  <2>4. CASE events' = Newest(Append(events, e))
    <3>1. PICK r : r = Newest(Append(events, e))
      OBVIOUS
    <3>2. PICK m \in Nat : m = Len(events) /\ events \in Seq(Events)
      BY DEF TypeOK
    <3>3. PICK l \in Nat \ {0} :
            /\ r \in Seq(Events) /\ l = Len(r) /\ l - 1 <= m /\ l <= Shown
            /\ r[l] = e
            /\ \A j \in 1 .. l - 1 : r[l - j] = events[m - j + 1]
      <4>1. /\ r \in Seq(Events) /\ Len(r) = (IF Len(events) < Shown THEN Len(events) + 1 ELSE Shown)
            /\ r[Len(r)] = e
            /\ \A j \in 1 .. Len(r) - 1 : r[Len(r) - j] = events[Len(events) - j + 1]
        BY <3>1, <3>2, NewestFacts DEF Extended
      <4>2. PICK l \in Nat \ {0} : l = Len(r) /\ l - 1 <= m /\ l <= Shown
        BY <3>2, <4>1
      <4> QED
        BY <3>2, <4>1, <4>2
    <3>4. ASSUME NEW i \in 1 .. l  PROVE r[i].n <= Len(log'[r[i].of])
      <4>1. CASE i = l
        BY <2>2, <3>3, <4>1
      <4>2. CASE i # l
        <5>1. l - i \in 1 .. l - 1 /\ l - (l - i) = i
          BY <3>3, <4>2
        <5>2. r[i] = events[m - (l - i) + 1]
          BY <3>3, <5>1
        <5>3. m - (l - i) + 1 \in 1 .. m
          BY <3>2, <3>3, <5>1
        <5> QED
          BY <1>2, <3>2, <5>2, <5>3
      <4> QED
        BY <4>1, <4>2
    <3> QED
      BY <2>4, <3>1, <3>3, <3>4
  <2> QED
    BY <1>5, <2>1, <2>3, <2>4 DEF Receive, Show
<1>6. ASSUME handler.at = "answered", events' = History(handler.of, handler.upto)
      PROVE  Fine(events')
  BY <1>4, <1>6 DEF Shape, Numbers, TypeOK
<1>7. ASSUME boot.at = "answered", events' = History(boot.of, boot.upto)
      PROVE  Fine(events')
  BY <1>4, <1>7 DEF Shape, Numbers, TypeOK, Asking
<1> HIDE DEF Fine
<1>8. Fine(events')
  BY <1>2, <1>3, <1>5, <1>6, <1>7, EventsChange
<1> QED
  BY <1>8 DEF Fine

LEMMA StepNumbers ==
  ASSUME TypeOK, Shape, Logs, Numbers, Grown, Next
  PROVE  Numbers'
<1>1. boot'.at = "answered" => boot'.upto <= Len(log'[boot'.of])
  <2>1. ASSUME BootAnswered  PROVE boot'.upto <= Len(log'[boot'.of])
    <3>1. boot.of \in Sessions /\ boot \in Requests
      BY <2>1 DEF BootAnswered, Shape, Asking
    <3>2. boot'.of = boot.of /\ boot'.upto = Len(log[boot.of])
      BY <2>1, <3>1, ServedShape DEF BootAnswered
    <3> QED
      BY <3>1, <3>2 DEF Grown
  <2>2. ASSUME UNCHANGED boot, boot.at = "answered"  PROVE boot'.upto <= Len(log'[boot'.of])
    <3>1. boot.of \in Sessions /\ boot.upto <= Len(log[boot.of])
      BY <2>2 DEF Shape, Asking, Numbers
    <3> QED
      BY <2>2, <3>1 DEF Grown, TypeOK
  <2>3. ASSUME BootListed \/ BootArrives \/ BootShown \/ BootFails  PROVE boot'.at # "answered"
    BY <2>3 DEF BootListed, BootArrives, BootShown, BootFails, Request, Idle
  <2> QED
    BY <2>1, <2>2, <2>3
       DEF Next, Backend, Boot, Buttons, Answers, Socket, TaskReports, Select, Create,
       SubmitCreates, Submit, Delete, Interrupt, SelectAnswered, SelectShown, SelectFails,
       Sent, DeleteInterrupts, Deleted, RequestFails, Created, SubmitCreated,
       SocketOpens, SocketCloses, Receive, requests
<1>2. handler'.at = "answered" => handler'.upto <= Len(log'[handler'.of])
  <2>1. ASSUME SelectAnswered  PROVE handler'.upto <= Len(log'[handler'.of])
    <3>1. handler.of \in Sessions /\ handler \in Requests
      BY <2>1 DEF SelectAnswered, Shape
    <3>2. handler'.of = handler.of /\ handler'.upto = Len(log[handler.of])
      BY <2>1, <3>1, ServedShape DEF SelectAnswered
    <3> QED
      BY <3>1, <3>2 DEF Grown
  <2>2. ASSUME UNCHANGED handler, handler.at = "answered"
        PROVE  handler'.upto <= Len(log'[handler'.of])
    <3>1. handler.of \in Sessions /\ handler.upto <= Len(log[handler.of])
      BY <2>2 DEF Shape, Numbers
    <3> QED
      BY <2>2, <3>1 DEF Grown, TypeOK
  <2>3. ASSUME handler' = Idle  PROVE handler'.at # "answered"
    BY <2>3 DEF Idle
  <2>4. ASSUME NEW s \in Sessions \cup {NoSession}, NEW k \in RequestKinds,
               handler' = Request(k, "asked", s)
        PROVE  handler'.at # "answered"
    BY <2>4 DEF Request
  <2>5. ASSUME DeleteInterrupts  PROVE handler'.at # "answered"
    BY <2>5 DEF DeleteInterrupts, Shape, Requests
  <2>6. ASSUME NEW s \in Sessions, Select(s) \/ SubmitCreated(s)  PROVE handler'.at # "answered"
    BY <2>6 DEF Select, SubmitCreated, Request
  <2>7. ASSUME Create \/ SubmitCreates \/ Submit \/ Delete  PROVE handler'.at # "answered"
    BY <2>7 DEF Create, SubmitCreates, Submit, Delete, Request
  <2> QED
    BY <2>1, <2>2, <2>3, <2>5, <2>6, <2>7
       DEF Next, Backend, Boot, Buttons, Answers, Socket, TaskReports, BootListed, BootArrives,
       BootAnswered, BootShown, BootFails, Interrupt, SelectShown, SelectFails, Sent, Deleted,
       RequestFails, Created, SocketOpens, SocketCloses, Receive, requests
<1>3. socket'.state = "open" => socket'.next \in 1 .. Len(log'[session']) + 1
  <2>1. ASSUME SocketOpens  PROVE socket'.next \in 1 .. Len(log'[session']) + 1
    <3>1. PICK u \in Nat : session \in Sessions /\ u = Len(log[session])
      BY <2>1 DEF SocketOpens, Shape, TypeOK
    <3>2. Oldest(u) \in 1 .. u + 1
      BY <3>1, HistoryFacts
    <3>3. socket'.next = Oldest(u) /\ log' = log /\ session' = session
      BY <2>1, <3>1 DEF SocketOpens
    <3> QED
      BY <3>1, <3>2, <3>3
  <2>2. ASSUME Receive  PROVE socket'.next \in 1 .. Len(log'[session']) + 1
    <3>1. session \in Sessions /\ socket.next \in 1 .. Len(log[session])
      BY <2>2, NextEvent
    <3>2. socket'.next = socket.next + 1 /\ log' = log /\ session' = session
      BY <2>2 DEF Receive, Shape
    <3> QED
      BY <3>1, <3>2 DEF TypeOK
  <2>3. ASSUME SocketCloses  PROVE socket'.state # "open"
    BY <2>3 DEF SocketCloses, Shape
  <2>4. ASSUME UNCHANGED << socket, session >>, socket.state = "open"
        PROVE  socket'.next \in 1 .. Len(log'[session']) + 1
    <3>1. session \in Sessions /\ socket.next \in 1 .. Len(log[session]) + 1
      BY <2>4 DEF Shape, TypeOK, Numbers
    <3> QED
      BY <2>4, <3>1 DEF Grown, TypeOK
  <2>5. ASSUME NEW s \in Sessions \cup {NoSession}, SetSession(s)
        PROVE  UNCHANGED << socket, session >> \/ socket'.state # "open"
    BY <2>5 DEF SetSession, NoSocket
  <2>6. ASSUME NEW s \in Sessions, Select(s) \/ Created(s) \/ SubmitCreated(s)
        PROVE  SetSession(s)
    BY <2>6 DEF Select, Created, SubmitCreated, NewSession
  <2>7. ASSUME BootArrives  PROVE boot.of \in Sessions /\ SetSession(boot.of)
    BY <2>7 DEF BootArrives, Shape, Asking
  <2>8. ASSUME Deleted  PROVE SetSession(NoSession)
    BY <2>8 DEF Deleted
  <2> QED
    BY <2>1, <2>2, <2>3, <2>4, <2>5, <2>6, <2>7, <2>8
       DEF Next, Backend, Boot, Buttons, Answers, Socket, TaskReports, BootListed,
       BootAnswered, BootShown, BootFails, Create, SubmitCreates, Submit, Delete, Interrupt,
       SelectAnswered, SelectShown, SelectFails, Sent, DeleteInterrupts, RequestFails, page
<1> QED
  BY <1>1, <1>2, <1>3, StepEvents DEF Numbers

\* The part of the inductive invariant that the others rest on.
Sound == TypeOK /\ Shape /\ Logs /\ Numbers

LEMMA InitSound == Init => Sound
<1> SUFFICES ASSUME Init  PROVE Sound
  OBVIOUS
<1> USE ClientAssumption
<1>1. \A q \in { << >>, << "note" >>, << "note", "running" >> } : q \in Seq(Kinds)
  <2>1. << >> \in Seq(Kinds)
    OBVIOUS
  <2>2. << "note" >> \in Seq(Kinds)
    BY DEF Kinds
  <2>3. << "note", "running" >> \in Seq(Kinds)
    BY DEF Kinds
  <2> QED
    BY <2>1, <2>2, <2>3
<1>2. log \in [Sessions -> Seq(Kinds)] /\ up \subseteq Sessions
  BY <1>1 DEF Init
<1>3. TypeOK
  <2>1. events \in Seq(Events) /\ Len(events) <= (IF Kept > Shown THEN Kept ELSE Shown)
    BY DEF Init
  <2>2. \A r \in {handler, boot} : r.of \in Sessions \cup {NoSession} /\ r.upto \in Nat
    BY DEF Init, Idle, Request
  <2>3. cut \in BOOLEAN
    BY Zenon DEF Init
  <2> QED
    BY <1>2, <2>1, <2>2, <2>3 DEF Init, TypeOK, NoSocket
<1>4. Shape
  BY DEF Init, Shape, NoSocket, Idle, Request, Requests, RequestKinds, Moments, Asking
<1>5. Logs
  <2>1. ~cut => \A s \in Sessions : Len(log[s]) <= Kept
    BY <1>2 DEF Init
  <2> QED
    BY <1>2, <2>1 DEF Init, Logs, Request, Asking
<1>6. Numbers
  BY DEF Init, Numbers, Request, Idle, NoSocket
<1> QED
  BY <1>3, <1>4, <1>5, <1>6 DEF Sound

LEMMA StepSound == Sound /\ [Next]_vars => Sound'
<1>1. ASSUME Sound, Next  PROVE Sound'
  <2>1. TypeOK /\ Shape /\ Logs /\ Numbers
    BY <1>1 DEF Sound
  <2>2. Grown
    BY <1>1, <2>1, StepGrows
  <2>3. Shape' /\ PageTyped'
    BY <1>1, <2>1, StepShape
  <2>4. Logs' /\ Numbers'
    BY <1>1, <2>1, <2>2, StepLogs, StepNumbers
  <2>5. events' \in Seq(Events) /\ Len(events') <= (IF Kept > Shown THEN Kept ELSE Shown)
    BY <1>1, <2>1, <2>2, StepEvents
  <2>6. TypeOK'
    BY <2>2, <2>3, <2>5 DEF TypeOK, Grown, Shape, PageTyped, Requests
  <2> QED
    BY <2>3, <2>4, <2>6 DEF Sound
<1>2. ASSUME Sound, UNCHANGED vars  PROVE Sound'
  BY <1>2 DEF Sound, TypeOK, Shape, Logs, Numbers, vars, page, requests, ghosts
<1> QED
  BY <1>1, <1>2

\* The state is typed, and neither a history nor the list outgrows its limit.
THEOREM TypeCorrect == Spec => []TypeOK
<1>1. Sound => TypeOK
  BY DEF Sound
<1> QED
  BY <1>1, InitSound, StepSound, PTL DEF Spec

----------------------------------------------------------------------------
\* Unless it is muddled, the list holds events of the session shown only, except while
\* the history of a selected session is on its way, and none while one is created.
OneView ==
  ~muddled =>
    /\ handler.kind # "select" => \A i \in DOMAIN events : events[i].of = session
    /\ Creating => events = << >>

\* Showing a history leaves the list muddled, or with that history of the session shown.
LEMMA HistoryOfSession ==
  ASSUME NEW r \in Requests, ShowHistory(r), ~muddled'
  PROVE  /\ r.of = session /\ ~Creating
         /\ events' = History(session, r.upto)
         /\ ~lost' => ~(socket.next > r.upto + 1)
<1>1. r.of = session /\ ~Creating
  BY DEF ShowHistory
<1>2. ~lost' => ~(socket.next > r.upto + 1)
  BY <1>1 DEF ShowHistory
<1> QED
  BY <1>1, <1>2 DEF ShowHistory

LEMMA HistoryView ==
  ASSUME NEW s \in Sessions, NEW u \in Nat
  PROVE  \A i \in DOMAIN History(s, u) : History(s, u)[i].of = s
<1>1. PICK n \in Nat : n = u - Oldest(u) + 1
  <2>1. Oldest(u) \in 1 .. u + 1
    BY HistoryFacts
  <2> QED
    BY <2>1
<1>2. DOMAIN History(s, u) = 1 .. n
  BY <1>1 DEF History
<1>3. \A i \in 1 .. n : History(s, u)[i].of = s
  <2>1. \A i \in 1 .. u - Oldest(u) + 1 : History(s, u)[i].of = s
    BY HistoryFacts
  <2> QED
    BY <1>1, <2>1
<1> QED
  BY <1>2, <1>3

LEMMA StepOneView ==
  ASSUME Sound, OneView, Next
  PROVE  OneView'
<1> USE DEF Sound
<1>1. ASSUME UNCHANGED << events, session, muddled, handler >>  PROVE OneView'
  BY <1>1 DEF OneView, Creating
<1>2. ASSUME UNCHANGED << events, session, muddled >>, handler.kind # "select", ~Creating'
      PROVE  OneView'
  BY <1>2 DEF OneView
<1>3. ASSUME events' = << >>  PROVE OneView'
  BY <1>3 DEF OneView
<1>4. ASSUME muddled'  PROVE OneView'
  BY <1>4 DEF OneView
<1>5. ASSUME handler'.kind = "select", ~Creating'  PROVE OneView'
  BY <1>5 DEF OneView
<1>6. ASSUME NEW r \in Requests, r.of \in Sessions, ShowHistory(r), UNCHANGED session,
             UNCHANGED handler \/ handler' = Idle
      PROVE  OneView'
  <2>1. SUFFICES ASSUME ~muddled'  PROVE OneView'
    BY <1>4
  <2>2. r.of = session /\ ~Creating /\ events' = History(session, r.upto)
    BY <1>6, <2>1, HistoryOfSession
  <2>3. \A i \in DOMAIN events' : events'[i].of = session'
    BY <1>6, <2>2, HistoryView DEF Requests
  <2>4. ~Creating'
    BY <1>6, <2>2 DEF Creating
  <2> QED
    BY <2>3, <2>4 DEF OneView
<1>7. ASSUME NEW s \in Sessions, TaskReports(s) \/ Select(s) \/ Created(s) \/ SubmitCreated(s)
      PROVE  OneView'
  <2>1. CASE TaskReports(s)
    BY <1>1, <2>1 DEF TaskReports, page, requests
  <2>2. CASE Select(s)
    BY <1>5, <2>2, ClientAssumption DEF Select, Request, Creating
  <2>3. CASE Created(s) \/ SubmitCreated(s)
    <3>1. Creating /\ events' = events /\ (muddled => muddled')
      <4>1. handler.kind \in {"create", "submit"} /\ handler.of = NoSession
        BY <2>3 DEF Created, SubmitCreated, Shape
      <4>2. Creating
        BY <4>1 DEF Creating, Idle
      <4> QED
        BY <2>3, <4>2 DEF Created, SubmitCreated, NewSession
    <3>2. muddled' \/ events' = << >>
      BY <3>1 DEF OneView
    <3> QED
      BY <1>3, <1>4, <3>2
  <2> QED
    BY <1>7, <2>1, <2>2, <2>3
<1>8. ASSUME Boot  PROVE OneView'
  <2>1. ASSUME BootArrives  PROVE OneView'
    <3>1. muddled' \/ events' = << >>
      BY <2>1 DEF BootArrives
    <3> QED
      BY <1>3, <1>4, <3>1
  <2>2. ASSUME BootShown  PROVE OneView'
    <3>1. boot \in Requests /\ boot.of \in Sessions
      BY <2>2 DEF BootShown, Shape, Asking
    <3> QED
      BY <1>6, <2>2, <3>1 DEF BootShown
  <2> QED
    BY <1>1, <1>8, <2>1, <2>2 DEF Boot, BootListed, BootAnswered, BootFails, page, ghosts
<1>9. ASSUME Create \/ SubmitCreates \/ Submit \/ Delete \/ Interrupt  PROVE OneView'
  <2>1. ASSUME Create \/ SubmitCreates  PROVE OneView'
    BY <1>3, <2>1 DEF Create, SubmitCreates, ClearEvents
  <2>2. ASSUME Submit \/ Delete  PROVE OneView'
    <3>1. handler'.of = session /\ session # NoSession /\ handler = Idle
      BY <2>2 DEF Submit, Delete, Request
    <3>2. ~Creating' /\ handler.kind # "select"
      BY <3>1 DEF Creating, Idle
    <3> QED
      BY <1>2, <2>2, <3>2 DEF Submit, Delete, page, ghosts
  <2>3. ASSUME Interrupt  PROVE OneView'
    BY <1>1, <2>3 DEF Interrupt, page, requests
  <2> QED
    BY <1>9, <2>1, <2>2, <2>3
<1>10. ASSUME SelectAnswered  PROVE OneView'
  <2>1. handler.kind = "select" /\ handler.of \in Sessions /\ handler \in Requests
    BY <1>10 DEF SelectAnswered, Shape
  <2>2. handler'.kind = "select" /\ handler'.of \in Sessions
    BY <1>10, <2>1, ServedShape DEF SelectAnswered
  <2>3. ~Creating'
    BY <2>2, ClientAssumption DEF Creating
  <2> QED
    BY <1>5, <2>2, <2>3
<1>11. ASSUME SelectShown  PROVE OneView'
  <2>1. handler \in Requests /\ handler.of \in Sessions
    BY <1>11 DEF SelectShown, Shape
  <2> QED
    BY <1>6, <1>11, <2>1 DEF SelectShown
<1>12. ASSUME SelectFails \/ Deleted  PROVE OneView'
  BY <1>3, <1>4, <1>12 DEF SelectFails, Deleted, ClearEvents
<1>13. ASSUME Sent \/ DeleteInterrupts \/ RequestFails  PROVE OneView'
  <2>1. handler.kind # "select"
    BY <1>13 DEF Sent, DeleteInterrupts, RequestFails
  <2>2. ~Creating'
    BY <1>13, ClientAssumption DEF Sent, DeleteInterrupts, RequestFails, Creating, Shape, Requests
  <2>3. UNCHANGED << events, session, muddled >>
    BY <1>13 DEF Sent, DeleteInterrupts, RequestFails, page, ghosts
  <2> QED
    BY <1>2, <2>1, <2>2, <2>3
<1>14. ASSUME SocketOpens \/ SocketCloses  PROVE OneView'
  BY <1>1, <1>14 DEF SocketOpens, SocketCloses, requests, ghosts
<1>15. ASSUME Receive  PROVE OneView'
  <2>1. SUFFICES ASSUME ~muddled'  PROVE OneView'
    BY <1>4
  <2>2. ~muddled /\ ~Creating /\ UNCHANGED << session, handler >>
    BY <1>15, <2>1 DEF Receive, requests
  <2>3. PICK e \in Events : e = [of |-> session, n |-> socket.next]
    BY <1>15, NextEvent
  <2>4. UNCHANGED events \/ events' = Newest(Append(events, e))
    BY <1>15, <2>3 DEF Receive, Show
  <2>5. ASSUME handler.kind # "select", events' = Newest(Append(events, e)),
               NEW i \in DOMAIN events'
        PROVE  events'[i].of = session
    <3>1. PICK m \in Nat : m = Len(events) /\ events \in Seq(Events)
      BY DEF TypeOK
    <3>2. PICK r \in Seq(Events) : r = events' /\ Extended(events, e, r)
      BY <2>5, <3>1, NewestFacts DEF Extended
    <3>3. PICK l \in Nat \ {0} :
            /\ l = Len(r) /\ l - 1 <= m /\ r[l] = e
            /\ \A j \in 1 .. l - 1 : r[l - j] = events[m - j + 1]
      <4>1. PICK l \in Nat \ {0} : l = Len(r) /\ l - 1 <= m
        BY <3>1, <3>2, ClientAssumption DEF Extended
      <4> QED
        BY <3>1, <3>2, <4>1 DEF Extended
    <3>4. i \in 1 .. l
      BY <2>5, <3>2, <3>3
    <3>5. CASE i = l
      BY <2>3, <3>2, <3>3, <3>5
    <3>6. CASE i # l
      <4>1. l - i \in 1 .. l - 1 /\ l - (l - i) = i
        BY <3>3, <3>4, <3>6
      <4>2. r[i] = events[m - (l - i) + 1]
        BY <3>3, <4>1
      <4>3. m - (l - i) + 1 \in DOMAIN events
        BY <3>1, <3>3, <4>1
      <4> QED
        BY <2>2, <2>5, <3>2, <4>2, <4>3 DEF OneView
    <3> QED
      BY <3>5, <3>6
  <2>6. ~Creating'
    BY <2>2 DEF Creating
  <2> QED
    BY <2>2, <2>4, <2>5, <2>6 DEF OneView
<1> QED
  BY <1>7, <1>8, <1>9, <1>10, <1>11, <1>12, <1>13, <1>14, <1>15
     DEF Next, Backend, Buttons, Answers, Socket

\* Whatever was selected, created, deleted or sent, and whatever the socket brought
\* meanwhile: at rest the list shows no event of another session than the page does.
THEOREM OneSessionIsShown == Spec => []ShowsSession
<1>1. Init => OneView
  BY DEF Init, OneView
<1>2. Sound /\ OneView /\ [Next]_vars => OneView'
  <2>1. ASSUME OneView, UNCHANGED vars  PROVE OneView'
    BY <2>1 DEF OneView, Creating, vars, page, requests, ghosts
  <2> QED
    BY <2>1, StepOneView
<1>3. OneView => ShowsSession
  BY DEF OneView, ShowsSession, AtRest, Idle
<1> QED
  BY <1>1, <1>2, <1>3, InitSound, StepSound, PTL DEF Spec

----------------------------------------------------------------------------
\* Is an event of the session in the list?
Shows(n) == [of |-> session, n |-> n] \in Range(events)

\* From the place lo on, the list has no gap: what the replay is still to bring is there
\* altogether up to some event, and not at all after it.
NoGap(lo) == \A m, k \in Nat : (lo <= m /\ m <= k /\ Shows(k)) => Shows(m)

InList ==
  (~cut /\ ~muddled) =>
    /\ \A i, j \in DOMAIN events :
         (i < j /\ events[i].of = events[j].of) => events[i].n < events[j].n
    /\ socket.state = "connecting" => NoGap(1)
    /\ socket.state = "open" => NoGap(socket.next)

LEMMA HistoryInList ==
  ASSUME Sound, NEW r \in Requests, r.of \in Sessions, r.upto <= Len(log[r.of]),
         ShowHistory(r), UNCHANGED << session, socket, cut >>
  PROVE  InList'
<1> USE DEF Sound
<1>1. SUFFICES ASSUME ~cut', ~muddled'  PROVE InList'
  BY DEF InList
<1>2. r.of = session /\ events' = History(session, r.upto) /\ session \in Sessions
  BY <1>1, HistoryOfSession
<1>3. PICK u \in Nat : u = r.upto /\ u <= Kept
  <2>1. r.upto \in Nat
    BY DEF Requests
  <2>2. Len(log[r.of]) <= Kept /\ Len(log[r.of]) \in Nat
    BY <1>1 DEF Logs, TypeOK
  <2> QED
    BY <2>1, <2>2, ClientAssumption
<1>4. Oldest(u) = 1
  BY <1>3, ClientAssumption DEF Oldest
<1>5. PICK q \in Seq(Events) :
        /\ q = events' /\ Len(q) = u
        /\ \A i \in 1 .. u : q[i] = [of |-> session, n |-> i]
  <2>1. PICK o \in 1 .. u + 1, q \in Seq(Events) :
          /\ o = Oldest(u) /\ q = History(session, u) /\ Len(q) = u - o + 1
          /\ \A i \in 1 .. u - o + 1 : q[i] = [of |-> session, n |-> o + i - 1]
    BY <1>2, HistoryIs
  <2>2. q = events' /\ Len(q) = u
    BY <1>2, <1>3, <1>4, <2>1
  <2>3. \A i \in 1 .. u : i \in 1 .. u - o + 1 /\ o + i - 1 = i
    BY <1>4, <2>1
  <2>4. \A i \in 1 .. u : q[i] = [of |-> session, n |-> i]
    BY <2>1, <2>3
  <2> QED
    BY <2>2, <2>4
<1>6. \A i \in 1 .. u : q[i].of = session /\ q[i].n = i
  BY <1>5
<1>7. ASSUME NEW n \in Nat  PROVE Shows(n)' <=> n \in 1 .. u
  <2>1. Range(events') = { q[i] : i \in 1 .. u }
    BY <1>5 DEF Range
  <2>2. ASSUME n \in 1 .. u  PROVE [of |-> session, n |-> n] \in Range(events')
    BY <1>5, <2>1, <2>2
  <2>3. ASSUME [of |-> session, n |-> n] \in Range(events')  PROVE n \in 1 .. u
    <3>1. PICK i \in 1 .. u : [of |-> session, n |-> n] = q[i]
      BY <2>1, <2>3
    <3>2. [of |-> session, n |-> n] = [of |-> session, n |-> i]
      BY <1>5, <3>1
    <3>3. n = i
      BY <3>2
    <3> QED
      BY <3>3
  <2> QED
    BY <1>1, <2>2, <2>3 DEF Shows
<1>8. socket.state = "open" => socket.next \in Nat \ {0}
  BY DEF Numbers, Shape, TypeOK
<1>9. ASSUME NEW lo \in Nat \ {0}, NEW m \in Nat, NEW k \in Nat,
             lo <= m, m <= k, Shows(k)'
      PROVE  Shows(m)'
  BY <1>7, <1>9
<1>10. \A i, j \in DOMAIN events' :
         (i < j /\ events'[i].of = events'[j].of) => events'[i].n < events'[j].n
  BY <1>5, <1>6
<1> QED
  BY <1>8, <1>9, <1>10 DEF InList, NoGap

LEMMA EmptyInList ==
  ASSUME events' = << >>
  PROVE  InList'
<1>1. Range(events') = {} /\ DOMAIN events' = {}
  BY DEF Range
<1>2. \A n : ~Shows(n)'
  BY <1>1 DEF Shows
<1> QED
  BY <1>1, <1>2 DEF InList, NoGap

LEMMA ReceiveInList ==
  ASSUME Sound, OneView, InList, Receive
  PROVE  InList'
<1> USE DEF Sound
<1>1. SUFFICES ASSUME ~cut', ~muddled'  PROVE InList'
  BY DEF InList
<1>2. PICK next \in Nat \ {0} :
        /\ next = socket.next /\ socket.state = "open" /\ session \in Sessions
        /\ UNCHANGED << session, log >> /\ socket' = [socket EXCEPT !.next = next + 1]
  <2>1. session \in Sessions /\ socket.next \in 1 .. Len(log[session])
    BY NextEvent
  <2>2. PICK next \in Nat \ {0} : next = socket.next
    BY <2>1 DEF TypeOK
  <2> QED
    BY <2>1, <2>2 DEF Receive
<1>3. socket'.state = "open" /\ socket'.next = next + 1
  BY <1>2 DEF Shape
<1>4. PICK e \in Events : e = [of |-> session, n |-> next]
  BY <1>2, NextEvent
<1>5. ~muddled /\ ~cut
  BY <1>1 DEF Receive, Show
<1>6. /\ \A i, j \in DOMAIN events :
           (i < j /\ events[i].of = events[j].of) => events[i].n < events[j].n
      /\ NoGap(next)
  BY <1>2, <1>5 DEF InList
<1>7. CASE e \in Range(events)
  <2>1. UNCHANGED events
    BY <1>2, <1>4, <1>7 DEF Receive
  <2>2. \A n : Shows(n)' <=> Shows(n)
    BY <1>2, <2>1 DEF Shows
  <2>3. NoGap(next + 1)'
    BY <1>6, <2>2 DEF NoGap
  <2>4. NoGap(next + 1)' = NoGap(socket.next)'
    BY <1>3
  <2> QED
    BY <1>3, <1>6, <2>1, <2>3, <2>4 DEF InList
<1>8. CASE e \notin Range(events)
  <2>1. PICK q \in Seq(Events), l \in Nat :
          q = events /\ l = Len(events) /\ events' = Append(q, e)
    <3>1. events' = Newest(Append(events, e)) /\ ~(Len(events) >= Shown)
      BY <1>1, <1>2, <1>4, <1>8 DEF Receive, Show
    <3>2. events \in Seq(Events) /\ Len(events) \in Nat
      BY DEF TypeOK
    <3>3. Len(events) < Shown
      BY <3>1, <3>2, ClientAssumption
    <3> QED
      BY <3>1, <3>2, <3>3, NewestFacts DEF Extended
  <2>2. /\ DOMAIN events' = 1 .. l + 1 /\ events'[l + 1] = e
        /\ \A i \in 1 .. l : events'[i] = events[i]
    BY <2>1
  <2>3. \A n \in Nat : Shows(n) => n < next
    <3>1. ~Shows(next)
      BY <1>4, <1>8 DEF Shows
    <3> QED
      BY <1>2, <1>6, <3>1 DEF NoGap
  <2>4. ASSUME NEW i \in 1 .. l, events[i].of = session  PROVE events[i].n < next
    <3>1. events[i] \in Events /\ events[i] \in Range(events)
      BY <2>1 DEF Range
    <3>2. events[i] = [of |-> session, n |-> events[i].n] /\ events[i].n \in Nat
      BY <2>4, <3>1 DEF Events
    <3> QED
      BY <2>3, <3>1, <3>2 DEF Shows
  <2>5. \A i, j \in DOMAIN events' :
          (i < j /\ events'[i].of = events'[j].of) => events'[i].n < events'[j].n
    <3>1. SUFFICES ASSUME NEW i \in 1 .. l + 1, NEW j \in 1 .. l + 1,
                          i < j, events'[i].of = events'[j].of
                   PROVE  events'[i].n < events'[j].n
      BY <2>2
    <3>2. i \in 1 .. l /\ events'[i] = events[i]
      BY <2>2, <3>1
    <3>3. CASE j = l + 1
      BY <1>4, <2>2, <2>4, <3>1, <3>2, <3>3
    <3>4. CASE j \in 1 .. l
      BY <1>6, <2>1, <2>2, <3>1, <3>2, <3>4
    <3> QED
      BY <3>3, <3>4
  <2>6. ASSUME NEW m \in Nat, NEW k \in Nat, next + 1 <= m, m <= k, Shows(k)'  PROVE FALSE
    <3>1. PICK i \in 1 .. l + 1 : events'[i] = [of |-> session, n |-> k]
      BY <1>2, <2>2, <2>6 DEF Shows, Range
    <3>2. k # next /\ ~(k < next)
      BY <2>6
    <3>3. i # l + 1
      BY <1>4, <2>2, <3>1, <3>2
    <3>4. i \in 1 .. l /\ events[i] = [of |-> session, n |-> k]
      BY <2>2, <3>1, <3>3
    <3>5. events[i].of = session /\ events[i].n = k
      BY <3>4
    <3> QED
      BY <2>4, <3>2, <3>4, <3>5
  <2>7. NoGap(next + 1)'
    BY <2>6 DEF NoGap
  <2>8. NoGap(next + 1)' = NoGap(socket.next)'
    BY <1>3
  <2> QED
    BY <1>3, <2>5, <2>7, <2>8 DEF InList
<1> QED
  BY <1>7, <1>8

\* A session that the list shows nothing of may be gone to.
LEMMA GoInList ==
  ASSUME OneView, InList, NEW s \in Sessions, SetSession(s), UNCHANGED events,
         muddled => muddled', cut => cut', handler.kind # "select", s # session
  PROVE  InList'
<1>1. SUFFICES ASSUME ~cut', ~muddled'  PROVE InList'
  BY DEF InList
<1>2. \A i \in DOMAIN events : events[i].of = session
  BY <1>1 DEF OneView
<1>3. session' = s /\ socket'.state # "open"
  BY ClientAssumption DEF SetSession
<1>4. ASSUME NEW n \in Nat  PROVE ~Shows(n)'
  <2>1. [of |-> s, n |-> n] \notin Range(events)
    BY <1>2 DEF Range
  <2> QED
    BY <1>3, <2>1 DEF Shows
<1>5. NoGap(1)'
  BY <1>4 DEF NoGap
<1> QED
  BY <1>1, <1>3, <1>5 DEF InList

LEMMA StepInList ==
  ASSUME Sound, Sound', OneView, InList, Next
  PROVE  InList'
<1> USE DEF Sound
<1>1. ASSUME UNCHANGED << events, session, socket >>, muddled => muddled', cut => cut'
      PROVE  InList'
  BY <1>1 DEF InList, NoGap, Shows
<1>2. ASSUME muddled'  PROVE InList'
  BY <1>2 DEF InList
<1>3. ASSUME NEW s \in Sessions, NEW kind, Publish(s, kind)  PROVE cut => cut'
  BY <1>3 DEF Publish
<1>4. ASSUME Backend \/ Interrupt \/ Sent \/ DeleteInterrupts  PROVE InList'
  <2>1. UNCHANGED << events, session, socket, muddled >>
    BY <1>4 DEF Backend, TaskReports, Interrupt, Sent, DeleteInterrupts, page
  <2>2. cut => cut'
    BY <1>4 DEF Backend, TaskReports, Interrupt, Sent, DeleteInterrupts, Publish
  <2> QED
    BY <1>1, <2>1, <2>2
<1>5. ASSUME Boot  PROVE InList'
  <2>1. ASSUME BootArrives  PROVE InList'
    <3>1. muddled' \/ events' = << >>
      BY <2>1 DEF BootArrives
    <3> QED
      BY <1>2, <3>1, EmptyInList
  <2>2. ASSUME BootShown  PROVE InList'
    <3>1. boot \in Requests /\ boot.of \in Sessions /\ boot.upto <= Len(log[boot.of])
      BY <2>2 DEF BootShown, Shape, Asking, Numbers
    <3> QED
      BY <2>2, <3>1, HistoryInList DEF BootShown
  <2> QED
    BY <1>1, <1>5, <2>1, <2>2 DEF Boot, BootListed, BootAnswered, BootFails, page, ghosts
<1>6. ASSUME NEW s \in Sessions, Select(s)  PROVE InList'
  BY <1>6, GoInList DEF Select, Idle
<1>7. ASSUME NEW s \in Sessions, Created(s) \/ SubmitCreated(s)  PROVE InList'
  <2>1. handler.kind \in {"create", "submit"} /\ handler.of = NoSession
    BY <1>7 DEF Created, SubmitCreated, Shape
  <2>2. Creating
    BY <2>1 DEF Creating, Idle
  <2>3. UNCHANGED events /\ (muddled => muddled')
    BY <1>7 DEF Created, SubmitCreated, NewSession
  <2>4. muddled' \/ events' = << >>
    BY <2>2, <2>3 DEF OneView
  <2> QED
    BY <1>2, <2>4, EmptyInList
<1>8. ASSUME Create \/ SubmitCreates \/ Deleted  PROVE InList'
  BY <1>8, EmptyInList DEF Create, SubmitCreates, Deleted, ClearEvents
<1>9. ASSUME Submit \/ Delete \/ SelectAnswered \/ SelectFails \/ RequestFails  PROVE InList'
  BY <1>1, <1>2, <1>9 DEF Submit, Delete, SelectAnswered, SelectFails, RequestFails, page, ghosts
<1>10. ASSUME SelectShown  PROVE InList'
  <2>1. handler \in Requests /\ handler.of \in Sessions /\ handler.upto <= Len(log[handler.of])
    BY <1>10 DEF SelectShown, Shape, Numbers
  <2> QED
    BY <1>10, <2>1, HistoryInList DEF SelectShown
<1>11. ASSUME SocketOpens  PROVE InList'
  <2>1. SUFFICES ASSUME ~cut', ~muddled'  PROVE InList'
    BY DEF InList
  <2>2. /\ socket.state = "connecting" /\ socket'.next = Oldest(Len(log[session]))
        /\ UNCHANGED << events, session, cut, muddled >>
    BY <1>11 DEF SocketOpens, ghosts
  <2>3. Len(log[session]) \in Nat /\ Len(log[session]) <= Kept
    BY <2>1, <2>2 DEF Shape, TypeOK, Logs
  <2>4. socket'.next = 1 /\ socket'.state = "open"
    BY <1>11, <2>2, <2>3, ClientAssumption DEF Oldest, SocketOpens
  <2>5. NoGap(1) /\ (NoGap(1)' <=> NoGap(1))
    BY <2>1, <2>2 DEF InList, NoGap, Shows
  <2>6. NoGap(1)' = NoGap(socket.next)'
    BY <2>4
  <2> QED
    BY <2>1, <2>2, <2>4, <2>5, <2>6 DEF InList
<1>12. ASSUME SocketCloses  PROVE InList'
  BY <1>12 DEF SocketCloses, InList, Shape, ghosts
<1> QED
  BY <1>4, <1>5, <1>6, <1>7, <1>8, <1>9, <1>10, <1>11, <1>12, ReceiveInList
     DEF Next, Buttons, Answers, Socket

\* The loaded history and the socket's replay of it come in any order and overlap as they
\* may: without a cut, each event is shown once, and after the events before it.
THEOREM ListIsInOrder == Spec => []ListOrdered
<1>1. Init => OneView /\ InList
  BY DEF Init, OneView, InList, NoSocket
<1>2. Sound /\ OneView /\ InList /\ [Next]_vars => (OneView /\ InList)'
  <2>1. ASSUME OneView, InList, UNCHANGED vars  PROVE (OneView /\ InList)'
    BY <2>1 DEF OneView, Creating, InList, NoGap, Shows, vars, page, requests, ghosts
  <2> QED
    BY <2>1, StepSound, StepOneView, StepInList
<1>3. InList => ListOrdered
  BY DEF InList, ListOrdered
<1> QED
  BY <1>1, <1>2, <1>3, InitSound, StepSound, PTL DEF Spec

----------------------------------------------------------------------------
\* The list ends with the events lo .. hi, and shows none after them.
Run(lo, hi) ==
  /\ hi - lo + 1 \in 0 .. Len(events)
  /\ \A k \in 0 .. hi - lo : events[Len(events) - k].n = hi - k
  /\ \A i \in DOMAIN events : events[i].n <= hi

\* Before its socket is open, the page has a run that begins no later than the replay will.
Before ==
  \E lo, hi \in Nat :
    /\ Run(lo, hi) /\ lo \in 1 .. Oldest(Len(log[session])) /\ hi <= Len(log[session])

\* The replay goes on in the run or right after it, which holds what the broker keeps or
\* fills the list.
Along ==
  \E lo, hi \in Nat :
    /\ Run(lo, hi) /\ lo > 0 /\ hi <= Len(log[session])
    /\ lo <= Oldest(Len(log[session])) \/ hi - lo + 1 >= Shown
    /\ socket.next \in lo .. hi + 1

\* A replay begun before the cut brings back m events that the history, up to u, no longer
\* had; the list is full, so they drive out what comes next in the replay.
Behind ==
  \E m \in 0 .. Shown - 1, u \in Nat :
    /\ Len(events) >= Shown /\ (m > 0 => Len(events) = Shown)
    /\ u <= Len(log[session])
    /\ \A k \in 0 .. m - 1 : events[Len(events) - k].n = socket.next - 1 - k
    /\ \A k \in m .. Len(events) - 1 : events[Len(events) - k].n = u - (k - m)
    /\ socket.next < u - (Len(events) - m - 1)

InStep ==
  (~muddled /\ ~lost /\ handler.kind # "select" /\ session # NoSession) =>
    /\ socket.state = "connecting" => Before
    /\ socket.state = "open" => Along \/ Behind

LEMMA OldestGrows ==
  ASSUME NEW u \in Nat, NEW v \in Nat, u <= v
  PROVE  Oldest(u) \in Nat \ {0} /\ Oldest(v) \in Nat \ {0} /\ Oldest(u) <= Oldest(v)
BY ClientAssumption DEF Oldest

\* The page stays in step while only the logs grow.
LEMMA KeepsStep ==
  ASSUME Sound, Grown, InStep, UNCHANGED << events, session, socket >>,
         muddled => muddled', lost => lost', handler.kind = "select" => handler'.kind = "select"
  PROVE  InStep'
<1> USE DEF Sound
<1>1. SUFFICES ASSUME ~muddled', ~lost', handler'.kind # "select", session' # NoSession
               PROVE  /\ socket'.state = "connecting" => Before'
                      /\ socket'.state = "open" => (Along \/ Behind)'
  BY DEF InStep
<1>2. /\ socket.state = "connecting" => Before
      /\ socket.state = "open" => Along \/ Behind
  BY <1>1 DEF InStep
<1>3. PICK u \in Nat, v \in Nat :
        u = Len(log[session]) /\ v = Len(log'[session]) /\ u <= v
  <2>1. session \in Sessions
    BY <1>1 DEF TypeOK
  <2>2. Len(log[session]) \in Nat /\ Len(log'[session]) \in Nat
    BY <2>1 DEF TypeOK, Grown
  <2> QED
    BY <2>1, <2>2 DEF Grown
<1>4. Oldest(u) \in Nat \ {0} /\ Oldest(v) \in Nat \ {0} /\ Oldest(u) <= Oldest(v)
  BY <1>3, OldestGrows
<1>5. \A lo, hi : Run(lo, hi)' <=> Run(lo, hi)
  BY DEF Run
<1>6. ASSUME Before  PROVE Before'
  <2>1. PICK lo \in Nat, hi \in Nat : Run(lo, hi) /\ lo \in 1 .. Oldest(u) /\ hi <= u
    BY <1>3, <1>6 DEF Before
  <2>2. Run(lo, hi)' /\ lo \in 1 .. Oldest(v) /\ hi <= v
    BY <1>3, <1>4, <1>5, <2>1
  <2> QED
    BY <1>3, <2>2 DEF Before
<1>7. ASSUME Along  PROVE Along'
  <2>1. PICK lo \in Nat, hi \in Nat :
          /\ Run(lo, hi) /\ lo > 0 /\ hi <= u
          /\ lo <= Oldest(u) \/ hi - lo + 1 >= Shown
          /\ socket.next \in lo .. hi + 1
    BY <1>3, <1>7 DEF Along
  <2>2. Run(lo, hi)' /\ hi <= v /\ (lo <= Oldest(v) \/ hi - lo + 1 >= Shown)
    BY <1>3, <1>4, <1>5, <2>1
  <2> QED
    BY <1>3, <2>1, <2>2 DEF Along
<1>8. ASSUME Behind  PROVE Behind'
  <2>1. PICK m \in 0 .. Shown - 1, n \in Nat :
          /\ Len(events) >= Shown /\ (m > 0 => Len(events) = Shown)
          /\ n <= u
          /\ \A k \in 0 .. m - 1 : events[Len(events) - k].n = socket.next - 1 - k
          /\ \A k \in m .. Len(events) - 1 : events[Len(events) - k].n = n - (k - m)
          /\ socket.next < n - (Len(events) - m - 1)
    BY <1>3, <1>8 DEF Behind
  <2>2. n <= Len(log'[session'])
    BY <1>3, <2>1
  <2> QED
    BY <2>1, <2>2 DEF Behind
<1> QED
  BY <1>2, <1>6, <1>7, <1>8

\* A session gone to with an empty list is in step.
LEMMA StartsInStep ==
  ASSUME Grown, NEW s \in Sessions, session' = s, events' = << >>,
         socket'.state = "connecting"
  PROVE  InStep'
<1>1. PICK v \in Nat : v = Len(log'[s])
  BY DEF Grown
<1>2. Oldest(v) \in Nat \ {0}
  BY <1>1, OldestGrows
<1>3. Run(1, 0)'
  BY DEF Run
<1>4. 1 \in 1 .. Oldest(v) /\ 0 <= v
  BY <1>2
<1>5. Before'
  BY <1>1, <1>3, <1>4 DEF Before
<1> QED
  BY <1>5 DEF InStep

LEMMA HistoryInStep ==
  ASSUME Sound, Shown <= Kept, NEW r \in Requests, r.of \in Sessions,
         r.upto <= Len(log[r.of]), ShowHistory(r), UNCHANGED << log, session, socket >>
  PROVE  InStep'
<1> USE DEF Sound
<1>1. SUFFICES ASSUME ~muddled', ~lost', session' # NoSession
               PROVE  /\ socket'.state = "connecting" => Before'
                      /\ socket'.state = "open" => (Along \/ Behind)'
  BY DEF InStep
<1>2. /\ r.of = session /\ session \in Sessions
      /\ events' = History(session, r.upto)
      /\ ~(socket.next > r.upto + 1)
  BY <1>1, HistoryOfSession
<1>3. PICK u \in Nat, v \in Nat : u = r.upto /\ v = Len(log[session]) /\ u <= v
  BY <1>2 DEF Requests, TypeOK
<1>4. PICK o \in 1 .. u + 1, q \in Seq(Events) :
        /\ o = Oldest(u) /\ q = events' /\ Len(q) = u - o + 1
        /\ \A i \in 1 .. u - o + 1 : q[i] = [of |-> session, n |-> o + i - 1]
  BY <1>2, <1>3, HistoryIs, ZenonT(60)
<1>5. PICK l \in Nat : l = Len(q) /\ l = u - o + 1
  BY <1>4
<1>6. \A i \in 1 .. l : q[i].n = o + i - 1
  BY <1>4, <1>5
<1>7. \A k \in 0 .. l - 1 : q[l - k].n = u - k
  <2>1. SUFFICES ASSUME NEW k \in 0 .. l - 1  PROVE q[l - k].n = u - k
    OBVIOUS
  <2>2. l - k \in 1 .. l /\ o + (l - k) - 1 = u - k
    BY <1>5
  <2> QED
    BY <1>6, <2>2
<1>8. Run(o, u)'
  <2>1. u - o + 1 \in 0 .. l /\ u - o = l - 1
    BY <1>5
  <2>2. \A i \in 1 .. l : q[i].n <= u
    BY <1>5, <1>6
  <2>3. DOMAIN q = 1 .. l
    BY <1>4, <1>5
  <2> QED
    BY <1>4, <1>5, <1>7, <2>1, <2>2, <2>3 DEF Run
<1>9. PICK p \in Nat \ {0} : p = Oldest(v) /\ o <= p
  BY <1>3, <1>4, OldestGrows
<1>10. Before'
  <2>1. o \in Nat /\ o \in 1 .. p /\ u <= v
    BY <1>3, <1>4, <1>9
  <2> QED
    BY <1>3, <1>8, <1>9, <2>1 DEF Before
<1>11. ASSUME socket'.state = "open"  PROVE (Along \/ Behind)'
  <2>1. PICK x \in Nat \ {0} : x = socket.next /\ x <= u + 1
    <3>1. socket.next \in Nat \ {0}
      BY <1>2, <1>11 DEF Numbers, TypeOK
    <3> QED
      BY <1>2, <1>3, <3>1
  <2>2. CASE x >= o
    <3>1. o \in Nat /\ o > 0 /\ o <= p /\ x \in o .. u + 1 /\ u <= v
      BY <1>3, <1>4, <1>9, <2>1, <2>2
    <3>2. Along'
      BY <1>3, <1>8, <1>9, <2>1, <3>1 DEF Along
    <3> QED
      BY <3>2
  <2>3. CASE x < o
    <3>1. u > Kept /\ o = u - Kept + 1
      BY <1>4, <2>1, <2>3, ClientAssumption DEF Oldest
    <3>2. l >= Shown /\ 0 \in 0 .. Shown - 1
      BY <1>5, <3>1, ClientAssumption
    <3>3. x < u - (l - 0 - 1)
      BY <1>5, <2>1, <2>3
    <3>4. \A k \in 0 .. l - 1 : q[l - k].n = u - (k - 0)
      BY <1>7
    <3>5. \A k \in 0 .. 0 - 1 : FALSE
      OBVIOUS
    <3>6. u <= Len(log'[session']) /\ socket'.next = x /\ Len(events') = l /\ events' = q
      BY <1>3, <1>4, <1>5, <2>1
    <3>7. /\ Len(events') >= Shown /\ (0 > 0 => Len(events') = Shown)
          /\ \A k \in 0 .. 0 - 1 : events'[Len(events') - k].n = socket'.next - 1 - k
          /\ \A k \in 0 .. Len(events') - 1 : events'[Len(events') - k].n = u - (k - 0)
          /\ socket'.next < u - (Len(events') - 0 - 1)
      BY <3>2, <3>3, <3>4, <3>5, <3>6
    <3>8. Behind'
      BY <3>2, <3>6, <3>7 DEF Behind
    <3> QED
      BY <3>8
  <2> QED
    BY <2>1, <2>2, <2>3
<1> QED
  BY <1>10, <1>11

LEMMA OpensInStep ==
  ASSUME Sound, InStep, SocketOpens
  PROVE  InStep'
<1> USE DEF Sound
<1>1. SUFFICES ASSUME ~muddled', ~lost', handler'.kind # "select", session' # NoSession
               PROVE  Along'
  BY DEF InStep, SocketOpens
<1>2. /\ Before /\ session \in Sessions /\ UNCHANGED << log, session, events >>
      /\ socket' = [state |-> "open", next |-> Oldest(Len(log[session]))]
  BY <1>1 DEF SocketOpens, InStep, TypeOK, requests, ghosts
<1>3. PICK v \in Nat : v = Len(log[session])
  BY <1>2 DEF TypeOK
<1>4. PICK x \in 1 .. v + 1 : x = Oldest(v) /\ x = socket'.next
  BY <1>2, <1>3, HistoryFacts
<1>5. PICK lo \in Nat, hi \in Nat : Run(lo, hi) /\ lo \in 1 .. x /\ hi <= v
  BY <1>2, <1>3, <1>4 DEF Before
<1>6. \A a, b : Run(a, b)' <=> Run(a, b)
  BY <1>2 DEF Run
<1>7. CASE x <= hi + 1
  BY <1>2, <1>3, <1>4, <1>5, <1>6, <1>7 DEF Along
<1>8. CASE x > hi + 1
  <2>1. \A i \in DOMAIN events : events[i].n <= hi /\ events[i].n \in Nat
    <3>1. \A i \in DOMAIN events : events[i] \in Events
      BY DEF TypeOK
    <3> QED
      BY <1>5, <3>1 DEF Run, Events
  <2>2. (x - 1) - x + 1 = 0 /\ 0 .. (x - 1) - x = {} /\ Len(events) \in Nat
    BY DEF TypeOK
  <2>3. Run(x, x - 1)
    BY <1>8, <2>1, <2>2 DEF Run
  <2>4. x \in Nat /\ x - 1 \in Nat /\ x > 0 /\ x - 1 <= v /\ x \in x .. (x - 1) + 1
    BY <1>4
  <2> QED
    BY <1>2, <1>3, <1>4, <1>6, <2>3, <2>4 DEF Along
<1> QED
  BY <1>5, <1>7, <1>8

\* The socket goes on along the run: it skips what is there, and adds what comes after.
LEMMA ReceiveAlong ==
  ASSUME Sound, OneView, Receive, Along, ~muddled', handler.kind # "select"
  PROVE  Along'
<1> USE DEF Sound
<1>1. PICK x \in Nat \ {0}, v \in Nat :
        /\ x = socket.next /\ v = Len(log[session]) /\ x <= v
        /\ session \in Sessions /\ UNCHANGED << session, log >>
        /\ socket' = [socket EXCEPT !.next = x + 1]
  <2>1. session \in Sessions /\ socket.next \in 1 .. Len(log[session])
    BY NextEvent
  <2>2. PICK x \in Nat \ {0}, v \in Nat : x = socket.next /\ v = Len(log[session]) /\ x <= v
    BY <2>1 DEF TypeOK
  <2> QED
    BY <2>1, <2>2 DEF Receive
<1>2. socket'.next = x + 1
  BY <1>1 DEF Shape
<1>3. PICK e \in Events : e = [of |-> session, n |-> x]
  BY <1>1, NextEvent
<1>4. \A i \in DOMAIN events : events[i] \in Events /\ events[i].of = session
  BY DEF OneView, Receive, TypeOK
<1>5. PICK E \in Nat : E = Len(events) /\ DOMAIN events = 1 .. E /\ events \in Seq(Events)
  BY DEF TypeOK
<1>6. PICK lo \in Nat, hi \in Nat, p \in Nat :
        /\ Run(lo, hi) /\ lo > 0 /\ hi <= v /\ p = Oldest(v)
        /\ lo <= p \/ hi - lo + 1 >= Shown
        /\ x \in lo .. hi + 1
  <2>1. PICK lo \in Nat, hi \in Nat :
          /\ Run(lo, hi) /\ lo > 0 /\ hi <= v
          /\ lo <= Oldest(v) \/ hi - lo + 1 >= Shown
          /\ x \in lo .. hi + 1
    BY <1>1 DEF Along
  <2>2. Oldest(v) \in Nat
    BY OldestGrows
  <2> QED
    BY <2>1, <2>2
<1>7. /\ hi - lo + 1 \in 0 .. E
      /\ \A k \in 0 .. hi - lo : events[E - k].n = hi - k
      /\ \A i \in 1 .. E : events[i].n <= hi
  BY <1>5, <1>6 DEF Run
<1>8. CASE x <= hi
  <2>1. hi - x \in 0 .. hi - lo /\ E - (hi - x) \in 1 .. E /\ hi - (hi - x) = x
    BY <1>6, <1>7, <1>8
  <2>2. events[E - (hi - x)].n = x
    BY <1>7, <2>1
  <2>3. events[E - (hi - x)] = e
    BY <1>3, <1>4, <1>5, <2>1, <2>2 DEF Events
  <2>4. e \in Range(events)
    BY <1>5, <2>1, <2>3 DEF Range
  <2>5. UNCHANGED events
    BY <1>1, <1>3, <2>4 DEF Receive
  <2>6. Run(lo, hi)'
    BY <1>6, <2>5 DEF Run
  <2>7. x + 1 \in lo .. hi + 1
    BY <1>6, <1>8
  <2> QED
    BY <1>1, <1>2, <1>6, <2>6, <2>7 DEF Along
<1>9. CASE x = hi + 1
  <2>1. e \notin Range(events)
    <3>1. \A i \in 1 .. E : events[i].n # x
      BY <1>4, <1>5, <1>7, <1>9 DEF Events
    <3> QED
      BY <1>3, <1>5, <3>1 DEF Range
  <2>2. PICK r \in Seq(Events) : r = events' /\ Extended(events, e, r)
    BY <1>1, <1>3, <1>5, <2>1, NewestFacts DEF Receive, Show, Extended
  <2>3. PICK l \in Nat \ {0} :
          /\ l = Len(r) /\ DOMAIN r = 1 .. l
          /\ l = IF E < Shown THEN E + 1 ELSE Shown
    BY <1>5, <2>2, ClientAssumption DEF Extended
  <2>4. r[l] = e /\ \A j \in 1 .. l - 1 : r[l - j] = events[E - j + 1]
    BY <1>5, <2>2, <2>3 DEF Extended
  <2>5. PICK first \in Nat :
          /\ first > 0 /\ lo <= first /\ first <= x /\ x - first + 1 <= l
          /\ first <= p \/ x - first + 1 >= Shown
    <3>1. CASE x - lo + 1 <= l
      BY <1>6, <1>9, <3>1, ClientAssumption
    <3>2. CASE ~(x - lo + 1 <= l)
      <4>1. l = Shown
        BY <1>6, <1>7, <1>9, <2>3, <3>2, ClientAssumption
      <4>2. PICK first \in Nat : first = x - l + 1 /\ first > lo
        <5>1. x - l + 1 \in Int /\ x - l + 1 > lo
          BY <3>2
        <5> QED
          BY <5>1
      <4>3. first > 0 /\ lo <= first /\ first <= x /\ x - first + 1 = l
        BY <1>6, <2>3, <4>2
      <4> QED
        <5>1. x - first + 1 <= l /\ x - first + 1 >= Shown
          BY <4>1, <4>3, ClientAssumption
        <5> QED
          BY <4>3, <5>1
    <3> QED
      BY <3>1, <3>2
  <2>6. ASSUME NEW k \in 0 .. x - first  PROVE r[l - k].n = x - k
    <3>1. CASE k = 0
      BY <1>3, <2>3, <2>4, <3>1
    <3>2. CASE k # 0
      <4>1. k \in 1 .. l - 1
        <5>1. k <= x - first /\ k \in Nat /\ k > 0
          BY <3>2
        <5>2. x - first + 1 <= l
          BY <2>5
        <5> QED
          BY <5>1, <5>2
      <4>2. k - 1 \in 0 .. hi - lo /\ E - (k - 1) = E - k + 1 /\ hi - (k - 1) = x - k
        BY <1>9, <2>5, <3>2
      <4>3. events[E - k + 1].n = x - k
        BY <1>7, <4>2
      <4> QED
        BY <2>4, <4>1, <4>3
    <3> QED
      BY <3>1, <3>2
  <2>7. ASSUME NEW i \in 1 .. l  PROVE r[i].n <= x
    <3>1. CASE i = l
      BY <1>3, <2>4, <3>1
    <3>2. CASE i # l
      <4>1. l - i \in 1 .. l - 1 /\ l - (l - i) = i /\ E - (l - i) + 1 \in 1 .. E
        BY <1>5, <2>3, <3>2
      <4>2. r[i] = events[E - (l - i) + 1]
        BY <2>4, <4>1
      <4>3. events[E - (l - i) + 1].n <= hi /\ events[E - (l - i) + 1].n \in Nat
        BY <1>4, <1>5, <1>7, <4>1 DEF Events
      <4> QED
        BY <1>9, <4>2, <4>3
    <3> QED
      BY <3>1, <3>2
  <2>8. Run(first, x)'
    <3>1. x - first + 1 \in 0 .. l
      BY <2>5
    <3> QED
      BY <2>2, <2>3, <2>6, <2>7, <3>1 DEF Run
  <2>9. first > 0 /\ x <= v /\ x \in Nat /\ x + 1 \in first .. x + 1
    BY <1>1, <2>5
  <2> QED
    BY <1>1, <1>2, <1>6, <2>5, <2>8, <2>9 DEF Along
<1> QED
  BY <1>6, <1>8, <1>9

\* The replay brings an event back; when the last but one of the full list goes, what it
\* has brought is the run.
LEMMA ReceiveBehind ==
  ASSUME Sound, OneView, Receive, Behind, ~muddled', handler.kind # "select"
  PROVE  (Along \/ Behind)'
<1> USE DEF Sound
<1>1. PICK x \in Nat \ {0}, v \in Nat :
        /\ x = socket.next /\ v = Len(log[session]) /\ x <= v
        /\ session \in Sessions /\ UNCHANGED << session, log >>
        /\ socket' = [socket EXCEPT !.next = x + 1]
  <2>1. session \in Sessions /\ socket.next \in 1 .. Len(log[session])
    BY NextEvent
  <2>2. PICK x \in Nat \ {0}, v \in Nat : x = socket.next /\ v = Len(log[session]) /\ x <= v
    BY <2>1 DEF TypeOK
  <2> QED
    BY <2>1, <2>2 DEF Receive
<1>2. socket'.next = x + 1
  BY <1>1 DEF Shape
<1>3. PICK e \in Events : e = [of |-> session, n |-> x]
  BY <1>1, NextEvent
<1>4. PICK E \in Nat : E = Len(events) /\ DOMAIN events = 1 .. E /\ events \in Seq(Events)
  BY DEF TypeOK
<1>5. \A i \in 1 .. E : events[i].n \in Nat \ {0}
  <2>1. \A i \in 1 .. E : events[i] \in Events
    BY <1>4
  <2> QED
    BY <2>1 DEF Events
<1>6. PICK m \in 0 .. Shown - 1, u \in Nat :
        /\ E >= Shown /\ (m > 0 => E = Shown) /\ u <= v
        /\ \A k \in 0 .. m - 1 : events[E - k].n = x - 1 - k
        /\ \A k \in m .. E - 1 : events[E - k].n = u - (k - m)
        /\ x < u - (E - m - 1)
  BY <1>1, <1>4 DEF Behind
<1>7. e \notin Range(events)
  <2>1. ASSUME NEW i \in 1 .. E  PROVE events[i].n # x
    <3>1. E - i \in 0 .. E - 1 /\ E - (E - i) = i
      OBVIOUS
    <3>2. CASE E - i \in 0 .. m - 1
      <4>1. events[i].n = x - 1 - (E - i)
        BY <1>6, <3>1, <3>2
      <4> QED
        BY <1>1, <3>2, <4>1
    <3>3. CASE E - i \in m .. E - 1
      <4>1. events[i].n = u - ((E - i) - m)
        BY <1>6, <3>1, <3>3
      <4> QED
        BY <1>1, <1>6, <3>3, <4>1
    <3> QED
      BY <1>6, <3>1, <3>2, <3>3
  <2> QED
    BY <1>3, <1>4, <2>1 DEF Range
<1>8. PICK r \in Seq(Events) : r = events' /\ Extended(events, e, r)
  BY <1>1, <1>3, <1>4, <1>7, NewestFacts DEF Receive, Show, Extended
<1>9. Len(r) = Shown /\ DOMAIN r = 1 .. Shown
  BY <1>4, <1>6, <1>8, ClientAssumption DEF Extended
<1>10. r[Shown] = e /\ \A j \in 1 .. Shown - 1 : r[Shown - j] = events[E - j + 1]
  BY <1>4, <1>8, <1>9 DEF Extended
<1>11. ASSUME NEW k \in 0 .. m  PROVE r[Shown - k].n = x - k
  <2>1. CASE k = 0
    BY <1>3, <1>10, <2>1, ClientAssumption
  <2>2. CASE k # 0
    <3>1. k \in 1 .. Shown - 1 /\ k - 1 \in 0 .. m - 1 /\ E - (k - 1) = E - k + 1
      BY <1>6, <2>2, ClientAssumption
    <3>2. events[E - (k - 1)].n = x - 1 - (k - 1)
      BY <1>6, <3>1
    <3> QED
      BY <1>10, <3>1, <3>2
  <2> QED
    BY <2>1, <2>2
<1>12. CASE m + 1 < Shown
  <2>1. ASSUME NEW k \in m + 1 .. Shown - 1  PROVE r[Shown - k].n = u - (k - (m + 1))
    <3>1. k \in 1 .. Shown - 1 /\ k - 1 \in m .. E - 1 /\ E - (k - 1) = E - k + 1
      BY <1>6, ClientAssumption
    <3>2. events[E - (k - 1)].n = u - ((k - 1) - m)
      BY <1>6, <3>1
    <3>3. (k - 1) - m = k - (m + 1)
      OBVIOUS
    <3> QED
      BY <1>10, <3>1, <3>2, <3>3
  <2>2. m + 1 \in 0 .. Shown - 1 /\ (m + 1) - 1 = m
    BY <1>12, ClientAssumption
  <2>3. x + 1 < u - (Shown - (m + 1) - 1)
    BY <1>6, ClientAssumption
  <2>4. /\ Len(events') >= Shown /\ (m + 1 > 0 => Len(events') = Shown)
        /\ u <= Len(log'[session'])
        /\ socket'.next < u - (Len(events') - (m + 1) - 1)
    BY <1>1, <1>2, <1>6, <1>8, <1>9, <2>3, ClientAssumption
  <2>5. \A k \in 0 .. (m + 1) - 1 : events'[Len(events') - k].n = socket'.next - 1 - k
    <3>1. \A k \in 0 .. m : x - k = (x + 1) - 1 - k
      OBVIOUS
    <3> QED
      BY <1>2, <1>8, <1>9, <1>11, <2>2, <3>1
  <2>6. \A k \in m + 1 .. Len(events') - 1 :
          events'[Len(events') - k].n = u - (k - (m + 1))
    BY <1>8, <1>9, <2>1
  <2>7. Behind'
    BY <2>2, <2>4, <2>5, <2>6 DEF Behind
  <2> QED
    BY <2>7
<1>13. CASE m + 1 = Shown
  <2>1. x - m > 0
    <3>1. CASE m = 0
      BY <3>1
    <3>2. CASE m # 0
      <4>1. m - 1 \in 0 .. m - 1 /\ E - (m - 1) \in 1 .. E
        BY <1>6, <3>2, ClientAssumption
      <4>2. events[E - (m - 1)].n = x - 1 - (m - 1)
        BY <1>6, <4>1
      <4> QED
        BY <1>5, <4>1, <4>2
    <3> QED
      BY <3>1, <3>2
  <2>2. PICK lo \in Nat : lo = x - m /\ lo > 0 /\ x - lo = m /\ x - lo + 1 = Shown
    BY <1>13, <2>1
  <2>3. ASSUME NEW i \in 1 .. Shown  PROVE r[i].n <= x
    <3>1. Shown - i \in 0 .. m /\ Shown - (Shown - i) = i
      BY <1>13, ClientAssumption
    <3>2. r[i].n = x - (Shown - i)
      BY <1>11, <3>1
    <3> QED
      BY <3>1, <3>2, ClientAssumption
  <2>4. Run(lo, x)'
    <3>1. x - lo + 1 \in 0 .. Shown
      BY <2>2, ClientAssumption
    <3> QED
      BY <1>8, <1>9, <1>11, <2>2, <2>3, <3>1 DEF Run
  <2>5. x - lo + 1 >= Shown /\ x <= v /\ x \in Nat /\ x + 1 \in lo .. x + 1
    BY <1>1, <2>2, ClientAssumption, SMTT(20)
  <2>6. Along'
    BY <1>1, <1>2, <2>2, <2>4, <2>5 DEF Along
  <2> QED
    BY <2>6
<1> QED
  BY <1>6, <1>12, <1>13, ClientAssumption

LEMMA ReceiveInStep ==
  ASSUME Sound, OneView, InStep, Receive
  PROVE  InStep'
<1>1. SUFFICES ASSUME ~muddled', ~lost', handler'.kind # "select", session' # NoSession
               PROVE  (Along \/ Behind)'
  BY DEF InStep, Receive, Sound, Shape
<1>2. ~muddled /\ ~lost /\ handler.kind # "select" /\ session # NoSession
  BY <1>1 DEF Receive, requests
<1>3. socket.state = "open" /\ (Along \/ Behind)
  BY <1>2 DEF InStep, Receive
<1> QED
  BY <1>1, <1>2, <1>3, ReceiveAlong, ReceiveBehind

LEMMA StepInStep ==
  ASSUME Sound, OneView, InStep, Shown <= Kept, Next
  PROVE  InStep'
<1> USE DEF Sound
<1>1. Grown
  BY StepGrows
<1>2. ASSUME muddled' \/ lost' \/ handler'.kind = "select" \/ session' = NoSession  PROVE InStep'
  BY <1>2 DEF InStep
<1>3. ASSUME Backend \/ Interrupt  PROVE InStep'
  <2>1. UNCHANGED << events, session, socket, muddled, lost, handler >>
    BY <1>3 DEF Backend, TaskReports, Interrupt, page, requests
  <2> QED
    BY <1>1, <2>1, KeepsStep
<1>4. ASSUME Boot  PROVE InStep'
  <2>1. ASSUME BootArrives  PROVE InStep'
    <3>1. boot.of \in Sessions /\ SetSession(boot.of)
      BY <2>1 DEF BootArrives, Shape, Asking
    <3>2. CASE boot.of = session
      <4>1. UNCHANGED << events, session, socket, lost, handler >> /\ (muddled => muddled')
        BY <2>1, <3>1, <3>2 DEF BootArrives, SetSession
      <4> QED
        BY <1>1, <4>1, KeepsStep
    <3>3. CASE boot.of # session
      <4>1. session' = boot.of /\ socket'.state = "connecting"
        BY <3>1, <3>3, ClientAssumption DEF SetSession
      <4>2. muddled' \/ events' = << >>
        BY <2>1 DEF BootArrives
      <4> QED
        BY <1>1, <1>2, <3>1, <4>1, <4>2, StartsInStep
    <3> QED
      BY <3>2, <3>3
  <2>2. ASSUME BootShown  PROVE InStep'
    <3>1. boot \in Requests /\ boot.of \in Sessions /\ boot.upto <= Len(log[boot.of])
      BY <2>2 DEF BootShown, Shape, Asking, Numbers
    <3> QED
      BY <2>2, <3>1, HistoryInStep DEF BootShown
  <2>3. ASSUME BootListed \/ BootAnswered \/ BootFails  PROVE InStep'
    <3>1. UNCHANGED << events, session, socket, muddled, lost, handler >>
      BY <2>3 DEF BootListed, BootAnswered, BootFails, page, ghosts
    <3> QED
      BY <1>1, <3>1, KeepsStep
  <2> QED
    BY <1>4, <2>1, <2>2, <2>3 DEF Boot
<1>5. ASSUME NEW s \in Sessions, Select(s)  PROVE InStep'
  BY <1>2, <1>5 DEF Select, Request
<1>6. ASSUME NEW s \in Sessions, Created(s) \/ SubmitCreated(s)  PROVE InStep'
  <2>1. handler.kind \in {"create", "submit"} /\ handler.of = NoSession
    BY <1>6 DEF Created, SubmitCreated, Shape
  <2>2. Creating
    BY <2>1 DEF Creating, Idle
  <2>3. /\ UNCHANGED events /\ (muddled => muddled')
        /\ SetSession(s) /\ log[s] = << >>
    BY <1>6 DEF Created, SubmitCreated, NewSession
  <2>4. muddled' \/ events' = << >>
    BY <2>2, <2>3 DEF OneView
  <2>5. s # session /\ session' = s /\ socket'.state = "connecting"
    BY <2>3, ClientAssumption DEF Logs, SetSession
  <2> QED
    BY <1>1, <1>2, <2>4, <2>5, StartsInStep
<1>7. ASSUME Create \/ SubmitCreates  PROVE InStep'
  <2>1. lost' = (session' # NoSession)
    BY <1>7 DEF Create, SubmitCreates, ClearEvents
  <2> QED
    BY <1>2, <2>1
<1>8. ASSUME Deleted  PROVE InStep'
  BY <1>2, <1>8 DEF Deleted, SetSession
<1>9. ASSUME Submit \/ Delete \/ Sent \/ DeleteInterrupts \/ RequestFails  PROVE InStep'
  <2>1. handler.kind # "select" /\ UNCHANGED << events, session, socket, muddled, lost >>
    BY <1>9 DEF Submit, Delete, Sent, DeleteInterrupts, RequestFails, Idle, page, ghosts
  <2> QED
    BY <1>1, <2>1, KeepsStep
<1>10. ASSUME SelectAnswered  PROVE InStep'
  <2>1. handler.kind = "select" /\ handler.of \in Sessions /\ handler \in Requests
    BY <1>10 DEF SelectAnswered, Shape
  <2> QED
    BY <1>2, <1>10, <2>1, ServedShape DEF SelectAnswered
<1>11. ASSUME SelectShown  PROVE InStep'
  <2>1. handler \in Requests /\ handler.of \in Sessions /\ handler.upto <= Len(log[handler.of])
    BY <1>11 DEF SelectShown, Shape, Numbers
  <2> QED
    BY <1>11, <2>1, HistoryInStep DEF SelectShown
<1>12. ASSUME SelectFails  PROVE InStep'
  BY <1>2, <1>12 DEF SelectFails
<1>13. ASSUME SocketCloses  PROVE InStep'
  BY <1>13 DEF SocketCloses, InStep, Shape
<1> QED
  BY <1>3, <1>4, <1>5, <1>6, <1>7, <1>8, <1>9, <1>10, <1>11, <1>12, <1>13,
     OpensInStep, ReceiveInStep
     DEF Next, Buttons, Answers, Socket

\* The event that taskIsRunning looks at, if there is one, is the last status in the list.
LEMMA LatestStatus ==
  ASSUME TypeOK
  PROVE  \E i \in 0 .. Len(events) :
           /\ TaskIsRunning <=> (i # 0 /\ Kind(events[i]) = "running")
           /\ i # 0 => Kind(events[i]) # "note"
           /\ \A j \in 1 .. Len(events) : Kind(events[j]) # "note" => i # 0 /\ j <= i
<1> DEFINE I == { j \in 1 .. Len(events) : Kind(events[j]) # "note" }
           last == IF I # {} THEN Max(I) ELSE 0
<1>1. TaskIsRunning <=> (last # 0 /\ Kind(events[last]) = "running")
  BY DEF TaskIsRunning, SelectLastInSeq
<1>2. Len(events) \in Nat /\ I \in SUBSET (1 .. Len(events))
  BY DEF TypeOK
<1>3. I # {} => Max(I) \in I /\ \A i \in I : i <= Max(I)
  BY <1>2, LastPlace
<1>4. \A j \in 1 .. Len(events) : j \in I <=> Kind(events[j]) # "note"
  OBVIOUS
<1>5. PICK i : i = last
  OBVIOUS
<1>6. CASE I = {}
  <2>1. i = 0
    BY <1>5, <1>6
  <2>2. \A j \in 1 .. Len(events) : ~(Kind(events[j]) # "note")
    BY <1>4, <1>6
  <2> HIDE DEF I
  <2> QED
    BY <1>1, <1>2, <1>5, <2>1, <2>2
<1>7. CASE I # {}
  <2>1. i \in I /\ \A j \in I : j <= i
    BY <1>3, <1>5, <1>7
  <2> HIDE DEF I
  <2>2. i \in 1 .. Len(events) /\ Kind(events[i]) # "note" /\ i # 0
    BY <1>2, <1>4, <2>1
  <2>3. \A j \in 1 .. Len(events) : Kind(events[j]) # "note" => j <= i
    BY <1>4, <2>1
  <2> HIDE DEF last
  <2> QED
    BY <1>1, <1>2, <1>5, <2>2, <2>3
<1> QED
  BY <1>6, <1>7

\* At rest the run ends where the log does.
LEMMA RestIsKnown ==
  ASSUME Sound, OneView, InStep
  PROVE  KnowsTask
<1> USE DEF Sound
<1>1. SUFFICES ASSUME AtRest, session \in up, StatusKept(session), ~muddled, ~lost
               PROVE  TaskIsRunning = Busy(session)
  BY DEF KnowsTask
<1>2. PICK v \in Nat : v = Len(log[session]) /\ session \in Sessions /\ log[session] \in Seq(Kinds)
  BY <1>1 DEF TypeOK
<1>3. PICK E \in Nat : E = Len(events) /\ DOMAIN events = 1 .. E /\ events \in Seq(Events)
  BY DEF TypeOK
<1>4. session # NoSession /\ handler.kind # "select"
  BY <1>1, <1>2, ClientAssumption DEF AtRest, Idle
<1>5. /\ socket.state = "open" /\ socket.next > v /\ socket.next \in Nat
      /\ \A i \in 1 .. E : events[i].of = session
      /\ Along \/ Behind
  BY <1>1, <1>2, <1>3, <1>4 DEF AtRest, OneView, InStep, TypeOK
<1>6. ~Behind
  <2>1. SUFFICES ASSUME NEW m \in 0 .. Shown - 1, NEW u \in Nat,
                        E >= Shown, u <= v, socket.next < u - (E - m - 1)
                 PROVE  FALSE
    BY <1>2, <1>3 DEF Behind
  <2> QED
    BY <1>5, <2>1, ClientAssumption
<1>7. PICK p \in Nat : p = Oldest(v)
  BY OldestGrows
<1>8. PICK lo \in Nat :
        /\ v - lo + 1 \in 0 .. E /\ lo > 0
        /\ \A k \in 0 .. v - lo : events[E - k].n = v - k
        /\ \A i \in 1 .. E : events[i].n <= v
        /\ lo <= p \/ v - lo + 1 >= Shown
  <2>1. PICK lo \in Nat, hi \in Nat :
          /\ Run(lo, hi) /\ lo > 0 /\ hi <= v
          /\ lo <= Oldest(v) \/ hi - lo + 1 >= Shown
          /\ socket.next \in lo .. hi + 1
    BY <1>2, <1>5, <1>6 DEF Along
  <2>2. hi = v
    BY <1>5, <2>1
  <2> QED
    BY <1>3, <1>7, <2>1, <2>2 DEF Run
<1>9. \A i \in 1 .. E : Kind(events[i]) = log[session][events[i].n] /\ events[i].n \in 1 .. v
  <2>1. \A i \in 1 .. E : events[i] \in Events
    BY <1>3
  <2> QED
    BY <1>5, <1>8, <2>1 DEF Events, Kind
<1>10. PICK L \in 0 .. v :
         /\ L = Last1(log[session])
         /\ L # 0 => log[session][L] # "note"
         /\ \A n \in 1 .. v : log[session][n] # "note" => n <= L /\ L # 0
  BY <1>2, Last1Facts
<1>11. v - L < Kept /\ v - L < Shown
  BY <1>1, <1>2, <1>10 DEF StatusKept
<1>12. PICK i \in 0 .. E :
         /\ TaskIsRunning <=> (i # 0 /\ Kind(events[i]) = "running")
         /\ i # 0 => Kind(events[i]) # "note"
         /\ \A j \in 1 .. E : Kind(events[j]) # "note" => i # 0 /\ j <= i
  BY <1>3, LatestStatus
<1>13. Busy(session) <=> (L # 0 /\ log[session][L] = "running")
  BY <1>10 DEF Busy
<1>14. CASE L = 0
  <2>1. i = 0
    BY <1>9, <1>10, <1>12, <1>14
  <2>2. ~TaskIsRunning /\ ~Busy(session)
    BY <1>12, <1>13, <1>14, <2>1
  <2> QED
    BY <2>2 DEF TaskIsRunning, Busy
<1>15. CASE L # 0
  <2>1. lo <= L
    <3>1. CASE lo <= p
      <4>1. v > Kept => p = v - Kept + 1
        BY <1>7 DEF Oldest
      <4>2. v <= Kept => p = 1
        BY <1>7, ClientAssumption DEF Oldest
      <4> QED
        BY <1>11, <1>15, <3>1, <4>1, <4>2, ClientAssumption
    <3>2. CASE v - lo + 1 >= Shown
      BY <1>11, <3>2, ClientAssumption
    <3> QED
      BY <1>8, <3>1, <3>2
  <2>2. v - L \in 0 .. v - lo /\ E - (v - L) \in 1 .. E
    BY <1>8, <2>1
  <2>3. PICK j \in 1 .. E : j = E - (v - L) /\ events[j].n = L
    <3>1. events[E - (v - L)].n = v - (v - L)
      BY <1>8, <2>2
    <3> QED
      BY <2>2, <3>1
  <2>4. Kind(events[j]) = log[session][L] /\ Kind(events[j]) # "note"
    BY <1>9, <1>10, <1>15, <2>3
  <2>5. i # 0 /\ j <= i /\ i \in 1 .. E
    BY <1>12, <2>4
  <2>6. i = j
    <3>1. E - i \in 0 .. v - lo /\ E - (E - i) = i
      BY <2>2, <2>3, <2>5
    <3>2. events[i].n = v - (E - i)
      BY <1>8, <3>1
    <3>3. events[i].n <= L
      BY <1>9, <1>10, <1>12, <2>5
    <3> QED
      BY <2>3, <2>5, <3>2, <3>3
  <2>7. TaskIsRunning <=> Busy(session)
    BY <1>12, <1>13, <1>15, <2>4, <2>5, <2>6
  <2> QED
    BY <2>7 DEF TaskIsRunning, Busy
<1> QED
  BY <1>14, <1>15

\* A page that shows no more events than the broker keeps knows at rest whether a task is
\* running, even when it was loaded from a history that its socket's replay is older than.
THEOREM RunningTaskIsKnown ==
  ASSUME Shown <= Kept
  PROVE  Spec => []KnowsTask
<1>1. Init => OneView /\ InStep
  BY DEF Init, OneView, InStep, NoSocket
<1>2. Sound /\ OneView /\ InStep /\ [Next]_vars => (OneView /\ InStep)'
  <2>1. ASSUME OneView, InStep, UNCHANGED vars  PROVE (OneView /\ InStep)'
    BY <2>1 DEF OneView, Creating, InStep, Before, Along, Behind, Run,
       vars, page, requests, ghosts
  <2> QED
    BY <2>1, StepOneView, StepInStep
<1>3. Sound /\ OneView /\ InStep => KnowsTask
  BY RestIsKnown
<1> QED
  BY <1>1, <1>2, <1>3, InitSound, StepSound, PTL DEF Spec
=============================================================================
