--------------------------- MODULE ModelTurnProofs ----------------------------
(***************************************************************************)
(* Proofs about the turns of a task, for every display size, window, number *)
(* of steps and set of answers: type correctness and all safety properties *)
(* of ModelTurn.                                                           *)
(*                                                                         *)
(* The inductive invariant IInv has three parts: the sandbox's (Queued,    *)
(* Pressed), the adapter's (Says, Answering, Remembers), and what ties the *)
(* loop to both (Waits, Steps, Noting, Seen).                              *)
(***************************************************************************)
EXTENDS ModelTurn, NormalizeActionsProofs, SandboxActionsProofs

\* A fraction of the last pixel, rounded, is a pixel.
LEMMA FractionInRange ==
  ASSUME NEW v \in 0 .. 100, NEW m \in Nat
  PROVE  Round(v * m, 100) \in 0 .. m
<1>1. PICK n \in Int : n = v * m
  OBVIOUS
<1>2. n >= 0 /\ n <= 100 * m
  <2>1. v \in Nat /\ (100 - v) \in Nat
    OBVIOUS
  <2>2. v * m \in Nat /\ (100 - v) * m \in Nat
    BY <2>1
  <2>3. (100 - v) * m = 100 * m - v * m
    BY <2>1
  <2> QED
    BY <1>1, <2>2, <2>3
<1>3. Round(n, 100) \in 0 .. m
  <2>1. PICK d \in Int, r \in 0 .. 99 : d = n \div 100 /\ r = n % 100 /\ n = 100 * d + r
    <3>1. n = 100 * (n \div 100) + (n % 100)
      OBVIOUS
    <3> QED
      BY <3>1
  <2>2. d \in 0 .. m /\ (d = m => r = 0)
    BY <1>2, <2>1
  <2> QED
    BY <2>1, <2>2 DEF Round
<1> QED
  BY <1>1, <1>3

\* One axis that names the display, as a fraction or in pixels, is on the display
\* after scaling and rounding.
LEMMA CoordinateInRange ==
  ASSUME NEW nums \in Seq(Numbers), Len(nums) = 1, NEW size \in Nat \ {0}, InRange(nums, size)
  PROVE  Coordinate(nums, size) \in 0 .. size - 1
<1>1. nums[1].v \in Int
  <2>1. nums[1] \in Numbers
    <3>1. 1 \in 1 .. Len(nums)
      OBVIOUS
    <3> QED
      BY <3>1, ElementOfSeq, Zenon
  <2> QED
    BY <2>1 DEF Numbers
<1>2. CASE nums[1].float /\ nums[1].v \in 0 .. 100
  <2>1. size - 1 \in Nat
    OBVIOUS
  <2>2. Round(nums[1].v * (size - 1), 100) \in 0 .. size - 1
    BY <1>2, <2>1, FractionInRange
  <2> QED
    BY <1>2, <2>2 DEF Coordinate
<1>3. CASE ~(nums[1].float /\ nums[1].v \in 0 .. 100)
  BY <1>3 DEF Coordinate, InRange
<1> QED
  BY <1>2, <1>3

\* A raw action that names the display is placed on it.
LEMMA PlaceOnDisplay ==
  ASSUME NEW raw \in RawActions, NamesDisplay(raw)
  PROVE  Place(raw) # << >> => OnDisplay(Place(raw)[1])
<1>1. /\ raw.x \in Seq(Numbers) /\ raw.y \in Seq(Numbers)
      /\ Len(raw.x) \in Nat /\ Len(raw.y) \in Nat
  BY DEF RawActions
<1>2. Len(raw.x) <= 1 /\ Len(raw.y) <= 1 /\ raw.box = << >> /\ raw.point = << >>
  BY DEF NamesDisplay
<1>3. RawPoints(raw) = << >>
  BY <1>1, <1>2 DEF RawPoints
<1>4. CASE raw.x # << >> /\ raw.y # << >>
  <2>1. \A nums \in Seq(Numbers) : nums # << >> => Len(nums) \in Nat \ {0}
    BY EmptySeq, Zenon
  <2>2. Len(raw.x) = 1 /\ Len(raw.y) = 1
    <3>1. Len(raw.x) \in Nat \ {0} /\ Len(raw.y) \in Nat \ {0}
      BY <1>1, <1>4, <2>1, Zenon
    <3>2. Len(raw.x) <= 1 /\ Len(raw.y) <= 1
      BY <1>2
    <3>3. \A n \in Nat \ {0} : n <= 1 => n = 1
      OBVIOUS
    <3> QED
      BY <3>1, <3>2, <3>3, Zenon
  <2>3. /\ Width \in Nat \ {0} /\ Height \in Nat \ {0}
        /\ InRange(raw.x, Width) /\ InRange(raw.y, Height)
    BY DisplayAssumption DEF NamesDisplay
  <2>4. /\ Coordinate(raw.x, Width) \in 0 .. Width - 1
        /\ Coordinate(raw.y, Height) \in 0 .. Height - 1
    BY <1>1, <2>2, <2>3, CoordinateInRange
  <2>5. Place(raw) = << << Coordinate(raw.x, Width), Coordinate(raw.y, Height) >> >>
    BY <1>3, <1>4 DEF Place
  <2> QED
    BY <2>4, <2>5 DEF OnDisplay
<1>5. CASE ~(raw.x # << >> /\ raw.y # << >>)
  BY <1>3, <1>5 DEF Place
<1> QED
  BY <1>4, <1>5

\* normalize_actions keeps the places of a list on the display: no pass, no scaling
\* and no rounding pushes an action over the last pixel.
LEMMA NormalizedWithin ==
  ASSUME NEW raws \in Seq(RawActions), AllValid(raws),
         \A i \in DOMAIN raws : NamesDisplay(raws[i])
  PROVE  \A i \in DOMAIN Normalized(raws) : WithinDisplay(Normalized(raws)[i])
<1> DEFINE S == { a \in Actions : WithinDisplay(a) }
<1>1. /\ Len(raws) \in Nat /\ DOMAIN raws = 1 .. Len(raws)
      /\ \A i \in 1 .. Len(raws) : raws[i] \in RawActions
  OBVIOUS
<1>2. Cleaned(raws) = [i \in 1 .. Len(raws) |-> NormalizeAction(raws[i])]
  BY <1>1 DEF Cleaned
<1>3. ASSUME NEW i \in 1 .. Len(raws)  PROVE NormalizeAction(raws[i]) \in S
  <2> DEFINE raw == raws[i]
  <2>1. raw \in RawActions /\ NamesDisplay(raw)
    BY <1>1
  <2>2. NormalizeAction(raw) \in Actions
    <3>1. Cleaned(raws) \in Seq(Actions)
      BY CleanedType
    <3>2. Len(Cleaned(raws)) = Len(raws)
      BY <1>1, <1>2, <3>1
    <3> QED
      BY <1>2, <3>1, <3>2
  <2> HIDE DEF raw
  <2>3. Place(raw) # << >> => OnDisplay(Place(raw)[1])
    BY <2>1, PlaceOnDisplay
  <2>4. \A k \in DOMAIN raw.path : OnDisplay(raw.path[k])
    BY <2>1 DEF NamesDisplay
  <2>5. WithinDisplay(NormalizeAction(raw))
    BY <2>3, <2>4 DEF WithinDisplay, NormalizeAction
  <2> QED
    BY <2>2, <2>5 DEF raw
<1>4. Cleaned(raws) \in Seq(S)
  <2> HIDE DEF S
  <2> QED
    BY <1>1, <1>2, <1>3
<1>5. ASSUME NEW a \in S  PROVE Made(a) \subseteq S
  <2>1. a \in Actions /\ WithinDisplay(a)
    OBVIOUS
  <2>2. Made(a) \subseteq Actions
    BY <2>1 DEF Made, DoubleClick, Actions, Types, Buttons, Texts, Keys, Durations, Distances, Points
  <2>3. \A b \in Made(a) : WithinDisplay(b)
    BY <2>1 DEF Made, DoubleClick, WithinDisplay
  <2> QED
    BY <2>2, <2>3
<1>6. PressReturn \in S
  BY DEF PressReturn, Actions, Types, Buttons, Texts, Keys, Durations, Distances, WithinDisplay
<1>7. Normalized(raws) \in Seq(S)
  <2>1. S \in SUBSET Actions
    OBVIOUS
  <2> HIDE DEF S
  <2> QED
    BY <1>4, <1>5, <1>6, <2>1, PassesKeep DEF Normalized
<1>8. \A i \in DOMAIN Normalized(raws) : Normalized(raws)[i] \in S
  <2> HIDE DEF S
  <2> QED
    BY <1>7
<1> QED
  BY <1>8

----------------------------------------------------------------------------
ResponseType == [id : Nat, stop : {"actions", "message", "error"}, call : Nat, calls : Nat,
                 actions : Seq(Actions)]
RequestType == [previous : Nat, call : Nat, input : Seq(Entries)]
Underway == call \in {"sending", "posted"}

\* What the adapter holds: the last response, and the request made from it.
Says ==
  /\ response \in ResponseType /\ response.id = answers
  /\ response.call \in {0, response.calls}
  /\ request \in RequestType
  /\ call = "sending" => attempt \in 0 .. 1
  /\ Underway => /\ mode # "mock"
                 /\ mode = "manual" => request.input = history
                 /\ mode # "manual" => request.previous = answers

\* A list that begins with one member of a set and goes on with others.
LEMMA Leading ==
  ASSUME NEW S, NEW e \in S, NEW p \in Seq(S), NEW q \in Seq(S)
  PROVE  /\ << e >> \o p \in Seq(S) /\ (<< e >> \o p)[1] = e
         /\ << e >> \o p \o q \in Seq(S) /\ (<< e >> \o p \o q)[1] = e
<1>1. /\ << e >> \in Seq(S) /\ Len(<< e >>) = 1 /\ << e >>[1] = e
  OBVIOUS
<1>2. /\ << e >> \o p \in Seq(S) /\ Len(<< e >> \o p) = 1 + Len(p) /\ Len(p) \in Nat
      /\ (<< e >> \o p)[1] = e
  BY <1>1, ConcatProperties
<1>3. ASSUME NEW r \in Seq(S), Len(r) \in Nat, Len(r) >= 1
      PROVE  r \o q \in Seq(S) /\ (r \o q)[1] = r[1]
  <2>1. Len(q) \in Nat /\ 1 \in 1 .. Len(r) + Len(q)
    BY <1>3
  <2> QED
    BY <1>3, <2>1, ConcatProperties
<1> QED
  BY <1>2, <1>3

\* What is said is an entry of a conversation.
LEMMA SayingType ==
  ASSUME NEW role \in {"user", "assistant", "tool"},
         NEW what \in {"instruction", "feedback", "picture", "failure"}, NEW n \in Nat
  PROVE  /\ Saying(role, what, n) \in Entries
         /\ Saying(role, what, n).step = n /\ Saying(role, what, n).role = role
BY DEF Saying, Entries

\* _send with a body that continues the last response, or the history.
LEMMA SendKeeps ==
  ASSUME AdapterTypeOK, Says, NEW body \in RequestType, Send(body),
         history' \in Seq(Entries), Len(history') <= Window,
         mode # "mock",
         mode = "manual" => body.input = history' /\ body.previous = 0,
         mode # "manual" => body.previous = answers
  PROVE  /\ AdapterTypeOK' /\ Says'
         /\ response' = [response EXCEPT !.actions = << >>] /\ asked' = << >>
         /\ request' = body /\ call' = "sending" /\ mode' = mode /\ answers' = answers
<1>1. /\ request' = body /\ attempt' = 0 /\ call' = "sending"
      /\ response' = [response EXCEPT !.actions = << >>] /\ asked' = << >>
      /\ mode' = mode /\ answers' = answers
  BY DEF Send
<1>2. /\ response' \in ResponseType
      /\ response'.id = response.id /\ response'.call = response.call
      /\ response'.calls = response.calls
  <2>1. response \in ResponseType /\ << >> \in Seq(Actions)
    BY DEF Says
  <2>2. [response EXCEPT !.actions = << >>] \in ResponseType
    BY <2>1 DEF ResponseType
  <2> QED
    BY <1>1, <2>1, <2>2 DEF ResponseType
<1>3. Says'
  BY <1>1, <1>2 DEF Says, Underway
<1>4. AdapterTypeOK'
  <2>1. answers \in Nat /\ mode \in Modes /\ response.call \in 0 .. response.calls
    BY DEF AdapterTypeOK
  <2>2. body.previous \in 0 .. answers /\ body.input \in Seq(Entries)
    BY <2>1 DEF RequestType
  <2>3. response'.call \in 0 .. response'.calls /\ response'.actions \in Seq(Actions)
        /\ response'.stop \in {"actions", "message", "error"}
    BY <1>2, <2>1 DEF ResponseType
  <2> QED
    BY <1>1, <2>1, <2>2, <2>3 DEF AdapterTypeOK
<1> QED
  BY <1>1, <1>3, <1>4

\* create_initial_response: the first request of a task.
LEMMA InitialKeeps ==
  ASSUME AdapterTypeOK, Says, answers = 0, CreateInitial
  PROVE  /\ AdapterTypeOK' /\ Says' /\ asked' = << >> /\ response'.actions = << >>
         /\ call' = "sending" /\ mode' = mode /\ answers' = answers
         /\ mode = "manual" => history' = << Saying("user", "instruction", 0) >>
<1> DEFINE e == Saying("user", "instruction", 0)
           body == [NoRequest EXCEPT !.input = << e >>]
<1>1. e \in Entries
  BY SayingType
<1> HIDE DEF e
<1>2. << e >> \in Seq(Entries) /\ Len(<< e >>) = 1
  BY <1>1
<1>3. body \in RequestType /\ body.input = << e >> /\ body.previous = 0
  BY <1>2 DEF RequestType, NoRequest
<1>4. /\ mode # "mock" /\ Send(body)
      /\ history' = IF mode = "manual" THEN << e >> ELSE history
  BY DEF CreateInitial, e
<1>5. history' \in Seq(Entries) /\ Len(history') <= Window
  <2>1. history \in Seq(Entries) /\ Len(history) <= Window /\ 1 <= Window
    BY WindowAssumption DEF AdapterTypeOK
  <2> QED
    BY <1>2, <1>4, <2>1
<1> HIDE DEF body
<1>6. response \in ResponseType
  BY DEF Says
<1> QED
  BY <1>3, <1>4, <1>5, <1>6, SendKeeps DEF ResponseType, e

\* The last part of a list that a window shows.
Latest(t) == SubSeq(t, IF Len(t) > Window THEN Len(t) - Window + 1 ELSE 1, Len(t))

\* What the window shows: all of a short list, the end of a long one.
LEMMA LatestFacts ==
  ASSUME NEW t \in Seq(Entries), NEW n \in Nat, n = Len(t)
  PROVE  /\ n <= Window => Latest(t) = t
         /\ n >= Window => /\ Latest(t) \in Seq(Entries) /\ Len(Latest(t)) = Window
                           /\ \A i \in 1 .. Window : Latest(t)[i] = t[n - Window + i]
<1>1. Window \in 2 .. 64
  BY WindowAssumption
<1> DEFINE first == IF n > Window THEN n - Window + 1 ELSE 1
<1>2. Latest(t) = SubSeq(t, first, n)
  BY DEF Latest
<1>3. ASSUME n <= Window  PROVE Latest(t) = t
  <2>1. Latest(t) = SubSeq(t, 1, n)
    <3>1. first = 1
      BY <1>1, <1>3
    <3> QED
      BY <1>2, <3>1
  <2> QED
    BY <2>1, SubSeqFull
<1>4. ASSUME n >= Window
      PROVE  /\ Latest(t) \in Seq(Entries) /\ Len(Latest(t)) = Window
             /\ \A i \in 1 .. Window : Latest(t)[i] = t[n - Window + i]
  <2> DEFINE m == n - Window + 1
  <2>1. m \in Int /\ m \in 1 .. n /\ n - m + 1 = Window
        /\ \A i \in 1 .. Window : m + i - 1 = n - Window + i
    BY <1>1, <1>4
  <2>2. Latest(t) = SubSeq(t, m, n)
    <3>1. first = m
      BY <1>1, <1>4
    <3> QED
      BY <1>2, <3>1
  <2> HIDE DEF m
  <2>3. \A i \in m .. n : t[i] \in Entries
    BY <2>1
  <2>4. /\ SubSeq(t, m, n) \in Seq(Entries) /\ Len(SubSeq(t, m, n)) = n - m + 1
        /\ \A i \in 1 .. n - m + 1 : SubSeq(t, m, n)[i] = t[m + i - 1]
    BY <2>1, <2>3, SubSeqProperties
  <2> QED
    BY <2>1, <2>2, <2>4
<1> QED
  BY <1>3, <1>4

\* A bounded list that shows the latest part of another one still does when both have
\* one more entry: deque(maxlen=...) is a window on everything there was to say.
LEMMA RememberLatest ==
  ASSUME NEW t \in Seq(Entries), NEW e \in Entries
  PROVE  /\ Remember(Latest(t), e) = Latest(Append(t, e))
         /\ Latest(t) \in Seq(Entries) /\ Len(Latest(t)) <= Window
<1>1. PICK w \in Nat : w = Window /\ w >= 2
  BY WindowAssumption
<1>2. PICK n \in Nat : n = Len(t)
  OBVIOUS
<1>3. PICK u \in Seq(Entries) : u = Append(t, e)
  BY AppendProperties
<1>4. Len(u) = n + 1 /\ u[n + 1] = e /\ \A i \in 1 .. n : u[i] = t[i]
  BY <1>2, <1>3
<1>5. Latest(t) \in Seq(Entries) /\ Len(Latest(t)) <= Window
  BY <1>1, <1>2, LatestFacts
<1>6. CASE n < w
  <2>1. Latest(t) = t /\ Latest(u) = u
    BY <1>1, <1>2, <1>4, <1>6, LatestFacts
  <2> QED
    BY <1>1, <1>2, <1>3, <1>5, <1>6, <2>1 DEF Remember
<1>7. CASE n >= w
  <2>1. PICK h \in Seq(Entries) : h = Latest(t)
    BY <1>5
  <2>2. Len(h) = w /\ \A i \in 1 .. w : h[i] = t[n - w + i]
    BY <1>1, <1>2, <1>7, <2>1, LatestFacts
  <2>3. PICK l \in Seq(Entries) : l = Latest(u)
    BY <1>1, <1>4, <1>7, LatestFacts
  <2>4. Len(l) = w /\ \A i \in 1 .. w : l[i] = u[n + 1 - w + i]
    BY <1>1, <1>4, <1>7, <2>3, LatestFacts
  <2>5. Remember(h, e) = Append(Tail(h), e)
    BY <1>1, <2>2 DEF Remember
  <2>6. h # << >>
    BY <1>1, <2>2
  <2>7. PICK r \in Seq(Entries) : r = Tail(h)
    BY <2>6, TailFacts
  <2>8. Len(r) = w - 1 /\ \A i \in 1 .. w - 1 : r[i] = h[i + 1]
    BY <1>1, <2>2, <2>7, <2>6, TailFacts
  <2>9. PICK k \in Seq(Entries) : k = Append(r, e)
    BY AppendProperties
  <2>10. Len(k) = w /\ k[w] = e /\ \A i \in 1 .. w - 1 : k[i] = r[i]
    BY <1>1, <2>8, <2>9
  <2>11. \A i \in 1 .. w : k[i] = l[i]
    <3>1. ASSUME NEW i \in 1 .. w - 1  PROVE k[i] = l[i]
      <4>1. k[i] = t[n - w + (i + 1)]
        BY <2>2, <2>8, <2>10
      <4>2. l[i] = u[n + 1 - w + i] /\ n + 1 - w + i \in 1 .. n
        BY <1>1, <1>7, <2>4
      <4> QED
        BY <1>4, <4>1, <4>2
    <3>2. k[w] = l[w]
      BY <1>1, <1>4, <2>4, <2>10
    <3>3. \A i \in 1 .. w : i \in 1 .. w - 1 \/ i = w
      OBVIOUS
    <3> QED
      BY <3>1, <3>2, <3>3
  <2>12. k = l
    BY <2>4, <2>10, <2>11, SeqEqual
  <2> QED
    BY <1>3, <1>5, <2>1, <2>3, <2>5, <2>7, <2>9, <2>12
<1> QED
  BY <1>6, <1>7

\* The request that is under way answers the last response with the results of this
\* step.
Answering ==
  (Underway /\ mode # "manual" /\ step > 0) =>
    /\ request.call = response.calls
    /\ \A i \in DOMAIN request.input : request.input[i].step = step
    /\ request.input[1].role = "tool"

Remembers == mode = "manual" => history = Latest(transcript)

Told == transcript \o << Saying("assistant", "feedback", step), Saying("user", "picture", step) >>

\* continue_after_actions of the adapters whose server keeps the conversation.
LEMMA FunctionKeeps ==
  ASSUME AdapterTypeOK, Says, step \in Nat, step' = step, NEW p,
         mode \in {"function", "text", "openai"}, response.call # 0,
         history' = history,
         p \in Seq({ e \in Entries : e.step = step }), p # << >>, p[1].role = "tool",
         Send([previous |-> response.id, call |-> response.call, input |-> p])
  PROVE  /\ AdapterTypeOK' /\ Says' /\ Answering' /\ asked' = << >> /\ response'.actions = << >>
         /\ call' = "sending" /\ mode' = mode /\ answers' = answers
<1> DEFINE body == [previous |-> response.id, call |-> response.call, input |-> p]
<1>1. /\ response \in ResponseType /\ response.id = answers /\ response.call = response.calls
  BY DEF Says
<1>2. p \in Seq(Entries) /\ \A i \in DOMAIN p : p[i].step = step
  OBVIOUS
<1>3. body \in RequestType /\ body.previous = answers /\ body.input = p /\ body.call = response.calls
  BY <1>1, <1>2 DEF RequestType, ResponseType
<1>4. history' \in Seq(Entries) /\ Len(history') <= Window
  BY DEF AdapterTypeOK
<1> HIDE DEF body
<1>5. /\ AdapterTypeOK' /\ Says' /\ response' = [response EXCEPT !.actions = << >>]
      /\ asked' = << >> /\ request' = body /\ call' = "sending" /\ mode' = mode /\ answers' = answers
  BY <1>3, <1>4, SendKeeps DEF body
<1>6. Answering'
  BY <1>1, <1>2, <1>3, <1>5 DEF Answering, ResponseType
<1> QED
  BY <1>1, <1>5, <1>6 DEF ResponseType

\* continue_after_actions of each adapter keeps the account of the conversation.
LEMMA ContinueKeeps ==
  ASSUME AdapterTypeOK, Says, Remembers, transcript \in Seq(Entries),
         step \in Nat, step' = step, transcript' = Told,
         NEW failed \in BOOLEAN, NEW changed \in BOOLEAN, Continue(step, failed, changed)
  PROVE  /\ AdapterTypeOK' /\ Says' /\ Answering' /\ Remembers'
         /\ \/ asked' = << >> /\ response'.actions = << >>
            \/ UNCHANGED << asked, response >>
         /\ call' \in {"sending", "failed"} /\ mode' = mode /\ answers' = answers
<1> DEFINE S == { e \in Entries : e.step = step }
<1>1. /\ Saying("tool", "feedback", step) \in S /\ Saying("tool", "feedback", step).role = "tool"
      /\ Saying("tool", "picture", step) \in S /\ Saying("tool", "picture", step).role = "tool"
      /\ Saying("user", "picture", step) \in S
      /\ Saying("user", "failure", step) \in S
      /\ Saying("user", "feedback", step) \in S
  BY SayingType
<1>2. CASE ContinueFunction(step)
  <2> DEFINE rest == IF mode = "function" THEN << Saying("user", "picture", step) >> ELSE << >>
             p == << Saying("tool", "feedback", step) >> \o rest
  <2>1. rest \in Seq(S)
    <3> HIDE DEF S
    <3> QED
      BY <1>1
  <2>2. p \in Seq(S) /\ p[1] = Saying("tool", "feedback", step)
    <3> HIDE DEF S, rest
    <3> QED
      BY <1>1, <2>1, Leading
  <2>3. p # << >>
    <3> HIDE DEF S, rest
    <3> QED
      BY <1>1, <2>1
  <2>4. /\ mode \in {"function", "text"} /\ response.call # 0 /\ history' = history
        /\ Send([previous |-> response.id, call |-> response.call, input |-> p])
    BY <1>2 DEF ContinueFunction
  <2> HIDE DEF p
  <2> QED
    BY <1>1, <2>2, <2>3, <2>4, FunctionKeeps DEF Remembers
<1>3. CASE ContinueOpenAI(step, failed, changed)
  <2> DEFINE q == IF failed THEN << Saying("user", "failure", step) >> ELSE << >>
             r == IF changed THEN << >> ELSE << Saying("user", "feedback", step) >>
             p == << Saying("tool", "picture", step) >> \o q \o r
  <2>1. q \in Seq(S) /\ r \in Seq(S)
    <3> HIDE DEF S
    <3> QED
      BY <1>1
  <2>2. p \in Seq(S) /\ p[1] = Saying("tool", "picture", step)
    <3> HIDE DEF S, q, r
    <3> QED
      BY <1>1, <2>1, Leading
  <2>3. p # << >>
    <3> HIDE DEF S, q, r
    <3> QED
      BY <1>1, <2>1
  <2>4. /\ mode = "openai" /\ response.call # 0 /\ history' = history
        /\ Send([previous |-> response.id, call |-> response.call, input |-> p])
    BY <1>3 DEF ContinueOpenAI
  <2> HIDE DEF p
  <2> QED
    BY <1>1, <2>2, <2>3, <2>4, FunctionKeeps DEF Remembers
<1>4. CASE ContinueManual(step)
  <2> DEFINE e == Saying("assistant", "feedback", step)
             f == Saying("user", "picture", step)
             h == Remember(Remember(history, e), f)
  <2>1. e \in Entries /\ f \in Entries
    BY SayingType
  <2>2. mode = "manual" /\ history' = h /\ Send([NoRequest EXCEPT !.input = h])
    BY <1>4 DEF ContinueManual
  <2>3. transcript' = Append(Append(transcript, e), f)
    <3> HIDE DEF e, f
    <3>1. PICK u \in Seq(Entries) : u = Append(transcript, e) /\ u = transcript \o << e >>
      BY <2>1, AppendProperties, AppendIsConcat
    <3>2. Append(u, f) = u \o << f >>
      BY <2>1, AppendIsConcat
    <3>3. << e >> \in Seq(Entries) /\ << f >> \in Seq(Entries) /\ << e, f >> \in Seq(Entries)
      BY <2>1
    <3>4. << e >> \o << f >> = << e, f >>
      <4>1. PICK v \in Seq(Entries) : v = << e >> \o << f >>
        BY <3>3, ConcatProperties
      <4>2. Len(v) = 2 /\ v[1] = e /\ v[2] = f
        BY <3>3, <4>1, ConcatProperties
      <4>3. Len(<< e, f >>) = 2 /\ << e, f >>[1] = e /\ << e, f >>[2] = f
        OBVIOUS
      <4>4. \A i \in 1 .. Len(v) : v[i] = << e, f >>[i]
        BY <4>2, <4>3
      <4> QED
        BY <3>3, <4>1, <4>2, <4>3, <4>4, SeqEqual
    <3>5. (transcript \o << e >>) \o << f >> = transcript \o (<< e >> \o << f >>)
      BY <3>3, ConcatAssociative
    <3>6. transcript' = transcript \o << e, f >>
      BY DEF Told, e, f
    <3> QED
      BY <3>1, <3>2, <3>5, <3>6, <3>4
  <2>4. Append(transcript, e) \in Seq(Entries) /\ Append(Append(transcript, e), f) \in Seq(Entries)
    BY <2>1, AppendProperties
  <2>5. Remember(history, e) = Latest(Append(transcript, e))
    BY <2>1, <2>2, RememberLatest DEF Remembers
  <2>6. h = Latest(transcript')
    BY <2>1, <2>3, <2>4, <2>5, RememberLatest
  <2>7. h \in Seq(Entries) /\ Len(h) <= Window
    BY <2>1, <2>3, <2>4, <2>6, RememberLatest
  <2> HIDE DEF h
  <2> DEFINE body == [NoRequest EXCEPT !.input = h]
  <2>8. body \in RequestType /\ body.input = h /\ body.previous = 0
    BY <2>7 DEF RequestType, NoRequest
  <2>9. Send(body) /\ history' = h
    BY <2>2
  <2> HIDE DEF body
  <2>10. /\ AdapterTypeOK' /\ Says' /\ response' = [response EXCEPT !.actions = << >>]
         /\ asked' = << >> /\ call' = "sending" /\ mode' = mode /\ answers' = answers
    BY <2>2, <2>7, <2>8, <2>9, SendKeeps
  <2>11. response'.actions = << >>
    BY <2>10 DEF Says, ResponseType
  <2> QED
    BY <2>2, <2>6, <2>9, <2>10, <2>11 DEF Answering, Remembers
<1>5. CASE ContinueWithoutCall
  BY <1>5 DEF ContinueWithoutCall, AdapterTypeOK, Says, Underway, Answering, Remembers
<1> QED
  BY <1>2, <1>3, <1>4, <1>5 DEF Continue

\* The mock adapter answers with a screenshot, then with a message.
LEMMA MockKeeps ==
  ASSUME AdapterTypeOK, Says, NEW first \in BOOLEAN, MockAnswers(first)
  PROVE  /\ AdapterTypeOK' /\ Says' /\ Answering' /\ Remembers'
         /\ call' = "answered" /\ mode' = mode /\ answers' = answers + 1 /\ asked' = asked
         /\ \A i \in DOMAIN response'.actions : WithinDisplay(response'.actions[i])
<1> DEFINE look == [DoubleClick(<< >>) EXCEPT !.type = "screenshot"]
           acts == IF first THEN << look >> ELSE << >>
<1>1. look \in Actions /\ WithinDisplay(look)
  <2>1. look = [type |-> "screenshot", at |-> << >>, button |-> "none", arg |-> "none",
                path |-> << >>]
    BY DEF DoubleClick
  <2> HIDE DEF look
  <2>2. look.at = << >> /\ look.path = << >>
    BY <2>1
  <2>3. << >> \in Seq(Points)
    OBVIOUS
  <2> QED
    BY <2>1, <2>2, <2>3 DEF Actions, Types, Buttons, Texts, WithinDisplay
<1>2. acts \in Seq(Actions) /\ \A i \in DOMAIN acts : WithinDisplay(acts[i])
  <2> HIDE DEF look
  <2> QED
    BY <1>1
<1>3. /\ mode = "mock" /\ answers' = answers + 1 /\ call' = "answered"
      /\ UNCHANGED << mode, history, request, attempt, asked >>
      /\ response' = [id |-> answers + 1, stop |-> IF first THEN "actions" ELSE "message",
                      call |-> IF first THEN 1 ELSE 0, calls |-> IF first THEN 1 ELSE 0,
                      actions |-> acts]
  BY DEF MockAnswers
<1> HIDE DEF acts
<1>4. answers \in Nat
  BY DEF AdapterTypeOK
<1>5. /\ response' \in ResponseType /\ response'.id = answers + 1 /\ response'.actions = acts
      /\ response'.call = response'.calls
  BY <1>2, <1>3, <1>4 DEF ResponseType
<1>6. Says' /\ Answering' /\ Remembers'
  BY <1>3, <1>5 DEF Says, Underway, Answering, Remembers
<1>7. AdapterTypeOK'
  BY <1>2, <1>3, <1>4, <1>5 DEF AdapterTypeOK, ResponseType
<1> QED
  BY <1>2, <1>3, <1>5, <1>6, <1>7

\* What the loop is about to do is on the display if the model asked for nothing else.
Inside ==
  (\A i \in DOMAIN asked : NamesDisplay(asked[i]))
    => \A i \in DOMAIN response.actions : WithinDisplay(response.actions[i])

\* An answer of the server becomes an AgentResponse.
LEMMA AnsweredKeeps ==
  ASSUME AdapterTypeOK, Says, answers + 1 \in 1 .. MaxSteps + 1, Answered
  PROVE  /\ response' \in ResponseType /\ response'.id = answers'
         /\ response'.call \in {0, response'.calls}
         /\ answers' = answers + 1 /\ call' = "answered" /\ Inside'
         /\ KeepsMeaning(asked', response'.actions)
         /\ UNCHANGED << mode, history, request, attempt >>
<1>1. PICK a \in ModelAnswers(answers + 1) :
        /\ AllValid(AllActions(a.calls))
        /\ response' = Parsed(a)
        /\ asked' = AllActions(a.calls)
  BY DEF Answered
<1>2. /\ answers' = answers + 1 /\ call' = "answered"
      /\ UNCHANGED << mode, history, request, attempt >>
  BY DEF Answered
<1>3. a \in ServerAnswers
  BY TurnAssumption
<1> DEFINE Calls == [id : BOOLEAN, raws : Seq(RawActions)]
<1>4. PICK calls \in Seq(Calls) : calls = a.calls
  BY <1>3 DEF ServerAnswers
<1>5. PICK raws \in Seq(RawActions) : raws = AllActions(a.calls)
  <2> DEFINE lists == [i \in DOMAIN calls |-> calls[i].raws]
  <2>1. /\ Len(calls) \in Nat /\ DOMAIN calls = 1 .. Len(calls)
        /\ \A i \in 1 .. Len(calls) : calls[i] \in Calls
    <3> HIDE DEF Calls
    <3> QED
      OBVIOUS
  <2>2. lists \in Seq(Seq(RawActions))
    BY <2>1
  <2>3. AllActions(calls) = FlattenSeq(lists)
    BY DEF AllActions
  <2> HIDE DEF lists
  <2>4. AllActions(calls) \in Seq(RawActions)
    BY <2>2, <2>3, FlattenType
  <2> QED
    BY <1>4, <2>4
<1>6. PICK acts \in Seq(Actions) : acts = Normalized(raws)
  BY <1>1, <1>5, NormalizedType
<1>7. PICK last \in Nat : last = LastCall(calls) /\ last \in {0, Len(calls)}
  <2>1. Len(calls) \in Nat
    OBVIOUS
  <2> QED
    BY <2>1 DEF LastCall
<1>8. PICK stop \in {"actions", "message", "error"} :
        response' = [id |-> answers + 1, stop |-> stop, call |-> last, calls |-> Len(calls),
                     actions |-> acts]
  BY <1>1, <1>4, <1>5, <1>6, <1>7 DEF Parsed
<1>9. Len(calls) \in Nat /\ answers + 1 \in Nat
  BY DEF AdapterTypeOK
<1>10. /\ response' \in ResponseType /\ response'.id = answers + 1
       /\ response'.call \in {0, response'.calls} /\ response'.actions = acts
  BY <1>7, <1>8, <1>9 DEF ResponseType
<1>11. Inside'
  <2>1. (\A i \in DOMAIN raws : NamesDisplay(raws[i]))
          => \A i \in DOMAIN acts : WithinDisplay(acts[i])
    BY <1>1, <1>5, <1>6, NormalizedWithin
  <2> QED
    BY <1>1, <1>5, <1>10, <2>1 DEF Inside
<1>12. KeepsMeaning(asked', response'.actions)
  <2>1. KeepsMeaning(raws, acts)
    BY <1>1, <1>5, <1>6, MeaningIsKept
  <2> QED
    BY <1>1, <1>5, <1>10, <2>1
<1> QED
  BY <1>2, <1>10, <1>11, <1>12

\* Each step of the request's way to the server and back keeps that account.
LEMMA AdapterKeeps ==
  ASSUME AdapterTypeOK, Says, Answering, Remembers,
         call = "posted" => answers + 1 \in 1 .. MaxSteps + 1,
         step' = step, transcript' = transcript, Adapter
  PROVE  /\ AdapterTypeOK' /\ Says' /\ Answering' /\ Remembers'
         /\ Underway /\ mode' = mode
         /\ \/ /\ call' \in {"posted", "sending", "failed"}
               /\ UNCHANGED << answers, asked, response >>
            \/ call' = "answered" /\ answers' = answers + 1 /\ Inside'
<1> USE DEF Underway
<1>1. CASE PostResponses
  BY <1>1 DEF PostResponses, AdapterTypeOK, Says, Answering, Remembers
<1>2. CASE Retry
  BY <1>2 DEF Retry, AdapterTypeOK, Says, Answering, Remembers
<1>3. CASE PostFails \/ AnswerInvalid
  BY <1>3 DEF PostFails, AnswerInvalid, AdapterTypeOK, Says, Answering, Remembers
<1>4. CASE Answered
  <2>1. call = "posted"
    BY <1>4 DEF Answered
  <2>2. /\ response' \in ResponseType /\ response'.id = answers'
        /\ response'.call \in {0, response'.calls}
        /\ answers' = answers + 1 /\ call' = "answered" /\ Inside'
        /\ UNCHANGED << mode, history, request, attempt >>
    BY <1>4, <2>1, AnsweredKeeps
  <2>3. Says' /\ Answering' /\ Remembers'
    BY <2>2 DEF Says, Answering, Remembers
  <2>4. response'.call \in 0 .. response'.calls
    BY <2>2 DEF ResponseType
  <2>5. AdapterTypeOK'
    BY <2>2, <2>4 DEF AdapterTypeOK, ResponseType
  <2> QED
    BY <2>1, <2>2, <2>3, <2>5
<1> QED
  BY <1>1, <1>2, <1>3, <1>4 DEF Adapter

----------------------------------------------------------------------------
\* What the backend waits for is what the loop has asked for last.
Waits ==
  waiting # << >> =>
    /\ pc \in {"latest", "shot", "executing", "ended"}
    /\ pc = "executing" => waiting[1].what = "action"
    /\ pc = "shot" => waiting[1].what = "shot"

\* Where the loop is, and how many answers of the model it has had by then.
Steps ==
  /\ pc \in {"starting", "latest"} => step = 0
  /\ pc \in {"acting", "executing"} => step > 0
  /\ pc # "ended" => answers = step + (IF pc = "asking" /\ call = "answered" THEN 1 ELSE 0)
  /\ Underway => pc = "asking"
  /\ call = "failed" => pc \in {"asking", "ended"}

\* The results are of actions before the one that is executed now, and that one was
\* done when its answer says so.
Noting ==
  /\ \A i \in DOMAIN results :
       results[i].id <= posted /\ (pc = "executing" => results[i].id < posted)
  /\ pc = "executing" =>
       /\ Len(results) < Len(response.actions) /\ posted > 0
       /\ answer.status = "ok" => \E k \in DOMAIN ran : ran[k] = [id |-> posted, ok |-> TRUE]
  /\ pc = "asking" => results = << >>

NothingQueued == \A i \in DOMAIN queue : queue[i].what # "action"

\* The picture after a step is taken when everything is done.
Seen ==
  (pc = "shot" /\ step > 0 /\ answer.status = "ok") => answer.picture = Len(ran) /\ NothingQueued

IInv ==
  /\ TypeOK
  /\ Queued /\ Pressed
  /\ Says /\ Answering /\ Remembers
  /\ Waits /\ Steps /\ Noting /\ DoneInOrder /\ Seen /\ PictureFresh

\* Every initial state satisfies the inductive invariant.
LEMMA Starts == Init => IInv
<1> SUFFICES ASSUME Init  PROVE IInv
  OBVIOUS
<1>1. SandboxTypeOK /\ Queued
  BY SandboxStarts DEF Init
<1>2. /\ Pressed /\ waiting = << >> /\ ran = << >>
  BY DEF Init, SandboxInit, Pressed
<1>3. /\ mode \in Modes /\ history = << >> /\ request = NoRequest /\ attempt = 0
      /\ call = "none" /\ answers = 0 /\ response = NoResponse /\ asked = << >>
  BY DEF Init, AdapterInit
<1>4. /\ pc = "starting" /\ step = 0 /\ results = << >> /\ picture = NoPicture
      /\ transcript = << >>
  BY DEF Init
<1>5. /\ NoResponse \in ResponseType /\ NoResponse.id = 0 /\ NoResponse.call = 0
      /\ NoResponse.calls = 0 /\ NoRequest \in RequestType
      /\ NoRequest.previous = 0 /\ NoRequest.input = << >>
  BY DEF NoResponse, NoRequest, ResponseType, RequestType
<1>6. Says
  BY <1>3, <1>5 DEF Says, Underway
<1>7. AdapterTypeOK
  <2>1. history \in Seq(Entries) /\ Len(history) <= Window
    BY <1>3, WindowAssumption
  <2> QED
    BY <1>3, <1>5, <2>1 DEF AdapterTypeOK, ResponseType, RequestType
<1>8. TypeOK
  BY <1>1, <1>4, <1>7, TurnAssumption DEF TypeOK, Locations, Pictures
<1>9. Remembers
  <2>1. Latest(<< >>) = << >>
    <3>1. << >> \in Seq(Entries) /\ Len(<< >>) = 0 /\ 0 \in Nat /\ 0 <= Window
      BY WindowAssumption
    <3> QED
      BY <3>1, LatestFacts
  <2> QED
    BY <1>3, <1>4, <2>1 DEF Remembers
<1>10. Answering /\ Waits /\ Steps /\ Noting /\ DoneInOrder /\ Seen /\ PictureFresh
  BY <1>2, <1>3, <1>4 DEF Answering, Underway, Waits, Steps, Noting, DoneInOrder, RanInOrder,
                          Seen, PictureFresh
<1> QED
  BY <1>1, <1>2, <1>6, <1>8, <1>9, <1>10 DEF IInv

\* A script that ended is never forgotten.
LEMMA RanGrows ==
  ASSUME SandboxTypeOK, Queued, Served
  PROVE  \A k \in DOMAIN ran : k \in DOMAIN ran' /\ ran'[k] = ran[k]
<1>1. CASE ran' = ran
  BY <1>1
<1>2. CASE Head(queue).what = "action" /\ \E ok \in BOOLEAN :
             ran' = Append(ran, [id |-> Head(queue).id, ok |-> ok])
  <2>1. queue \in Seq(Requests) /\ queue # << >>
    BY DEF SandboxTypeOK, Served
  <2>2. Head(queue) \in Requests /\ Head(queue).id > 0
    BY <1>2, <2>1, TailFacts DEF Queued
  <2>3. PICK e \in Scripts : ran' = Append(ran, e)
    BY <1>2, <2>2 DEF Requests, Scripts
  <2> QED
    BY <2>3, AppendFacts DEF SandboxTypeOK, Scripts
<1> QED
  BY <1>1, <1>2 DEF Served

\* The first request is answered while the loop is where it is.
LEMMA ServedKeeps ==
  ASSUME IInv, Served, UNCHANGED << adapter, turn >>
  PROVE  Waits' /\ Steps' /\ Noting' /\ DoneInOrder' /\ Seen' /\ PictureFresh'
<1> USE DEF turn, adapter
<1>1. SandboxTypeOK /\ Queued /\ TypeOK
  BY DEF IInv, TypeOK
<1>2. queue # << >> /\ queue \in Seq(Requests) /\ queue' = Tail(queue)
  BY <1>1 DEF SandboxTypeOK, Served
<1>3. PICK n \in Nat \ {0} : n = Len(queue)
  BY <1>2, TailFacts
<1>4. /\ DOMAIN queue = 1 .. n /\ Head(queue) = queue[1]
      /\ DOMAIN queue' = 1 .. (n - 1)
      /\ \A i \in 1 .. (n - 1) : queue'[i] = queue[i + 1] /\ i + 1 \in 1 .. n
  BY <1>2, <1>3, TailFacts
<1>5. \A k \in DOMAIN ran : k \in DOMAIN ran' /\ ran'[k] = ran[k]
  BY <1>1, RanGrows
<1>6. NothingQueued => NothingQueued' /\ ran' = ran
  <2>1. 1 \in 1 .. n
    OBVIOUS
  <2> QED
    BY <1>4, <2>1 DEF NothingQueued, Served
<1>7. Waits' /\ Steps'
  BY DEF IInv, Waits, Steps, Underway, Served
<1>8. PictureFresh'
  <2>1. PictureFresh
    BY DEF IInv
  <2> QED
    BY <1>6, <2>1 DEF PictureFresh, NothingQueued
<1>9. posted' = posted
  BY DEF Served
<1>10. Noting'
  <2>1. Noting
    BY DEF IInv
  <2>2. ASSUME pc = "executing", answer'.status = "ok"
        PROVE  \E k \in DOMAIN ran' : ran'[k] = [id |-> posted, ok |-> TRUE]
    <3>1. CASE waiting = << Head(queue) >>
      <4>1. waiting # << >> /\ waiting[1] = Head(queue)
        BY <3>1
      <4>2. Head(queue).what = "action" /\ Head(queue).id = posted
        BY <2>2, <4>1, <1>1 DEF IInv, Waits, Queued
      <4>3. ran' = Append(ran, [id |-> posted, ok |-> TRUE])
        BY <2>2, <3>1, <4>2 DEF Served
      <4>4. posted > 0 /\ posted \in Nat
        BY <1>1, <2>1, <2>2 DEF Noting, SandboxTypeOK
      <4>5. [id |-> posted, ok |-> TRUE] \in Scripts /\ ran \in Seq(Scripts)
        BY <1>1, <4>4 DEF Scripts, SandboxTypeOK
      <4> QED
        BY <4>3, <4>5, AppendFacts
    <3>2. CASE waiting # << Head(queue) >>
      <4>1. answer.status = "ok"
        BY <2>2, <3>2 DEF Served
      <4> QED
        BY <1>5, <2>1, <2>2, <4>1 DEF Noting
    <3> QED
      BY <3>1, <3>2
  <2> QED
    BY <1>9, <2>1, <2>2 DEF Noting
<1>11. DoneInOrder'
  <2>1. DoneInOrder /\ RanInOrder'
    BY <1>1, ServedQueued DEF IInv, Queued
  <2> QED
    BY <1>5, <2>1 DEF DoneInOrder
<1>12. Seen'
  <2>1. Seen
    BY DEF IInv
  <2>2. ASSUME pc = "shot", step > 0, answer'.status = "ok"
        PROVE  answer'.picture = Len(ran') /\ NothingQueued'
    <3>1. CASE waiting = << Head(queue) >>
      <4>1. waiting # << >> /\ waiting[1] = Head(queue)
        BY <3>1
      <4>2. Head(queue).what = "shot" /\ Head(queue).id = posted
        BY <2>2, <4>1, <1>1 DEF IInv, Waits, Queued
      <4>3. ran' = ran /\ answer'.picture = Len(ran)
        BY <2>2, <3>1, <4>2 DEF Served
      <4>4. ASSUME NEW i \in 1 .. (n - 1), queue'[i].what = "action"  PROVE FALSE
        <5>1. 1 < i + 1 /\ 1 \in DOMAIN queue /\ i + 1 \in DOMAIN queue /\ queue'[i] = queue[i + 1]
          BY <1>4
        <5>2. queue[1].id < queue[i + 1].id /\ queue[i + 1].id <= posted
          BY <1>1, <4>4, <5>1 DEF Queued
        <5>3. queue[1].id = posted /\ posted \in Nat /\ queue[i + 1].id \in Nat
          <6>1. queue[i + 1] \in Requests
            BY <1>2, <5>1
          <6> QED
            BY <1>1, <1>4, <4>2, <6>1 DEF Requests, SandboxTypeOK
        <5> QED
          BY <5>2, <5>3
      <4> QED
        BY <1>4, <4>3, <4>4 DEF NothingQueued
    <3>2. CASE waiting # << Head(queue) >>
      <4>1. answer' = answer
        BY <3>2 DEF Served
      <4> QED
        BY <1>6, <2>1, <2>2, <4>1 DEF Seen
    <3> QED
      BY <3>1, <3>2
  <2> QED
    BY <2>2 DEF Seen
<1> QED
  BY <1>7, <1>8, <1>10, <1>11, <1>12

\* The controller, the script, the cleanup and a timeout of the backend.
LEMMA DesktopStep ==
  ASSUME IInv, UNCHANGED << adapter, turn >>, Controller \/ DeleteSandbox \/ GiveUp
  PROVE  IInv'
<1> USE DEF turn, adapter
<1>1. SandboxTypeOK /\ Queued /\ Pressed
  BY DEF IInv, TypeOK
<1>2. Says' /\ Answering' /\ Remembers'
  BY DEF IInv, Says, Answering, Underway, Remembers, Latest
<1>3. SandboxTypeOK' => TypeOK'
  BY DEF IInv, TypeOK, AdapterTypeOK
<1>4. Pressed'
  <2>1. CASE Controller
    BY <1>1, <2>1, PressedKept
  <2>2. CASE DeleteSandbox \/ GiveUp
    BY <1>1, <2>2 DEF DeleteSandbox, GiveUp, Pressed, desktop
  <2> QED
    BY <2>1, <2>2
<1>5. CASE Served
  <2>1. SandboxTypeOK' /\ Queued'
    BY <1>1, <1>5, ServedTyped, ServedQueued
  <2>2. Waits' /\ Steps' /\ Noting' /\ DoneInOrder' /\ Seen' /\ PictureFresh'
    BY <1>5, ServedKeeps
  <2> QED
    BY <1>2, <1>3, <1>4, <2>1, <2>2 DEF IInv
<1>6. CASE Begun
  <2>1. SandboxTypeOK' /\ Queued'
    BY <1>1, <1>6, BegunKeeps
  <2>2. UNCHANGED << posted, waiting, answer, queue, ran >>
    BY <1>6 DEF Begun, backend
  <2>3. Waits' /\ Steps' /\ Noting' /\ DoneInOrder' /\ Seen' /\ PictureFresh'
    BY <2>2 DEF IInv, Waits, Steps, Underway, Noting, DoneInOrder, RanInOrder, Seen,
                NothingQueued, PictureFresh
  <2> QED
    BY <1>2, <1>3, <1>4, <2>1, <2>3 DEF IInv
<1>7. CASE GiveUp
  <2>1. SandboxTypeOK' /\ Queued'
    BY <1>1, <1>7, GiveUpKeeps
  <2>2. /\ UNCHANGED << posted, queue, ran >> /\ waiting' = << >> /\ answer'.status = "error"
    BY <1>7 DEF GiveUp, desktop
  <2>3. Waits' /\ Steps' /\ Noting' /\ DoneInOrder' /\ Seen' /\ PictureFresh'
    BY <2>2 DEF IInv, Waits, Steps, Underway, Noting, DoneInOrder, RanInOrder, Seen,
                NothingQueued, PictureFresh
  <2> QED
    BY <1>2, <1>3, <1>4, <2>1, <2>3 DEF IInv
<1> QED
  BY <1>1, <1>5, <1>6, <1>7, Handled

\* The model server answers, fails, or is asked again.
LEMMA AdapterStep ==
  ASSUME IInv, UNCHANGED << sandbox, turn >>, Adapter
  PROVE  IInv' /\ (Inside => Inside')
<1> USE DEF turn, sandbox, backend, desktop
<1>1. AdapterTypeOK /\ Says /\ Answering /\ Remembers
  BY DEF IInv, TypeOK
<1>2. call = "posted" => pc = "asking" /\ answers + 1 \in 1 .. MaxSteps + 1
  <2>1. step \in 0 .. MaxSteps /\ MaxSteps \in Nat
    BY TurnAssumption DEF IInv, TypeOK
  <2> QED
    BY <2>1 DEF IInv, Steps, Underway
<1>3. /\ AdapterTypeOK' /\ Says' /\ Answering' /\ Remembers'
      /\ Underway /\ mode' = mode
      /\ \/ /\ call' \in {"posted", "sending", "failed"}
            /\ UNCHANGED << answers, asked, response >>
         \/ call' = "answered" /\ answers' = answers + 1 /\ Inside'
  BY <1>1, <1>2, AdapterKeeps
<1>4. pc = "asking"
  BY <1>3 DEF IInv, Steps
<1>5. TypeOK'
  <2>1. SandboxTypeOK'
    BY DEF IInv, TypeOK, SandboxTypeOK
  <2> QED
    BY <1>3, <1>4, <2>1 DEF IInv, TypeOK
<1>6. Queued' /\ Pressed'
  BY DEF IInv, Queued, RanInOrder, Pressed
<1>7. Steps'
  <2>1. answers = step /\ answers \in Nat
    <3>1. step \in Nat /\ answers \in Nat
      BY <1>1, TurnAssumption DEF IInv, TypeOK, AdapterTypeOK
    <3>2. call # "answered" /\ pc # "ended"
      BY <1>3, <1>4 DEF Underway
    <3> QED
      BY <3>1, <3>2 DEF IInv, Steps
  <2> QED
    BY <1>3, <1>4, <2>1 DEF Steps, Underway
<1>8. Waits' /\ Noting' /\ DoneInOrder' /\ Seen' /\ PictureFresh'
  BY <1>4 DEF IInv, Waits, Noting, DoneInOrder, RanInOrder, Seen, NothingQueued, PictureFresh
<1>9. Inside => Inside'
  BY <1>3 DEF Inside
<1> QED
  BY <1>3, <1>5, <1>6, <1>7, <1>8, <1>9 DEF IInv

\* Nothing but the place of the loop changes, and the loop is over.
LEMMA EndStep ==
  ASSUME IInv, End, UNCHANGED << sandbox, adapter >>, ~Underway
  PROVE  IInv'
<1> USE DEF sandbox, backend, desktop, adapter
<1>1. pc' = "ended" /\ UNCHANGED << step, results, picture, transcript >>
  BY DEF End, Go
<1>2. TypeOK'
  <2>1. SandboxTypeOK' /\ AdapterTypeOK'
    BY DEF IInv, TypeOK, SandboxTypeOK, AdapterTypeOK
  <2> QED
    BY <1>1, <2>1 DEF IInv, TypeOK, Locations
<1>3. Queued' /\ Pressed'
  BY DEF IInv, Queued, RanInOrder, Pressed
<1>4. Says' /\ Answering' /\ Remembers'
  BY <1>1 DEF IInv, Says, Answering, Underway, Remembers, Latest
<1>5. Waits' /\ Steps' /\ DoneInOrder' /\ Seen' /\ PictureFresh'
  BY <1>1 DEF IInv, Waits, Steps, Underway, DoneInOrder, RanInOrder, Seen, PictureFresh
<1>6. Noting'
  BY <1>1 DEF IInv, Noting
<1> QED
  BY <1>2, <1>3, <1>4, <1>5, <1>6 DEF IInv

\* The action field of a request for a picture.
LEMMA NoActionType == NoAction \in Actions
BY DEF NoAction, Actions, Types, Buttons, Texts

\* The results of a step, one by one.
LEMMA ResultsType ==
  ASSUME TypeOK
  PROVE  /\ Len(results) \in Nat /\ DOMAIN results = 1 .. Len(results)
         /\ \A i \in DOMAIN results : results[i] \in Results /\ results[i].id \in Nat
<1>1. /\ Len(results) \in Nat /\ DOMAIN results = 1 .. Len(results)
      /\ \A i \in DOMAIN results : results[i] \in Results
  <2>1. results \in Seq(Results)
    BY DEF TypeOK
  <2> HIDE DEF Results
  <2> QED
    BY <2>1
<1> QED
  BY <1>1 DEF Results

\* The next action of the response is one.
LEMMA NextActionType ==
  ASSUME TypeOK, ActionsLeft
  PROVE  NextAction \in Actions
<1>1. response.actions \in Seq(Actions)
  BY DEF TypeOK, AdapterTypeOK
<1>2. Len(results) + 1 \in 1 .. Len(response.actions)
  BY <1>1, ResultsType DEF ActionsLeft
<1> QED
  BY <1>1, <1>2 DEF NextAction

\* The loop posts a request: for an action, or for a picture when there is nothing
\* left to do.
LEMMA PostStep ==
  ASSUME IInv, NEW what \in {"action", "latest", "shot"}, NEW a \in Actions, Post(what, a),
         UNCHANGED << step, results, picture, transcript, adapter >>,
         \/ what = "action" /\ pc = "acting" /\ ActionsLeft /\ pc' = "executing"
         \/ what = "latest" /\ pc = "starting" /\ pc' = "latest"
         \/ what = "shot" /\ pc \in {"latest", "acting"} /\ pc' = "shot"
  PROVE  IInv'
<1> USE DEF adapter
<1>1. SandboxTypeOK /\ Queued /\ TypeOK
  BY DEF IInv, TypeOK
<1>2. /\ SandboxTypeOK' /\ Queued'
      /\ waiting' # << >> /\ waiting'[1].what = what
      /\ answer' = NoAnswer /\ ran' = ran
      /\ posted' = IF what = "action" THEN posted + 1 ELSE posted
  BY <1>1, PostKeeps
<1>3. posted \in Nat /\ NoAnswer.status = "none"
  BY <1>1 DEF SandboxTypeOK, NoAnswer
<1>4. TypeOK'
  <2>1. AdapterTypeOK'
    BY <1>1 DEF TypeOK, AdapterTypeOK
  <2>2. pc' \in Locations /\ (pc' \in {"acting", "executing"} => pc = "acting")
    BY DEF Locations
  <2> QED
    BY <1>1, <1>2, <2>1, <2>2 DEF TypeOK
<1>5. Pressed'
  BY DEF IInv, Pressed, Post, desktop
<1>6. Says' /\ Answering' /\ Remembers'
  BY DEF IInv, Says, Answering, Underway, Remembers, Latest
<1>7. Waits'
  BY <1>2 DEF Waits
<1>8. Steps'
  BY DEF IInv, Steps, Underway
<1>9. Noting'
  <2>1. Noting
    BY DEF IInv
  <2>2. \A i \in DOMAIN results : results[i].id <= posted /\ results[i].id \in Nat
    BY <1>1, <2>1, ResultsType DEF Noting
  <2>3. \A i \in DOMAIN results : results[i].id <= posted' /\ (what = "action" => results[i].id < posted')
    BY <1>2, <1>3, <2>2
  <2>4. what = "action" => posted' > 0
    BY <1>2, <1>3
  <2> QED
    BY <1>2, <1>3, <2>3, <2>4 DEF Noting, ActionsLeft
<1>10. DoneInOrder'
  BY <1>2 DEF IInv, DoneInOrder, RanInOrder
<1>11. Seen' /\ PictureFresh'
  BY <1>2, <1>3 DEF Seen, PictureFresh
<1> QED
  BY <1>2, <1>4, <1>5, <1>6, <1>7, <1>8, <1>9, <1>10, <1>11 DEF IInv

\* The loop notes a result of the action that is executed, or of one that it refuses.
LEMMA NoteStep ==
  ASSUME IInv, NEW id \in Nat, NEW status \in {"ok", "error"}, Note(id, status),
         UNCHANGED << posted, waiting, queue, phase, desktop, step, picture, transcript, adapter >>,
         answer' \in Answers, waiting = << >>, pc' = "acting",
         \/ pc = "acting" /\ ActionsLeft /\ id = 0 /\ status = "error"
         \/ pc = "executing" /\ id = posted /\ status = answer.status
  PROVE  IInv' /\ UNCHANGED << asked, response >>
<1> USE DEF adapter, desktop
<1>1. SandboxTypeOK /\ Queued /\ TypeOK /\ Noting
  BY DEF IInv, TypeOK
<1>2. PICK m \in Nat : m = Len(results)
  BY <1>1, ResultsType
<1>3. PICK e \in Results : e.id = id /\ e.status = status /\ results' = Append(results, e)
  BY DEF Note, Results
<1>4. /\ DOMAIN results = 1 .. m /\ DOMAIN results' = 1 .. (m + 1)
      /\ results' \in Seq(Results) /\ Len(results') = m + 1
      /\ \A i \in 1 .. m : results'[i] = results[i]
      /\ results'[m + 1] = e
  <2>1. results \in Seq(Results)
    BY <1>1 DEF TypeOK
  <2> HIDE DEF Results
  <2> QED
    BY <1>2, <1>3, <2>1, AppendFacts, LenProperties
<1>5. m < Len(response.actions) /\ Len(response.actions) \in Nat
  <2>1. Len(response.actions) \in Nat
    BY <1>1, LenProperties DEF TypeOK, AdapterTypeOK
  <2> QED
    BY <1>1, <1>2, <2>1 DEF Noting, ActionsLeft
<1>6. SandboxTypeOK' /\ Queued'
  <2>1. SandboxTypeOK'
    BY <1>1 DEF SandboxTypeOK
  <2> QED
    BY <1>1, <2>1 DEF Queued, RanInOrder
<1>7. TypeOK'
  <2>1. AdapterTypeOK'
    BY <1>1 DEF TypeOK, AdapterTypeOK
  <2> QED
    BY <1>1, <1>4, <1>5, <1>6, <2>1 DEF TypeOK, Locations
<1>8. Pressed' /\ Says' /\ Answering' /\ Remembers'
  BY DEF IInv, Pressed, Says, Answering, Underway, Remembers, Latest
<1>9. Waits' /\ Steps' /\ Seen' /\ PictureFresh'
  BY DEF IInv, Waits, Steps, Underway, Seen, PictureFresh
<1>10. posted \in Nat /\ \A i \in 1 .. m : results[i].id \in Nat /\ results[i].id <= posted
                                           /\ (pc = "executing" => results[i].id < posted)
  BY <1>1, <1>4, ResultsType DEF SandboxTypeOK, Noting
<1>11. Noting'
  <2>1. \A i \in 1 .. (m + 1) : i \in 1 .. m \/ i = m + 1
    OBVIOUS
  <2>2. id <= posted
    BY <1>10
  <2>3. \A i \in DOMAIN results' : results'[i].id <= posted'
    BY <1>3, <1>4, <1>10, <2>1, <2>2
  <2> QED
    BY <2>3 DEF Noting
<1>12. DoneInOrder'
  <2>1. DoneInOrder /\ RanInOrder'
    BY DEF IInv, DoneInOrder, RanInOrder
  <2>2. \A i \in 1 .. (m + 1) : i \in 1 .. m \/ i = m + 1
    OBVIOUS
  <2>3. status = "ok" => \E k \in DOMAIN ran : ran[k] = [id |-> id, ok |-> TRUE]
    BY <1>1 DEF Noting
  <2>4. ASSUME NEW i \in 1 .. (m + 1), results'[i].status = "ok"
        PROVE  \E k \in DOMAIN ran' : ran'[k] = [id |-> results'[i].id, ok |-> TRUE]
    BY <1>3, <1>4, <2>1, <2>2, <2>3, <2>4 DEF DoneInOrder
  <2>5. ASSUME NEW i \in 1 .. (m + 1), NEW j \in 1 .. (m + 1), i < j,
               results'[i].id # 0, results'[j].id # 0
        PROVE  results'[i].id < results'[j].id
    <3>1. i \in 1 .. m
      BY <2>5
    <3>2. CASE j \in 1 .. m
      BY <1>4, <2>1, <2>5, <3>1, <3>2 DEF DoneInOrder
    <3>3. CASE j = m + 1
      BY <1>3, <1>4, <1>10, <2>5, <3>1, <3>3
    <3> QED
      BY <3>2, <3>3
  <2> QED
    BY <1>4, <2>1, <2>4, <2>5 DEF DoneInOrder
<1> QED
  BY <1>6, <1>7, <1>8, <1>9, <1>11, <1>12 DEF IInv

\* The loop has its picture, and the adapter has made a request or an answer of it.
LEMMA PicturedStep ==
  ASSUME IInv, Pictured, AdapterTypeOK', Says', Answering', Remembers',
         transcript' \in Seq(Entries),
         answers' = step + (IF call' = "answered" THEN 1 ELSE 0)
  PROVE  IInv'
<1> USE DEF sandbox, backend, desktop
<1>1. /\ SandboxTypeOK /\ Queued /\ TypeOK /\ Noting /\ Seen /\ Steps
  BY DEF IInv, TypeOK
<1>2. /\ pc \in {"latest", "shot"} /\ answer.status = "ok" /\ picture' = answer.picture
      /\ results' = << >> /\ pc' = "asking" /\ step' = step
      /\ UNCHANGED << posted, waiting, answer, queue, phase, alive, ran, held, jammed, file >>
  BY DEF Pictured, Go
<1>3. SandboxTypeOK' /\ Queued' /\ Pressed'
  BY <1>1, <1>2 DEF IInv, SandboxTypeOK, Queued, RanInOrder, Pressed
<1>4. TypeOK'
  <2>1. answer.picture \in Pictures
    BY <1>1 DEF SandboxTypeOK, Answers
  <2> QED
    BY <1>1, <1>2, <1>3, <2>1 DEF TypeOK, Locations
<1>5. waiting = << >>
  BY <1>1, <1>2 DEF Queued
<1>6. Waits' /\ Seen'
  BY <1>2, <1>5 DEF Waits, Seen
<1>7. Steps'
  <2>1. step \in Nat
    BY <1>1, TurnAssumption DEF TypeOK
  <2> QED
    BY <1>2, <2>1 DEF Steps
<1>8. Noting' /\ DoneInOrder'
  BY <1>1, <1>2 DEF IInv, Noting, DoneInOrder, RanInOrder
<1>9. PictureFresh'
  <2>1. step > 0 => pc = "shot"
    BY <1>1, <1>2 DEF Steps
  <2> QED
    BY <1>1, <1>2, <2>1 DEF Seen, NothingQueued, PictureFresh
<1> QED
  BY <1>3, <1>4, <1>6, <1>7, <1>8, <1>9 DEF IInv

\* The first picture: create_initial_response.
LEMMA AskModelStep ==
  ASSUME IInv, AskModel
  PROVE  IInv' /\ (Inside => Inside')
<1> DEFINE e == Saying("user", "instruction", 0)
<1>1. /\ step = 0 /\ Pictured /\ transcript' = << e >>
      /\ CreateInitial \/ MockAnswers(TRUE)
  BY DEF AskModel
<1>2. AdapterTypeOK /\ Says /\ pc \in {"latest", "shot"} /\ step' = step
  BY <1>1 DEF IInv, TypeOK, Pictured
<1>3. answers = 0
  BY <1>1, <1>2 DEF IInv, Steps
<1>4. e \in Entries
  BY SayingType
<1>5. transcript' \in Seq(Entries) /\ Len(transcript') = 1
  <2> HIDE DEF e
  <2> QED
    BY <1>1, <1>4
<1>6. CASE CreateInitial
  <2>1. /\ AdapterTypeOK' /\ Says' /\ asked' = << >> /\ response'.actions = << >>
        /\ call' = "sending" /\ mode' = mode /\ answers' = answers
        /\ mode = "manual" => history' = << e >>
    BY <1>2, <1>3, <1>6, InitialKeeps
  <2>2. Answering'
    BY <1>1, <1>2 DEF Answering
  <2>3. Latest(transcript') = transcript'
    BY <1>5, LatestFacts, WindowAssumption
  <2>4. Remembers'
    BY <1>1, <2>1, <2>3 DEF Remembers
  <2>5. Inside'
    BY <2>1 DEF Inside
  <2>6. answers' = step + (IF call' = "answered" THEN 1 ELSE 0)
    BY <1>1, <1>3, <2>1
  <2> QED
    BY <1>1, <1>5, <2>1, <2>2, <2>4, <2>5, <2>6, PicturedStep
<1>7. CASE MockAnswers(TRUE)
  <2>1. /\ AdapterTypeOK' /\ Says' /\ Answering' /\ Remembers'
        /\ call' = "answered" /\ mode' = mode /\ answers' = answers + 1 /\ asked' = asked
        /\ \A i \in DOMAIN response'.actions : WithinDisplay(response'.actions[i])
    BY <1>2, <1>7, MockKeeps
  <2>2. answers' = step + (IF call' = "answered" THEN 1 ELSE 0)
    BY <1>1, <1>3, <2>1
  <2>3. Inside'
    BY <2>1 DEF Inside
  <2> QED
    BY <1>1, <1>5, <2>1, <2>2, <2>3, PicturedStep
<1> QED
  BY <1>1, <1>6, <1>7

\* The picture after a step: continue_after_actions.
LEMMA TellModelStep ==
  ASSUME IInv, TellModel
  PROVE  IInv' /\ (Inside => Inside')
<1>1. /\ step > 0 /\ Pictured /\ transcript' = Told
      /\ (\E changed \in BOOLEAN : Continue(step, Failed, changed)) \/ MockAnswers(FALSE)
  BY DEF TellModel, Told
<1>2. /\ AdapterTypeOK /\ Says /\ Remembers /\ transcript \in Seq(Entries)
      /\ pc \in {"latest", "shot"} /\ step' = step
  BY <1>1 DEF IInv, TypeOK, Pictured
<1>3. step \in Nat
  BY TurnAssumption DEF IInv, TypeOK
<1>4. answers = step
  BY <1>2, <1>3 DEF IInv, Steps
<1>5. transcript' \in Seq(Entries)
  <2> DEFINE e == Saying("assistant", "feedback", step)
             f == Saying("user", "picture", step)
  <2>1. e \in Entries /\ f \in Entries
    BY <1>3, SayingType
  <2>2. Told = transcript \o << e, f >>
    BY DEF Told
  <2> HIDE DEF e, f
  <2>3. << e, f >> \in Seq(Entries)
    BY <2>1
  <2> QED
    BY <1>1, <1>2, <2>2, <2>3, ConcatProperties
<1>6. CASE \E changed \in BOOLEAN : Continue(step, Failed, changed)
  <2>1. PICK changed \in BOOLEAN : Continue(step, Failed, changed)
    BY <1>6
  <2>2. Failed \in BOOLEAN
    BY DEF Failed
  <2>3. /\ AdapterTypeOK' /\ Says' /\ Answering' /\ Remembers'
        /\ \/ asked' = << >> /\ response'.actions = << >>
           \/ UNCHANGED << asked, response >>
        /\ call' \in {"sending", "failed"} /\ mode' = mode /\ answers' = answers
    BY <1>1, <1>2, <1>3, <2>1, <2>2, ContinueKeeps
  <2>4. answers' = step + (IF call' = "answered" THEN 1 ELSE 0)
    BY <1>3, <1>4, <2>3
  <2>5. Inside => Inside'
    BY <2>3 DEF Inside
  <2> QED
    BY <1>1, <1>5, <2>3, <2>4, <2>5, PicturedStep
<1>7. CASE MockAnswers(FALSE)
  <2>1. /\ AdapterTypeOK' /\ Says' /\ Answering' /\ Remembers'
        /\ call' = "answered" /\ mode' = mode /\ answers' = answers + 1 /\ asked' = asked
        /\ \A i \in DOMAIN response'.actions : WithinDisplay(response'.actions[i])
    BY <1>2, <1>7, MockKeeps
  <2>2. answers' = step + (IF call' = "answered" THEN 1 ELSE 0)
    BY <1>4, <2>1
  <2>3. Inside'
    BY <2>1 DEF Inside
  <2> QED
    BY <1>1, <1>5, <2>1, <2>2, <2>3, PicturedStep
<1> QED
  BY <1>1, <1>6, <1>7

\* The click of the launcher assist is an action, and on the display but for a
\* display of one column, whose only column its rounding misses.
LEMMA LaunchFacts ==
  /\ Launch \in Actions
  /\ Width # 1 => WithinDisplay(Launch)
<1> DEFINE x == Round(Width * 985, 1920)
           y == Round(Height * 1053, 1080)
           z == IF y < Height THEN y ELSE Height - 1
<1>1. PICK w, h \in Nat \ {0} : w = Width /\ h = Height
  BY DisplayAssumption
<1>2. x \in Nat /\ (Width # 1 => x \in 0 .. Width - 1)
  <2>1. PICK q \in Int, r \in 0 .. 1919 :
          q = (w * 985) \div 1920 /\ r = (w * 985) % 1920 /\ w * 985 = 1920 * q + r
    <3>1. w * 985 = 1920 * ((w * 985) \div 1920) + ((w * 985) % 1920)
      BY <1>1
    <3> QED
      BY <1>1, <3>1
  <2>2. x = q + (IF 2 * r > 1920 \/ (2 * r = 1920 /\ q % 2 = 1) THEN 1 ELSE 0)
    BY <1>1, <2>1 DEF Round
  <2> HIDE DEF x
  <2> QED
    BY <1>1, <2>1, <2>2
<1>3. y \in Nat
  <2>1. PICK q \in Int, r \in 0 .. 1079 :
          q = (h * 1053) \div 1080 /\ r = (h * 1053) % 1080 /\ h * 1053 = 1080 * q + r
    <3>1. h * 1053 = 1080 * ((h * 1053) \div 1080) + ((h * 1053) % 1080)
      BY <1>1
    <3> QED
      BY <1>1, <3>1
  <2>2. y = q + (IF 2 * r > 1080 \/ (2 * r = 1080 /\ q % 2 = 1) THEN 1 ELSE 0)
    BY <1>1, <2>1 DEF Round
  <2> HIDE DEF y
  <2> QED
    BY <1>1, <2>1, <2>2
<1>4. z \in 0 .. Height - 1
  <2> HIDE DEF y
  <2> QED
    BY <1>1, <1>3
<1>5. Launch = [type |-> "click", at |-> << << x, z >> >>, button |-> "left", arg |-> "none",
                path |-> << >>]
  BY DEF Launch
<1> HIDE DEF x, z
<1>6. Launch \in Actions
  <2>1. << x, z >> \in Points
    BY <1>1, <1>2, <1>4 DEF Points
  <2> HIDE DEF Points
  <2>2. << << x, z >> >> \in Seq(Points) /\ << >> \in Seq(Points)
    BY <2>1
  <2> QED
    BY <1>5, <2>2 DEF Actions, Types, Buttons, Texts
<1>7. Width # 1 => WithinDisplay(Launch)
  BY <1>2, <1>4, <1>5 DEF WithinDisplay, OnDisplay
<1> QED
  BY <1>6, <1>7

----------------------------------------------------------------------------
\* The actions of a response, or the launcher in their place, are next.
LEMMA CallToolStep ==
  ASSUME IInv, CallTool
  PROVE  IInv' /\ (Width # 1 /\ Inside => Inside')
<1> USE DEF sandbox, backend, desktop
<1>1. /\ pc = "asking" /\ call = "answered" /\ step < MaxSteps
      /\ step' = step + 1 /\ pc' = "acting"
      /\ UNCHANGED << mode, history, request, attempt, call, answers, asked,
                      results, picture, transcript >>
      /\ UNCHANGED << posted, waiting, answer, queue, phase, alive, ran, held, jammed, file >>
  BY DEF CallTool, Go
<1>2. \/ response' = response
      \/ response' = [response EXCEPT !.actions = << Launch >>]
  BY DEF CallTool
<1>3. SandboxTypeOK /\ AdapterTypeOK /\ Says /\ TypeOK
  BY DEF IInv, TypeOK
<1>4. /\ response' \in ResponseType /\ response'.id = response.id
      /\ response'.call = response.call /\ response'.calls = response.calls
      /\ response'.actions = response.actions \/ response'.actions = << Launch >>
  <2>1. response \in ResponseType
    BY <1>3 DEF Says
  <2>2. << Launch >> \in Seq(Actions)
    BY LaunchFacts
  <2> QED
    BY <1>2, <2>1, <2>2 DEF ResponseType
<1>5. Says'
  BY <1>1, <1>3, <1>4 DEF Says, Underway
<1>6. AdapterTypeOK'
  BY <1>1, <1>3, <1>4 DEF AdapterTypeOK, ResponseType
<1>7. step \in Nat /\ step' \in 0 .. MaxSteps /\ step' > 0
  BY <1>1, <1>3, TurnAssumption DEF TypeOK
<1>8. results = << >> /\ Len(response'.actions) \in Nat
  <2>1. Len(response'.actions) \in Nat
    BY <1>6, LenProperties DEF AdapterTypeOK
  <2> QED
    BY <1>1, <2>1 DEF IInv, Noting
<1>9. SandboxTypeOK' /\ Queued' /\ Pressed'
  BY <1>1, <1>3 DEF IInv, SandboxTypeOK, Queued, RanInOrder, Pressed
<1>10. TypeOK'
  BY <1>1, <1>3, <1>6, <1>7, <1>8, <1>9 DEF TypeOK, Locations
<1>11. Answering' /\ Remembers'
  BY <1>1 DEF IInv, Answering, Underway, Remembers, Latest
<1>12. Waits' /\ Seen' /\ PictureFresh'
  BY <1>1 DEF IInv, Waits, Seen, PictureFresh
<1>13. Steps'
  BY <1>1, <1>7 DEF IInv, Steps, Underway
<1>14. Noting' /\ DoneInOrder'
  BY <1>1, <1>8 DEF IInv, Noting, DoneInOrder, RanInOrder
<1>15. Width # 1 /\ Inside => Inside'
  <2>1. CASE response' = response
    BY <1>1, <2>1 DEF Inside
  <2>2. CASE response'.actions = << Launch >>
    <3>1. Width # 1 => \A i \in DOMAIN << Launch >> : WithinDisplay(<< Launch >>[i])
      BY LaunchFacts
    <3> QED
      BY <2>2, <3>1 DEF Inside
  <2>3. CASE response'.actions = response.actions
    BY <1>1, <2>3 DEF Inside
  <2> QED
    BY <1>4, <2>2, <2>3
<1> QED
  BY <1>5, <1>9, <1>10, <1>11, <1>12, <1>13, <1>14, <1>15 DEF IInv

\* Every step of run_agent_loop keeps the inductive invariant.
LEMMA LoopStep ==
  ASSUME IInv, Loop
  PROVE  IInv' /\ (Width # 1 /\ Inside => Inside')
<1> DEFINE Same == UNCHANGED << asked, response >>
<1>1. Same /\ Inside => Inside'
  BY DEF Inside
<1>2. SandboxTypeOK /\ Queued /\ TypeOK
  BY DEF IInv, TypeOK
<1>3. CASE AskForLatest
  <2>1. Same
    BY <1>3 DEF AskForLatest, adapter
  <2> QED
    BY <1>1, <1>3, <2>1, NoActionType, PostStep DEF AskForLatest, Go
<1>4. CASE AskForShot
  <2>1. Same
    BY <1>4 DEF AskForShot, adapter
  <2> QED
    BY <1>1, <1>4, <2>1, NoActionType, PostStep DEF AskForShot, Go
<1>5. CASE StepCaptures
  <2>1. Same
    BY <1>5 DEF StepCaptures, adapter
  <2> QED
    BY <1>1, <1>5, <2>1, NoActionType, PostStep DEF StepCaptures, Go
<1>6. CASE ActionStarts
  <2>1. Same
    BY <1>6 DEF ActionStarts, adapter
  <2>2. NextAction \in Actions
    BY <1>2, <1>6, NextActionType DEF ActionStarts
  <2> QED
    BY <1>1, <1>6, <2>1, <2>2, PostStep DEF ActionStarts, Execute, Go
<1>7. CASE AskModel
  BY <1>7, AskModelStep
<1>8. CASE TellModel
  BY <1>8, TellModelStep
<1>9. CASE PictureFails \/ ModelFails \/ Completed \/ Stopped
  <2>1. End /\ UNCHANGED << sandbox, adapter >>
    BY <1>9 DEF PictureFails, ModelFails, Completed, Stopped
  <2>2. pc # "asking" \/ call \in {"failed", "answered"}
    BY <1>9 DEF PictureFails, ModelFails, Completed, Stopped
  <2>3. ~Underway
    BY <2>2 DEF IInv, Steps, Underway
  <2>4. Same
    BY <2>1 DEF adapter
  <2> QED
    BY <1>1, <2>1, <2>3, <2>4, EndStep
<1>10. CASE CallTool
  BY <1>10, CallToolStep
<1>11. ASSUME pc = "acting"  PROVE waiting = << >>
  BY <1>11 DEF IInv, Waits
<1>12. CASE ActionOutside
  <2>1. /\ pc = "acting" /\ ActionsLeft /\ Note(0, "error")
        /\ UNCHANGED << pc, step, picture, transcript, adapter >>
        /\ UNCHANGED << posted, waiting, queue, phase, desktop >>
        /\ answer' \in Answers
    BY <1>12 DEF ActionOutside, RefuseOutside, Answers, Codes, Pictures, NoPicture
  <2> QED
    BY <1>1, <1>11, <2>1, NoteStep
<1>13. CASE PanelRefused
  <2>1. /\ pc = "acting" /\ ActionsLeft /\ Note(0, "error")
        /\ UNCHANGED << pc, step, picture, transcript, adapter >>
        /\ UNCHANGED << posted, waiting, answer, queue, phase, desktop >>
    BY <1>13 DEF PanelRefused, sandbox, backend
  <2>2. answer' \in Answers
    BY <1>2, <2>1 DEF SandboxTypeOK
  <2> QED
    BY <1>1, <1>11, <2>1, <2>2, NoteStep
<1>14. CASE ActionEnds
  <2>1. /\ pc = "executing" /\ answer.status # "none" /\ Note(posted, answer.status) /\ pc' = "acting"
        /\ UNCHANGED << step, picture, transcript, adapter >>
        /\ UNCHANGED << posted, waiting, answer, queue, phase, desktop >>
    BY <1>14 DEF ActionEnds, Go, sandbox, backend
  <2>2. waiting = << >>
    BY <1>2, <2>1 DEF Queued
  <2>3. answer' \in Answers /\ answer.status \in {"ok", "error"} /\ posted \in Nat
    BY <1>2, <2>1 DEF SandboxTypeOK, Answers
  <2> QED
    BY <1>1, <2>1, <2>2, <2>3, NoteStep
<1> QED
  BY <1>3, <1>4, <1>5, <1>6, <1>7, <1>8, <1>9, <1>10, <1>12, <1>13, <1>14 DEF Loop

\* Every step of the system keeps the inductive invariant.
LEMMA Steady == IInv /\ [Next]_vars => IInv' /\ (Width # 1 /\ Inside => Inside')
<1> SUFFICES ASSUME IInv, [Next]_vars
             PROVE  IInv' /\ (Width # 1 /\ Inside => Inside')
  OBVIOUS
<1>1. CASE Loop
  BY <1>1, LoopStep
<1>2. CASE GiveUp /\ UNCHANGED << adapter, turn >>
  BY <1>2, DesktopStep DEF adapter, Inside
<1>3. CASE Adapter /\ UNCHANGED << sandbox, turn >>
  BY <1>3, AdapterStep
<1>4. CASE Outside
  BY <1>4, DesktopStep DEF Outside, adapter, Inside
<1>5. CASE UNCHANGED vars
  <2>1. UNCHANGED << adapter, turn, sandbox >>
    BY <1>5 DEF vars
  <2> QED
    BY <2>1 DEF IInv, Inside, adapter, turn, sandbox, backend, desktop, TypeOK, SandboxTypeOK,
                AdapterTypeOK, Queued, RanInOrder, Pressed, Says, Answering, Underway, Remembers,
                Latest, Waits, Steps, Noting, DoneInOrder, Seen, NothingQueued, PictureFresh
<1> QED
  BY <1>1, <1>2, <1>3, <1>4, <1>5 DEF Next, Backend

\* The inductive invariant holds in every reachable state.
LEMMA Invariant == Spec => []IInv
BY Starts, Steady, PTL DEF Spec

\* Every variable of a task's turns, its adapter and its sandbox has its type: the
\* lists normalize_actions returns are lists of validated actions, the history is
\* within its window, and a request is posted at most twice.
THEOREM TypeCorrect == Spec => []TypeOK
<1>1. IInv => TypeOK
  BY DEF IInv
<1> QED
  BY <1>1, Invariant, PTL

\* The finally block of do_drag: whatever the script and the timeouts do, no action
\* ends with the left button down, but where xdotool itself hung or failed.
THEOREM ButtonIsLetGo == Spec => []ButtonReleased
<1>1. IInv => ButtonReleased
  BY DEF IInv, Pressed, ButtonReleased
<1> QED
  BY <1>1, Invariant, PTL

\* execute() reports an action as done only when its script ended well, each
\* script runs at most once and in the order the actions were asked for, whatever timed
\* out before: the controller's queue keeps the order of the posts.
THEOREM DoneAsReported == Spec => []DoneInOrder
<1>1. IInv => DoneInOrder
  BY DEF IInv
<1> QED
  BY <1>1, Invariant, PTL

\* The screenshot that run_agent_loop passes on with the results of a step is
\* taken after every action of the task has ended, also after those the executor gave
\* up on: it comes through the same queue.
THEOREM PictureShowsResults == Spec => []PictureFresh
<1>1. IInv => PictureFresh
  BY DEF IInv
<1> QED
  BY <1>1, Invariant, PTL

\* Each adapter continues where the conversation stands: the id and the call of the
\* last response with the results of this step, or the latest part of all there was to
\* say (continue_after_actions and the deque of the stateless adapter).
THEOREM ConversationGoesOn == Spec => []RequestsContinue
<1>1. IInv => RequestsContinue
  <2> SUFFICES ASSUME IInv, pc = "asking", Underway
               PROVE  IF mode = "manual" THEN request.input = Latest(transcript)
                      ELSE /\ request.previous = answers
                           /\ step > 0 => /\ request.call = response.calls
                                          /\ \A i \in DOMAIN request.input : request.input[i].step = step
                                          /\ request.input[1].role = "tool"
    BY DEF RequestsContinue, Underway, Latest
  <2> QED
    BY DEF IInv, Says, Answering, Remembers
<1> QED
  BY <1>1, Invariant, PTL

\* ACTION_OUT_OF_BOUNDS answers only places off the display that the model itself
\* asked for: normalize_actions and the launcher assist never make one.  A display of
\* one column, which the settings allow, is left out: there the assist's click is off it.
THEOREM OutsideWasAskedFor == ASSUME Width # 1  PROVE Spec => []OnlyOutsideRefused
<1>1. Init => Inside
  BY DEF Init, AdapterInit, NoResponse, Inside
<1>2. Inside /\ IInv /\ [Next]_vars => Inside'
  BY Steady
<1>3. Inside => OnlyOutsideRefused
  BY DEF Inside, OnlyOutsideRefused
<1> QED
  BY <1>1, <1>2, <1>3, Invariant, PTL DEF Spec

\* What the loop is about to do stays what the model asked for.
LEMMA MeaningStep == IInv /\ MeaningKept /\ [Next]_vars => MeaningKept'
<1> SUFFICES ASSUME IInv, MeaningKept, [Next]_vars,
                    pc' = "asking", call' = "answered", mode' # "mock"
             PROVE  KeepsMeaning(asked', response'.actions)
  BY DEF MeaningKept
<1>1. CASE UNCHANGED << pc, call, mode, asked, response >>
  BY <1>1 DEF MeaningKept
<1>2. CASE Loop
  <2>1. AskModel \/ TellModel
    BY <1>2 DEF Loop, AskForLatest, AskForShot, PictureFails, ModelFails, Completed, CallTool,
                Stopped, ActionStarts, ActionOutside, PanelRefused, ActionEnds, StepCaptures,
                Go, End
  <2>2. CASE CreateInitial
    BY <2>2 DEF CreateInitial, Send
  <2>3. CASE \E first \in BOOLEAN : MockAnswers(first)
    BY <2>3 DEF MockAnswers
  <2>4. CASE \E changed \in BOOLEAN : Continue(step, Failed, changed)
    BY <2>4 DEF Continue, ContinueFunction, ContinueOpenAI, ContinueManual, ContinueWithoutCall,
                Send
  <2> QED
    BY <2>1, <2>2, <2>3, <2>4 DEF AskModel, TellModel
<1>3. CASE GiveUp /\ UNCHANGED << adapter, turn >>
  BY <1>1, <1>3 DEF adapter, turn
<1>4. CASE Adapter /\ UNCHANGED << sandbox, turn >>
  <2>1. Answered
    BY <1>4 DEF Adapter, PostResponses, Retry, PostFails, AnswerInvalid
  <2>2. AdapterTypeOK /\ Says /\ call = "posted" /\ step \in Nat
    BY <2>1, TurnAssumption DEF IInv, TypeOK, Answered
  <2>3. answers + 1 \in 1 .. MaxSteps + 1
    <3>1. step \in 0 .. MaxSteps /\ MaxSteps \in Nat /\ pc = "asking"
      BY <2>2, TurnAssumption DEF IInv, TypeOK, Steps, Underway
    <3> QED
      BY <2>2, <3>1 DEF IInv, Steps
  <2> QED
    BY <2>1, <2>2, <2>3, AnsweredKeeps
<1>5. CASE Outside
  BY <1>1, <1>5 DEF Outside, adapter, turn
<1>6. CASE UNCHANGED vars
  BY <1>1, <1>6 DEF vars, adapter, turn
<1> QED
  BY <1>2, <1>3, <1>4, <1>5, <1>6 DEF Next, Backend

\* normalize_actions: the actions the loop gets with a response are what the model asked
\* for in it, but for repetitions, for every list of actions it may answer with.
THEOREM AskedIsMeant == Spec => []MeaningKept
<1>1. Init => MeaningKept
  BY DEF Init, MeaningKept
<1> QED
  BY <1>1, MeaningStep, Invariant, PTL DEF Spec

----------------------------------------------------------------------------
\* ModelTurn implements TaskSteps.

\* The picture after a step is asked for when every action was dealt with.
AllNoted == (pc = "shot" /\ step > 0) => Len(results) = Len(response.actions)

\* Where the loop is in TaskSteps.
Staged ==
  /\ pc \in {"starting", "latest"} \/ (pc = "shot" /\ step = 0)
       => Stage = "looking" /\ StepsDone = 0 /\ Undone = 0
  /\ pc = "asking" => Stage = "asking" /\ StepsDone = step /\ Undone = 0
  /\ pc \in {"acting", "executing"} \/ (pc = "shot" /\ step # 0)
       => /\ Stage = "acting" /\ StepsDone = step - 1
          /\ Undone = Len(response.actions) - Len(results)
  /\ pc = "ended" => Stage = "over" /\ StepsDone = 0 /\ Undone = 0

LEMMA Stages == Staged /\ Staged'
BY DEF Staged, Stage, StepsDone, Undone

\* What the sandbox, the server and the adapter do while the loop waits leaves the list of
\* actions in hand alone.
LEMMA OthersStay ==
  ASSUME IInv, UNCHANGED turn,
         UNCHANGED adapter \/ Adapter
  PROVE  UNCHANGED << Stage, StepsDone, Undone >> /\ (AllNoted => AllNoted')
<1>1. UNCHANGED << pc, step, results >>
  BY DEF turn
<1>2. pc = "asking" \/ UNCHANGED response
  <2>1. CASE UNCHANGED adapter
    BY <2>1 DEF adapter
  <2>2. CASE Adapter
    <3>1. Underway
      BY <2>2 DEF Adapter, PostResponses, Retry, PostFails, Answered, AnswerInvalid, Underway
    <3> QED
      BY <3>1 DEF IInv, Steps
  <2> QED
    BY <2>1, <2>2
<1>3. CASE pc = "asking"
  BY <1>1, <1>3, Stages DEF Staged, AllNoted
<1>4. CASE UNCHANGED response
  BY <1>1, <1>4 DEF Stage, StepsDone, Undone, AllNoted
<1> QED
  BY <1>2, <1>3, <1>4

\* Every step of the loop is one of TaskSteps, or none of them.
LEMMA CycleLoop ==
  ASSUME IInv, AllNoted, Loop
  PROVE  AllNoted' /\ [Cycle!Next]_<< Stage, StepsDone, Undone >>
<1>1. /\ step \in Nat /\ MaxSteps \in Nat /\ pc \in Locations
      /\ Len(results) \in Nat /\ Len(response.actions) \in Nat
      /\ response.actions = << >> <=> Len(response.actions) = 0
      /\ pc \in {"acting", "executing"} => Len(results) <= Len(response.actions)
      /\ pc \in {"starting", "latest"} => step = 0
      /\ pc \in {"acting", "executing"} => step > 0
      /\ pc = "asking" => results = << >>
      /\ pc = "executing" => Len(results) < Len(response.actions)
  <2>1. TypeOK /\ Steps /\ Noting
    BY DEF IInv
  <2>2. response.actions \in Seq(Actions)
    BY <2>1 DEF TypeOK, AdapterTypeOK
  <2> QED
    BY <2>1, <2>2, ResultsType, TurnAssumption DEF TypeOK, Steps, Noting
<1>2. CASE AskForLatest
  <2>1. pc = "starting" /\ pc' = "latest"
    BY <1>2 DEF AskForLatest, Go
  <2> QED
    BY <2>1, Stages DEF Staged, AllNoted
<1>3. CASE AskForShot
  <2>1. pc = "latest" /\ pc' = "shot" /\ step' = 0
    BY <1>1, <1>3 DEF AskForShot, Go
  <2> QED
    BY <2>1, Stages DEF Staged, AllNoted
<1>4. CASE AskModel
  <2>1. pc \in {"latest", "shot"} /\ pc' = "asking" /\ step = 0 /\ step' = 0
    BY <1>4 DEF AskModel, Pictured, Go
  <2>2. Stage = "looking" /\ Stage' = "asking" /\ UNCHANGED << StepsDone, Undone >>
    BY <2>1, Stages DEF Staged
  <2> QED
    BY <2>1, <2>2 DEF AllNoted, Cycle!Next, Cycle!Show
<1>5. CASE TellModel
  <2>1. pc = "shot" /\ pc' = "asking" /\ step > 0 /\ step' = step
    BY <1>1, <1>5 DEF TellModel, Pictured, Go
  <2>2. /\ Stage = "acting" /\ Stage' = "asking"
        /\ StepsDone = step - 1 /\ StepsDone' = step /\ Undone = 0 /\ Undone' = 0
    BY <1>1, <2>1, Stages DEF Staged, AllNoted
  <2> QED
    BY <1>1, <2>1, <2>2 DEF AllNoted, Cycle!Next, Cycle!ShowOutcome
<1>6. CASE PictureFails \/ ModelFails \/ Completed \/ Stopped
  <2>1. pc # "ended" /\ pc' = "ended"
    BY <1>6 DEF PictureFails, ModelFails, Completed, Stopped, End, Go
  <2>2. Stage # "over" /\ Stage' = "over" /\ StepsDone' = 0 /\ Undone' = 0
    BY <1>1, <2>1, Stages DEF Staged, Locations
  <2> QED
    BY <2>1, <2>2 DEF AllNoted, Cycle!Next, Cycle!End
<1>7. CASE CallTool
  <2>1. /\ pc = "asking" /\ pc' = "acting" /\ step < MaxSteps /\ step' = step + 1
        /\ results' = << >> /\ response.actions # << >>
    BY <1>1, <1>7 DEF CallTool, Go
  <2>2. Len(response'.actions) \in Nat \ {0}
    <3>1. CASE UNCHANGED response
      BY <1>1, <2>1, <3>1
    <3>2. CASE response' = [response EXCEPT !.actions = << Launch >>]
      <4>1. response'.actions = << Launch >>
        BY <3>2 DEF IInv, TypeOK, AdapterTypeOK, ResponseType
      <4> QED
        BY <4>1
    <3> QED
      BY <1>7, <3>1, <3>2 DEF CallTool
  <2>3. /\ Stage = "asking" /\ StepsDone = step
        /\ Stage' = "acting" /\ StepsDone' = step /\ Undone' \in Nat \ {0}
    BY <1>1, <2>1, <2>2, Stages DEF Staged
  <2> QED
    BY <2>1, <2>3 DEF AllNoted, Cycle!Next, Cycle!Take
<1>8. CASE ActionStarts
  <2>1. pc = "acting" /\ pc' = "executing" /\ UNCHANGED << step, results, response >>
    BY <1>8 DEF ActionStarts, Go, adapter
  <2> QED
    BY <2>1, Stages DEF Staged, AllNoted
<1>9. CASE ActionOutside \/ PanelRefused \/ ActionEnds
  <2>1. /\ pc \in {"acting", "executing"} /\ pc' = "acting" /\ Len(results) < Len(response.actions)
        /\ UNCHANGED << step, response >>
    BY <1>1, <1>9 DEF ActionOutside, PanelRefused, ActionEnds, ActionsLeft, Go, adapter
  <2>2. Len(results') = Len(results) + 1
    <3>1. PICK r : results' = Append(results, r)
      BY <1>9 DEF ActionOutside, PanelRefused, ActionEnds, Note
    <3>2. results \in Seq(Results)
      BY DEF IInv, TypeOK
    <3> HIDE DEF Results
    <3> QED
      BY <3>1, <3>2
  <2>3. Stage = "acting" /\ Stage' = "acting" /\ StepsDone' = StepsDone /\ Undone > 0 /\ Undone' = Undone - 1
    BY <1>1, <2>1, <2>2, Stages DEF Staged
  <2> QED
    BY <2>1, <2>3 DEF AllNoted, Cycle!Next, Cycle!DealWith
<1>10. CASE StepCaptures
  <2>1. pc = "acting" /\ pc' = "shot" /\ ~ActionsLeft /\ UNCHANGED << step, results, response >>
    BY <1>10 DEF StepCaptures, Go, adapter
  <2>2. AllNoted'
    BY <1>1, <2>1 DEF ActionsLeft, AllNoted
  <2> QED
    BY <1>1, <2>1, <2>2, Stages DEF Staged
<1> QED
  BY <1>2, <1>3, <1>4, <1>5, <1>6, <1>7, <1>8, <1>9, <1>10 DEF Loop

\* The same for every step of the system.
LEMMA CycleStep ==
  ASSUME IInv, AllNoted, [Next]_vars
  PROVE  AllNoted' /\ [Cycle!Next]_<< Stage, StepsDone, Undone >>
<1>1. CASE Loop
  BY <1>1, CycleLoop
<1>2. CASE Adapter /\ UNCHANGED << sandbox, turn >>
  BY <1>2, OthersStay
<1>3. CASE (GiveUp /\ UNCHANGED << adapter, turn >>) \/ Outside \/ UNCHANGED vars
  BY <1>3, OthersStay DEF Outside, vars
<1> QED
  BY <1>1, <1>2, <1>3 DEF Next, Backend

\* The loop deals with all actions of a response before the next one takes its place,
\* whatever times out or fails, and acts on no more than MaxSteps responses.
THEOREM ImplementsTaskSteps == Spec => StepByStep
<1>1. Init => Cycle!Init /\ AllNoted
  BY DEF Init, Cycle!Init, Stage, StepsDone, Undone, AllNoted
<1>2. IInv /\ AllNoted /\ [Next]_vars => AllNoted' /\ [Cycle!Next]_<< Stage, StepsDone, Undone >>
  BY CycleStep
<1> QED
  BY <1>1, <1>2, Invariant, PTL DEF Spec, StepByStep, Cycle!Spec
===============================================================================
