------------------------- MODULE SandboxActionsProofs -------------------------
(***************************************************************************)
(* Lemmas about the way of an action to the desktop: each step keeps the   *)
(* types, and Queued, the account of what the queue of the controller holds, *)
(* what ran, and what the backend waits for.  ModelTurn says who posts what; *)
(* its theorems are in ModelTurnProofs.                                    *)
(***************************************************************************)
EXTENDS SandboxActions, SequenceTheorems, TLAPS

\* What the queue, the scripts that ended, and the request waited for have to do
\* with each other.
Queued ==
  /\ \A i \in DOMAIN queue :
       queue[i].id <= posted /\ (queue[i].what = "action" => queue[i].id > 0)
  /\ \A i, j \in DOMAIN queue :
       i < j /\ queue[j].what = "action" => queue[i].id < queue[j].id
  /\ \A k \in DOMAIN ran :
       /\ ran[k].id <= posted
       /\ \A i \in DOMAIN queue : queue[i].what = "action" => ran[k].id < queue[i].id
  /\ RanInOrder
  /\ waiting # << >> => waiting[1].id = posted /\ answer.status = "none"

\* The first request is gone from the queue, with its answer where it is waited for;
\* if it was an action, its script may have ended.
Served ==
  /\ queue # << >> /\ queue' = Tail(queue) /\ phase' = "idle" /\ posted' = posted
  /\ \/ waiting = << Head(queue) >> /\ waiting' = << >> /\ answer' \in Answers /\ answer'.status # "none"
     \/ waiting # << Head(queue) >> /\ waiting' = waiting /\ answer' = answer
  /\ \/ /\ ran' = ran
        /\ (waiting = << Head(queue) >> /\ answer'.status = "ok") =>
             /\ Head(queue).what # "action"
             /\ Head(queue).what = "shot" => answer'.picture = Len(ran)
     \/ /\ Head(queue).what = "action"
        /\ \E ok \in BOOLEAN :
             /\ ran' = Append(ran, [id |-> Head(queue).id, ok |-> ok])
             /\ (waiting = << Head(queue) >> /\ answer'.status = "ok") => ok
  /\ alive' \in BOOLEAN /\ held' \in BOOLEAN /\ jammed' \in BOOLEAN /\ file' \in Pictures

\* The first request goes on, or the container goes.
Begun ==
  /\ UNCHANGED << backend, queue, ran, file, jammed >>
  /\ \/ phase' = phase
     \/ phase' \in {"script", "dragging"} /\ queue # << >> /\ Head(queue).what = "action"
  /\ alive' \in BOOLEAN /\ held' \in BOOLEAN

\* A step of the controller, of the script or of the cleanup answers the first
\* request, or lets it go on, or removes the container.
LEMMA Handled ==
  ASSUME SandboxTypeOK, Controller \/ DeleteSandbox
  PROVE  Served \/ Begun
<1> USE DEF backend, desktop, Answers, Codes, Pictures, NoPicture
<1>1. /\ Len(ran) \in Nat /\ alive \in BOOLEAN /\ held \in BOOLEAN /\ jammed \in BOOLEAN
      /\ file \in Pictures
  BY DEF SandboxTypeOK
<1>2. phase # "idle" => queue # << >> /\ Head(queue).what = "action"
  BY DEF SandboxTypeOK
<1>3. ASSUME NEW ok \in BOOLEAN, Report(ok), phase # "idle",
             alive' \in BOOLEAN, held' \in BOOLEAN, jammed' \in BOOLEAN, file' \in Pictures
      PROVE  Served
  BY <1>2, <1>3 DEF Report, Reply, Served
<1>4. CASE Drop
  BY <1>1, <1>4 DEF Drop, Served
<1>5. CASE DockerFails
  BY <1>1, <1>5 DEF DockerFails, Reply, Served
<1>6. CASE ReadLatest
  BY <1>1, <1>6 DEF ReadLatest, AtHead, Reply, Served
<1>7. CASE Capture
  BY <1>1, <1>7 DEF Capture, AtHead, Reply, Served
<1>8. CASE ActionNotFound
  BY <1>1, <1>8 DEF ActionNotFound, AtHead, Reply, Served
<1>9. CASE ScriptStarts \/ DragPresses \/ DeleteSandbox
  BY <1>1, <1>2, <1>9 DEF ScriptStarts, DragPresses, DeleteSandbox, AtHead, Begun
<1>10. CASE ScriptSucceeds
  <2>1. held' \in BOOLEAN /\ file' \in Pictures /\ alive' \in BOOLEAN /\ jammed' \in BOOLEAN
    BY <1>1, <1>10 DEF ScriptSucceeds, PressesLeft, LeftClick
  <2> QED
    BY <1>3, <1>10, <2>1 DEF ScriptSucceeds
<1>11. CASE ScriptFails \/ DragPressHangs \/ DragSticks
  BY <1>1, <1>3, <1>11 DEF ScriptFails, DragPressHangs, DragSticks
<1>12. CASE ScriptRefuses
  <2>1. \E ok \in BOOLEAN : ran' = Append(ran, [id |-> Head(queue).id, ok |-> ok]) /\ ~ok
    BY <1>12 DEF ScriptRefuses
  <2>2. /\ posted' = posted /\ queue' = Tail(queue) /\ phase' = "idle" /\ phase # "idle"
        /\ UNCHANGED << alive, held, jammed, file >>
    BY <1>12 DEF ScriptRefuses, Reply
  <2>3. \/ waiting = << Head(queue) >> /\ waiting' = << >> /\ answer' \in Answers
           /\ answer'.status # "none" /\ answer'.status # "ok"
        \/ waiting # << Head(queue) >> /\ waiting' = waiting /\ answer' = answer
    BY <1>12 DEF ScriptRefuses, Reply
  <2> QED
    BY <1>1, <1>2, <2>1, <2>2, <2>3 DEF Served
<1>13. CASE DragReleases
  BY <1>1, <1>3, <1>13 DEF DragReleases
<1> QED
  BY <1>4, <1>5, <1>6, <1>7, <1>8, <1>9, <1>10, <1>11, <1>12, <1>13 DEF Controller

\* What is left of a queue when its first member is gone.
LEMMA TailFacts ==
  ASSUME NEW S, NEW q \in Seq(S), q # << >>
  PROVE  /\ Len(q) \in Nat \ {0} /\ DOMAIN q = 1 .. Len(q)
         /\ Head(q) = q[1] /\ Head(q) \in S
         /\ Tail(q) \in Seq(S) /\ Len(Tail(q)) = Len(q) - 1 /\ DOMAIN Tail(q) = 1 .. (Len(q) - 1)
         /\ \A i \in 1 .. (Len(q) - 1) : Tail(q)[i] = q[i + 1] /\ i + 1 \in DOMAIN q
BY HeadTailProperties, EmptySeq, LenProperties

Scripts == [id : Nat \ {0}, ok : BOOLEAN]

\* What is in a list after Append.
LEMMA AppendFacts ==
  ASSUME NEW S, NEW q \in Seq(S), NEW e \in S
  PROVE  /\ Len(q) \in Nat /\ DOMAIN q = 1 .. Len(q)
         /\ Append(q, e) \in Seq(S) /\ DOMAIN Append(q, e) = 1 .. (Len(q) + 1)
         /\ \A i \in 1 .. Len(q) : Append(q, e)[i] = q[i]
         /\ Append(q, e)[Len(q) + 1] = e
BY AppendProperties, LenProperties

\* Answering the first request keeps the types.
LEMMA ServedTyped ==
  ASSUME SandboxTypeOK, Queued, Served
  PROVE  SandboxTypeOK'
<1>1. queue # << >> /\ queue \in Seq(Requests) /\ queue' = Tail(queue)
  BY DEF SandboxTypeOK, Served
<1>2. PICK n \in Nat \ {0} : n = Len(queue)
  BY <1>1, TailFacts
<1>3. /\ DOMAIN queue = 1 .. n /\ Head(queue) = queue[1] /\ Head(queue) \in Requests
      /\ queue' \in Seq(Requests) /\ DOMAIN queue' = 1 .. (n - 1)
      /\ \A i \in 1 .. (n - 1) : queue'[i] = queue[i + 1]
  BY <1>1, <1>2, TailFacts
<1>4. waiting' \in {<< >>} \cup { << queue'[i] >> : i \in DOMAIN queue' }
  <2>1. CASE waiting = << Head(queue) >>
    BY <2>1 DEF Served
  <2>2. CASE waiting # << Head(queue) >> /\ waiting # << >>
    <3>1. PICK i \in 1 .. n : waiting = << queue[i] >>
      BY <1>3, <2>2 DEF SandboxTypeOK
    <3>2. i # 1 /\ i - 1 \in 1 .. (n - 1)
      BY <1>3, <2>2, <3>1
    <3>3. queue'[i - 1] = queue[i]
      BY <1>3, <3>2
    <3>4. waiting' = << queue'[i - 1] >>
      BY <2>2, <3>1, <3>3 DEF Served
    <3> QED
      BY <1>3, <3>2, <3>4
  <2>3. CASE waiting = << >>
    BY <2>3, <2>2 DEF Served
  <2> QED
    BY <2>1, <2>2, <2>3
<1>5. ran' \in Seq(Scripts)
  <2>1. ran \in Seq(Scripts)
    BY DEF SandboxTypeOK, Scripts
  <2>2. ASSUME NEW ok \in BOOLEAN, Head(queue).what = "action",
               ran' = Append(ran, [id |-> Head(queue).id, ok |-> ok])
        PROVE  ran' \in Seq(Scripts)
    <3>1. Head(queue).id \in Nat \ {0}
      BY <1>3, <2>2 DEF Queued, Requests
    <3>2. [id |-> Head(queue).id, ok |-> ok] \in Scripts
      BY <3>1 DEF Scripts
    <3> QED
      BY <2>1, <2>2, <3>2, AppendFacts
  <2> QED
    BY <2>1, <2>2 DEF Served
<1>6. answer' \in Answers /\ posted' \in Nat /\ phase' = "idle"
  BY DEF Served, SandboxTypeOK
<1>7. alive' \in BOOLEAN /\ held' \in BOOLEAN /\ jammed' \in BOOLEAN /\ file' \in Pictures
  BY DEF Served
<1> QED
  BY <1>3, <1>4, <1>5, <1>6, <1>7 DEF SandboxTypeOK, Scripts

\* Answering the first request keeps the order of what is queued and what ran.
LEMMA ServedQueued ==
  ASSUME SandboxTypeOK, Queued, Served
  PROVE  Queued'
<1>1. queue # << >> /\ queue \in Seq(Requests) /\ queue' = Tail(queue)
  BY DEF SandboxTypeOK, Served
<1>2. PICK n \in Nat \ {0} : n = Len(queue)
  BY <1>1, TailFacts
<1>3. /\ DOMAIN queue = 1 .. n /\ Head(queue) = queue[1]
      /\ DOMAIN queue' = 1 .. (n - 1)
      /\ \A i \in 1 .. (n - 1) : queue'[i] = queue[i + 1] /\ i + 1 \in 1 .. n
  BY <1>1, <1>2, TailFacts
<1>4. \A i \in DOMAIN queue : queue[i].id \in Nat
  <2>1. \A i \in DOMAIN queue : queue[i] \in Requests
    BY <1>1
  <2> QED
    BY <2>1 DEF Requests
<1>5. posted' = posted /\ posted \in Nat
  BY DEF SandboxTypeOK, Served
<1>6. /\ \A i \in DOMAIN queue' :
           queue'[i].id <= posted' /\ (queue'[i].what = "action" => queue'[i].id > 0)
      /\ \A i, j \in DOMAIN queue' :
           i < j /\ queue'[j].what = "action" => queue'[i].id < queue'[j].id
  <2>1. ASSUME NEW i \in 1 .. (n - 1)
        PROVE  queue'[i].id <= posted' /\ (queue'[i].what = "action" => queue'[i].id > 0)
    BY <1>3, <1>5 DEF Queued
  <2>2. ASSUME NEW i \in 1 .. (n - 1), NEW j \in 1 .. (n - 1),
               i < j, queue'[j].what = "action"
        PROVE  queue'[i].id < queue'[j].id
    <3>1. i + 1 < j + 1 /\ i + 1 \in DOMAIN queue /\ j + 1 \in DOMAIN queue
      BY <1>3, <2>2
    <3>2. queue'[i] = queue[i + 1] /\ queue'[j] = queue[j + 1]
      BY <1>3
    <3> QED
      BY <2>2, <3>1, <3>2 DEF Queued
  <2> QED
    BY <1>3, <2>1, <2>2
<1>7. waiting' # << >> => waiting'[1].id = posted' /\ answer'.status = "none"
  BY <1>5 DEF Queued, Served
<1>8. CASE ran' = ran
  BY <1>3, <1>5, <1>6, <1>7, <1>8 DEF Queued, RanInOrder
<1>9. CASE Head(queue).what = "action" /\ \E ok \in BOOLEAN :
             ran' = Append(ran, [id |-> Head(queue).id, ok |-> ok])
  <2>1. PICK e \in Scripts : e.id = queue[1].id /\ ran' = Append(ran, e)
    <3>1. Head(queue).id \in Nat \ {0}
      BY <1>3, <1>4, <1>9 DEF Queued
    <3> QED
      BY <1>3, <1>9, <3>1 DEF Scripts
  <2>2. PICK m \in Nat : m = Len(ran)
    BY DEF SandboxTypeOK
  <2>3. /\ DOMAIN ran = 1 .. m /\ DOMAIN ran' = 1 .. (m + 1)
        /\ \A k \in 1 .. m : ran'[k] = ran[k]
        /\ ran'[m + 1] = e
    BY <2>1, <2>2, AppendFacts DEF SandboxTypeOK, Scripts
  <2>4. \A k \in 1 .. m : ran[k].id < queue[1].id /\ ran[k].id <= posted
    <3>1. 1 \in DOMAIN queue /\ queue[1].what = "action"
      BY <1>3, <1>9
    <3> QED
      BY <2>3, <3>1 DEF Queued
  <2>5. \A i \in 1 .. (n - 1) : queue'[i].what = "action" => queue[1].id < queue'[i].id
    BY <1>3 DEF Queued
  <2>6. ASSUME NEW k \in 1 .. (m + 1)
        PROVE  /\ ran'[k].id <= posted'
               /\ \A i \in DOMAIN queue' :
                    queue'[i].what = "action" => ran'[k].id < queue'[i].id
    <3>1. CASE k = m + 1
      BY <1>3, <1>5, <2>1, <2>3, <2>5, <3>1 DEF Queued
    <3>2. CASE k \in 1 .. m
      <4>1. ran'[k] = ran[k]
        BY <2>3, <3>2
      <4>2. ASSUME NEW i \in 1 .. (n - 1), queue'[i].what = "action"
            PROVE  ran[k].id < queue'[i].id
        <5>1. i + 1 \in DOMAIN queue /\ queue'[i] = queue[i + 1] /\ k \in DOMAIN ran
          BY <1>3, <2>3, <3>2
        <5> QED
          BY <4>2, <5>1 DEF Queued
      <4> QED
        BY <1>3, <1>5, <2>4, <3>2, <4>1, <4>2
    <3> QED
      BY <3>1, <3>2
  <2>7. RanInOrder'
    <3>1. ASSUME NEW i \in 1 .. (m + 1), NEW j \in 1 .. (m + 1), i < j
          PROVE  ran'[i].id < ran'[j].id
      <4>1. i \in 1 .. m /\ ran'[i] = ran[i]
        BY <2>3, <3>1
      <4>2. CASE j = m + 1
        BY <2>1, <2>3, <2>4, <4>1, <4>2
      <4>3. CASE j \in 1 .. m
        BY <2>3, <3>1, <4>1, <4>3 DEF Queued, RanInOrder
      <4> QED
        BY <4>2, <4>3
    <3> QED
      BY <2>3, <3>1 DEF RanInOrder
  <2> QED
    BY <1>6, <1>7, <2>3, <2>6, <2>7 DEF Queued
<1> QED
  BY <1>8, <1>9 DEF Served

\* A script that starts, a drag that presses and the removal of the container keep both.
LEMMA BegunKeeps ==
  ASSUME SandboxTypeOK, Queued, Begun
  PROVE  SandboxTypeOK' /\ Queued'
<1>1. /\ UNCHANGED << posted, waiting, answer, queue, ran, file, jammed >>
      /\ alive' \in BOOLEAN /\ held' \in BOOLEAN
  BY DEF Begun, backend
<1>2. phase' \in {"idle", "script", "dragging"}
      /\ (phase' # "idle" => queue # << >> /\ Head(queue).what = "action")
  BY DEF Begun, SandboxTypeOK
<1>3. Queued'
  BY <1>1 DEF Queued, RanInOrder
<1> QED
  BY <1>1, <1>2, <1>3 DEF SandboxTypeOK

\* A timeout of the backend keeps both.
LEMMA GiveUpKeeps ==
  ASSUME SandboxTypeOK, Queued, GiveUp
  PROVE  SandboxTypeOK' /\ Queued'
<1>1. /\ UNCHANGED << posted, queue, phase, alive, ran, held, jammed, file >>
      /\ waiting' = << >> /\ answer' \in Answers
  BY DEF GiveUp, desktop, Answers, Codes, Pictures, NoPicture
<1>2. Queued'
  BY <1>1 DEF Queued, RanInOrder
<1> QED
  BY <1>1, <1>2 DEF SandboxTypeOK

\* ACTION_OUT_OF_BOUNDS keeps both, as the backend waits for nothing then.
LEMMA RefuseKeeps ==
  ASSUME SandboxTypeOK, Queued, NEW a, RefuseOutside(a), waiting = << >>
  PROVE  SandboxTypeOK' /\ Queued'
<1>1. /\ UNCHANGED << posted, waiting, queue, phase, alive, ran, held, jammed, file >>
      /\ answer' \in Answers
  BY DEF RefuseOutside, desktop, Answers, Codes, Pictures, NoPicture
<1>2. Queued'
  BY <1>1 DEF Queued, RanInOrder
<1> QED
  BY <1>1, <1>2 DEF SandboxTypeOK

\* A request joins the end of the queue; the backend waits for it.
LEMMA PostKeeps ==
  ASSUME SandboxTypeOK, Queued, NEW what \in {"action", "latest", "shot"},
         NEW a \in Actions, Post(what, a)
  PROVE  /\ SandboxTypeOK' /\ Queued'
         /\ waiting' # << >> /\ waiting'[1].what = what /\ waiting'[1].id = posted'
         /\ answer' = NoAnswer /\ ran' = ran
         /\ posted' = IF what = "action" THEN posted + 1 ELSE posted
<1>1. PICK e \in Requests : /\ e.id = posted' /\ e.what = what
                           /\ waiting' = << e >> /\ queue' = Append(queue, e)
  <2> DEFINE id == IF what = "action" THEN posted + 1 ELSE posted
             e == [id |-> id, what |-> what, action |-> a]
  <2>1. id \in Nat
    BY DEF SandboxTypeOK
  <2>2. posted' = id /\ waiting' = << e >> /\ queue' = Append(queue, e)
    BY DEF Post
  <2> HIDE DEF id
  <2>3. e \in Requests /\ e.id = id /\ e.what = what
    BY <2>1 DEF Requests
  <2> HIDE DEF e
  <2> QED
    BY <2>2, <2>3
<1>2. /\ posted' = IF what = "action" THEN posted + 1 ELSE posted
      /\ posted' \in Nat /\ posted \in Nat
      /\ answer' = NoAnswer
      /\ UNCHANGED << phase, alive, ran, held, jammed, file >>
  BY DEF Post, desktop, SandboxTypeOK
<1>3. NoAnswer \in Answers /\ NoAnswer.status = "none"
  BY DEF NoAnswer, Answers, Codes, Pictures, NoPicture
<1>4. PICK n \in Nat : n = Len(queue)
  BY DEF SandboxTypeOK
<1>5. /\ DOMAIN queue = 1 .. n /\ queue' \in Seq(Requests) /\ DOMAIN queue' = 1 .. (n + 1)
      /\ \A i \in 1 .. n : queue'[i] = queue[i]
      /\ queue'[n + 1] = e
  BY <1>1, <1>4, AppendFacts DEF SandboxTypeOK
<1>6. \A i \in 1 .. n : queue[i].id \in Nat
  <2>1. \A i \in 1 .. n : queue[i] \in Requests
    BY <1>5 DEF SandboxTypeOK
  <2> QED
    BY <2>1 DEF Requests
<1>7. \A k \in DOMAIN ran : ran[k].id \in Nat
  <2>1. ran \in Seq(Scripts)
    BY DEF SandboxTypeOK, Scripts
  <2>2. \A k \in DOMAIN ran : ran[k] \in Scripts
    BY <2>1
  <2> QED
    BY <2>2 DEF Scripts
<1>8. phase # "idle" => queue' # << >> /\ Head(queue').what = "action"
  <2>1. phase # "idle" => n >= 1 /\ queue[1].what = "action"
    BY <1>4, TailFacts DEF SandboxTypeOK
  <2>2. n >= 1 => queue' # << >> /\ Head(queue') = queue'[1] /\ queue'[1] = queue[1]
    BY <1>5
  <2> QED
    BY <2>1, <2>2
<1>9. waiting' \in { << queue'[i] >> : i \in DOMAIN queue' }
  BY <1>1, <1>5
<1>10. SandboxTypeOK'
  BY <1>2, <1>3, <1>5, <1>8, <1>9 DEF SandboxTypeOK
<1>11. Queued'
  <2>1. ASSUME NEW i \in 1 .. (n + 1)
        PROVE  queue'[i].id <= posted' /\ (queue'[i].what = "action" => queue'[i].id > 0)
    <3>1. CASE i = n + 1
      BY <1>1, <1>2, <1>5, <3>1
    <3>2. CASE i \in 1 .. n
      <4>1. queue'[i] = queue[i] /\ queue[i].id \in Nat
        BY <1>5, <1>6, <3>2
      <4> QED
        BY <1>2, <1>5, <3>2, <4>1 DEF Queued
    <3> QED
      BY <3>1, <3>2
  <2>2. ASSUME NEW i \in 1 .. (n + 1), NEW j \in 1 .. (n + 1), i < j, queue'[j].what = "action"
        PROVE  queue'[i].id < queue'[j].id
    <3>1. i \in 1 .. n /\ queue'[i] = queue[i] /\ queue[i].id \in Nat
      BY <1>5, <1>6, <2>2
    <3>2. queue[i].id <= posted
      BY <1>5, <3>1 DEF Queued
    <3>3. CASE j = n + 1
      BY <1>1, <1>2, <1>5, <2>2, <3>1, <3>2, <3>3
    <3>4. CASE j \in 1 .. n
      BY <1>5, <2>2, <3>1, <3>4 DEF Queued
    <3> QED
      BY <3>3, <3>4
  <2>3. ASSUME NEW k \in DOMAIN ran, NEW i \in 1 .. (n + 1), queue'[i].what = "action"
        PROVE  ran[k].id < queue'[i].id
    <3>1. ran[k].id <= posted /\ ran[k].id \in Nat
      BY <1>7 DEF Queued
    <3>2. CASE i = n + 1
      BY <1>1, <1>2, <1>5, <2>3, <3>1, <3>2
    <3>3. CASE i \in 1 .. n
      BY <1>5, <2>3, <3>3 DEF Queued
    <3> QED
      BY <3>2, <3>3
  <2>4. \A k \in DOMAIN ran : ran[k].id <= posted'
    <3>1. \A k \in DOMAIN ran : ran[k].id <= posted
      BY DEF Queued
    <3> QED
      BY <1>2, <1>7, <3>1
  <2>5. RanInOrder' /\ ran' = ran
    BY <1>2 DEF Queued, RanInOrder
  <2>6. waiting'[1].id = posted' /\ answer'.status = "none"
    BY <1>1, <1>2, <1>3
  <2> QED
    BY <1>5, <2>1, <2>2, <2>3, <2>4, <2>5, <2>6 DEF Queued
<1> QED
  BY <1>1, <1>2, <1>10, <1>11

\* A task starts with nothing queued and nothing run.
LEMMA SandboxStarts ==
  ASSUME SandboxInit
  PROVE  SandboxTypeOK /\ Queued
<1>1. NoAnswer \in Answers
  BY DEF NoAnswer, Answers, Codes, Pictures, NoPicture
<1>2. SandboxTypeOK
  <2>1. file \in Pictures
    BY DEF SandboxInit, Pictures, NoPicture, FromEarlierTask
  <2>2. queue \in Seq(Requests) /\ ran \in Seq(Scripts) /\ waiting = << >>
    BY DEF SandboxInit
  <2>3. /\ posted = 0 /\ answer = NoAnswer /\ phase = "idle"
        /\ alive = TRUE /\ held = FALSE /\ jammed = FALSE
    BY DEF SandboxInit
  <2> QED
    BY <1>1, <2>1, <2>2, <2>3 DEF SandboxTypeOK, Scripts
<1>3. Queued
  BY DEF SandboxInit, Queued, RanInOrder
<1> QED
  BY <1>2, <1>3

\* The button is down in the middle of a drag, and never after it but where xdotool
\* failed to press or to release it.
Pressed == held => jammed \/ phase = "dragging"

\* Each step of the controller and the script keeps the account of the button.
LEMMA PressedKept ==
  ASSUME SandboxTypeOK, Pressed, Controller
  PROVE  Pressed'
<1> USE DEF backend, desktop
<1>1. CASE Drop \/ DockerFails \/ ReadLatest \/ Capture \/ ActionNotFound \/ ScriptStarts
  BY <1>1 DEF Pressed, Drop, DockerFails, ReadLatest, Capture, ActionNotFound, ScriptStarts,
              AtHead, Reply
<1>2. CASE ScriptSucceeds \/ ScriptFails \/ ScriptRefuses
  <2>1. phase = "script" /\ (held' => held) /\ jammed' = jammed
    <3>1. CASE ScriptSucceeds
      BY <3>1 DEF ScriptSucceeds
    <3>2. CASE ScriptFails \/ ScriptRefuses
      <4>1. phase = "script" /\ held' = held /\ jammed' = jammed
        BY <3>2 DEF ScriptFails, ScriptRefuses
      <4> QED
        BY <4>1
    <3> QED
      BY <1>2, <3>1, <3>2
  <2> QED
    BY <2>1 DEF Pressed
<1>3. CASE DragPresses \/ DragPressHangs \/ DragReleases \/ DragSticks
  BY <1>3 DEF Pressed, DragPresses, DragPressHangs, DragReleases, DragSticks
<1> QED
  BY <1>1, <1>2, <1>3 DEF Controller
===============================================================================
