-------------------------- MODULE AgentLoopProofs --------------------------
(***************************************************************************)
(* Proofs about AgentLoop for any set of responses, any step limit and any *)
(* threshold.  The argument follows the program counter: what the loop has *)
(* in hand at each await, and what the counters of the stuck checks say    *)
(* about the steps already done.                                           *)
(***************************************************************************)
EXTENDS AgentLoop, SequenceTheorems, TLAPS

Before == {"starting", "capturing", "asking", "failed"}  \* the for loop
InHand == {"acting", "executing", "settling", "shooting"}  \* a step
Over == {"closing", "ended"}

\* The for loop runs range(1, max_agent_steps + 1), and both stuck checks
\* leave it as soon as their counter reaches the threshold.
StepsCounted ==
  /\ pc \in Before => step = 0
  /\ pc \in InHand \cup {"continuing"} => step \in 1 .. MaxSteps
  /\ pc = "deciding" => step > 0
  /\ pc \notin Over => repeats < Threshold /\ unchanged < Threshold

\* A label is published exactly with the last status, and nothing follows it but
\* the end of the coroutine; the adapter stays open until then.
EndsLast ==
  /\ pc \notin Over \cup {"failed"} => why = "none" /\ status \notin LastStatuses
  /\ pc = "failed" => why # "none"
  /\ pc = "closing" /\ aborts = 0 => why # "none"
  /\ pc # "ended" => adapter = "open"

\* A model call begun with the flag up is the last one: its answer is only looked
\* at by a step that sees the flag.
LateOnce ==
  late > 0 => /\ late = 1
              /\ interrupted
              /\ pc \in {"asking", "continuing", "deciding", "failed"} \cup Over

\* The results of a step belong to the first actions of the response, and to all
\* of them once the screen is looked at.
ResultsPair ==
  /\ pc \in InHand \cup {"continuing"} =>
       /\ Len(results) <= Len(response.actions)
       /\ \A i \in 1 .. Len(results) : results[i].action = response.actions[i]
  /\ pc = "executing" => Len(results) < Len(response.actions)
  /\ pc \in {"settling", "shooting", "continuing"} => Len(results) = Len(response.actions)

\* A done step that opened the browser.
Opens(s) == s.changed /\ s.ok /\ Some(s.executed, Panel)

\* panel_launcher_opened remembers such a step, and bars the panel from then on.
OpenedKnown ==
  /\ \A i \in 1 .. Len(sent) : Opens(sent[i]) => opened
  /\ pc \in InHand /\ opened => ~Some(executed, Panel)
  /\ pc = "executing" => ~(opened /\ Panel(NextAction))

\* A done step that changed the screen, or was not meant to.
Fine(s) == s.changed \/ ~Some(s.asked, Visual)

\* unchanged_screen_count reaches back to such a step.
UnchangedCounts == Len(sent) - unchanged >= 1 => Fine(sent[Len(sent) - unchanged])

\* repeat_count reaches back to a step that asked for something else than
\* last_action_signature, which is what the current step asks for.
RepeatsCount ==
  /\ pc \in Before => last = << >> /\ sent = << >>
  /\ pc \in InHand =>
       /\ Len(last) = 1 /\ SameActions(response.actions, last[1])
       /\ Len(sent) - repeats >= 1 =>
            ~SameActions(sent[Len(sent) - repeats].asked, last[1])
  /\ pc \in {"deciding", "continuing"} =>
       /\ Len(last) = 1 <=> Len(sent) > 0
       /\ Len(sent) > 0 => SameActions(sent[Len(sent)].asked, last[1])
       /\ Len(sent) - repeats - 1 >= 1 =>
            ~SameActions(sent[Len(sent) - repeats - 1].asked, last[1])

IInv ==
  /\ TypeOK
  /\ StepsCounted
  /\ EndsLast
  /\ AdapterClosed
  /\ LateOnce
  /\ ResultsPair
  /\ OpenedKnown
  /\ LauncherOnce
  /\ UnchangedCounts
  /\ RepeatsCount
  /\ StuckIsCut
----------------------------------------------------------------------------
\* Matching is an equivalence on lists of actions: what repeat_count compares with
\* the first list of a run also holds between any two of the run.
LEMMA SameIsEquivalence ==
  ASSUME NEW q \in Seq(Actions), NEW r \in Seq(Actions), NEW s \in Seq(Actions)
  PROVE  /\ SameActions(q, q)
         /\ SameActions(q, r) => SameActions(r, q)
         /\ SameActions(q, r) /\ SameActions(r, s) => SameActions(q, s)
BY DEF SameActions, ActionsMatch

\* An action appended to a list is a panel click, or one was there before.
LEMMA SomeAppend ==
  ASSUME NEW q \in Seq(Actions), NEW a \in Actions
  PROVE  Some(Append(q, a), Panel) => Some(q, Panel) \/ Panel(a)
BY DEF Some

\* The assisted list is a list of actions.
LEMMA AssistedType ==
  ASSUME NEW q \in Seq(Actions)
  PROVE  Assisted(q) \in Seq(Actions)
<1>1. Launch \in Actions
  BY DEF Launch, Actions, ActionTypes, Places
<1> QED
  BY <1>1 DEF Assisted

\* The initial states satisfy the inductive invariant.
LEMMA InitInv == Init => IInv
<1> SUFFICES ASSUME Init PROVE IInv
  OBVIOUS
<1>1. /\ pc = "starting" /\ adapter = "open" /\ status = "none" /\ why = "none"
      /\ browser \in BOOLEAN /\ interrupted = FALSE /\ opened = FALSE
      /\ step = 0 /\ repeats = 0 /\ unchanged = 0 /\ late = 0 /\ aborts = 0
  BY DEF Init
<1>2. response = NoResponse /\ results = << >> /\ executed = << >>
  BY DEF Init
<1>3. last = << >> /\ sent = << >>
  BY DEF Init
<1>4. \A S : << >> \in Seq(S) /\ Len(<< >>) = 0
  BY EmptySeq
<1> USE LoopAssumption DEF Before, InHand, Over
<1>5. TypeOK
  <2>1. response \in [stop : {"actions", "message", "error"}, actions : Seq(Actions)]
    BY <1>2, <1>4 DEF NoResponse
  <2>2. executed \in Seq(Actions)
    BY <1>2, <1>4
  <2>3. results \in Seq([action : Actions, status : {"ok", "error"}])
    BY <1>2, <1>4
  <2>4. last \in Seq(Seq(Actions)) /\ Len(last) <= 1
    BY <1>3, <1>4
  <2>5. sent \in Seq([asked : Seq(Actions), executed : Seq(Actions),
                      changed : BOOLEAN, ok : BOOLEAN])
    BY <1>3, <1>4
  <2>6. /\ step \in 0 .. MaxSteps + 1 /\ late \in Nat /\ aborts \in Nat
        /\ repeats \in 0 .. Threshold /\ unchanged \in 0 .. Threshold
    BY <1>1
  <2>7. interrupted \in BOOLEAN /\ opened \in BOOLEAN
    BY <1>1
  <2>8. pc \in Locations /\ status \in {"none", "running"} \cup LastStatuses
    BY <1>1 DEF Locations
  <2>9. browser \in BOOLEAN /\ adapter \in {"open", "closed"}
    BY <1>1
  <2> QED
    BY <2>1, <2>2, <2>3, <2>4, <2>5, <2>6, <2>7, <2>8, <2>9 DEF TypeOK
<1>6. StepsCounted /\ EndsLast /\ AdapterClosed /\ LateOnce
  BY <1>1 DEF StepsCounted, EndsLast, AdapterClosed, LateOnce, LastStatuses
<1>7. ResultsPair /\ RepeatsCount
  BY <1>1, <1>3 DEF ResultsPair, RepeatsCount
<1>8. OpenedKnown /\ UnchangedCounts /\ LauncherOnce /\ StuckIsCut
  BY <1>1, <1>3, <1>4
     DEF OpenedKnown, UnchangedCounts, LauncherOnce, StuckIsCut, Some
<1> QED
  BY <1>5, <1>6, <1>7, <1>8 DEF IInv

\* Well-formedness, action by action.
LEMMA TypeStep == IInv /\ Next => TypeOK'
<1> SUFFICES ASSUME IInv, Next PROVE TypeOK'
  OBVIOUS
<1> USE LoopAssumption DEF IInv, TypeOK, StepsCounted, Locations, LastStatuses, InHand,
        Before, Over, Go, Finish, LateCall, asking, memory, outside
<1>1. CASE Prologue
  BY <1>1, SMTT(20) DEF Prologue, Begin, InitialCaptured, InitialFailed, FailedClose, InitialResponse
<1>2. CASE Decide /\ ~CallTool
  BY <1>2 DEF Decide, LimitReached, StepInterrupted, TimedOut, Completed
<1>3. CASE CallTool
  <2> DEFINE q == Assisted(response.actions)
  <2>1. q \in Seq(Actions)
    BY AssistedType
  <2>2. response' = [response EXCEPT !.actions = q] /\ CountRepeat(q)
    BY <1>3 DEF CallTool
  <2>3. response' \in [stop : {"actions", "message", "error"}, actions : Seq(Actions)]
    BY <2>1, <2>2
  <2>4. last' \in Seq(Seq(Actions)) /\ Len(last') <= 1
    BY <2>1, <2>2 DEF CountRepeat
  <2>5. repeats' \in 0 .. Threshold
    BY <1>3, <2>2 DEF CallTool, CountRepeat
  <2>6. results' = << >> /\ executed' = << >>
    BY <1>3 DEF CallTool, ResetStep
  <2> HIDE DEF q
  <2> QED
    BY <1>3, <2>3, <2>4, <2>5, <2>6 DEF CallTool
<1>4. CASE ActionInterrupted \/ ActionStarts
  BY <1>4 DEF ActionInterrupted, ActionStarts
<1>5. CASE ActionRefused \/ ActionExecuted
  <2>1. NextAction \in Actions
    BY <1>5 DEF ActionRefused, ActionExecuted, ActionsLeft, NextAction, ResultsPair
  <2>2. PICK s \in {"ok", "error"} :
          results' = Append(results, [action |-> NextAction, status |-> s])
    BY <1>5 DEF ActionRefused, ActionExecuted
  <2>3. results' \in Seq([action : Actions, status : {"ok", "error"}])
    BY <2>1, <2>2
  <2>4. executed \in Seq(Actions) /\ Append(executed, NextAction) \in Seq(Actions)
    BY <2>1
  <2>5. executed' = executed \/ executed' = Append(executed, NextAction)
    BY <1>5 DEF ActionRefused, ActionExecuted
  <2> QED
    BY <1>5, <2>3, <2>4, <2>5 DEF ActionRefused, ActionExecuted
<1>6. CASE Observe /\ ~ScreenshotTaken
  BY <1>6 DEF Observe, Settle, SettleInterrupted, Settled, ScreenshotFailed
<1>7. CASE ScreenshotTaken
  BY <1>7 DEF ScreenshotTaken, CountUnchanged, NoteLauncher
<1>8. CASE Ask \/ Close
  BY <1>8, SMTT(20) DEF Ask, Continued, ContinueFailed, Close
<1>9. CASE RaiseFlag
  BY <1>9 DEF RaiseFlag
<1>10. CASE Abort
  BY <1>10 DEF Abort, AbortLoop, AbortInitialCall, AbortOutsideTry
<1> QED
  BY <1>1, <1>2, <1>3, <1>4, <1>5, <1>6, <1>7, <1>8, <1>9, <1>10
     DEF Next, Run, Act

\* The counters of the loop: the step limit is checked before a step, the
\* thresholds before the next await.
LEMMA CountedStep == IInv /\ Next => StepsCounted'
<1> SUFFICES ASSUME IInv, Next PROVE StepsCounted'
  OBVIOUS
<1>0. TypeOK'
  BY TypeStep
<1> USE LoopAssumption DEF IInv, TypeOK, StepsCounted, Locations, InHand, Before, Over,
        Go, Finish, asking, memory
<1>1. CASE Prologue
  BY <1>1 DEF Prologue, Begin, InitialCaptured, InitialFailed, FailedClose, InitialResponse
<1>2. CASE Decide /\ ~CallTool
  BY <1>2 DEF Decide, LimitReached, StepInterrupted, TimedOut, Completed
<1>3. CASE CallTool
  <2>1. pc' = "closing" \/ (pc' = "acting" /\ repeats' < Threshold)
    BY <1>0, <1>3 DEF CallTool
  <2> QED
    BY <1>3, <2>1 DEF CallTool
<1>4. CASE Act
  BY <1>4 DEF Act, ActionInterrupted, ActionRefused, ActionStarts, ActionExecuted
<1>5. CASE Observe /\ ~ScreenshotTaken
  BY <1>5 DEF Observe, Settle, SettleInterrupted, Settled, ScreenshotFailed
<1>6. CASE ScreenshotTaken
  <2>1. pc' = "closing" \/ (pc' = "continuing" /\ unchanged' < Threshold)
    BY <1>0, <1>6 DEF ScreenshotTaken
  <2> QED
    BY <1>6, <2>1 DEF ScreenshotTaken
<1>7. CASE Continued
  <2>1. step' = step + 1 /\ pc' = "deciding" /\ UNCHANGED memory /\ step \in 1 .. MaxSteps
    BY <1>7 DEF Continued
  <2> QED
    BY <1>7, <2>1 DEF Continued
<1>8. CASE ContinueFailed \/ Close
  BY <1>8 DEF ContinueFailed, Close
<1>9. CASE RaiseFlag \/ Abort
  BY <1>9 DEF RaiseFlag, Abort, AbortLoop, AbortInitialCall, AbortOutsideTry
<1> QED
  BY <1>1, <1>2, <1>3, <1>4, <1>5, <1>6, <1>7, <1>8, <1>9 DEF Next, Run, Ask

\* Statuses, labels and the adapter.
LEMMA EndsStep == IInv /\ Next => EndsLast' /\ AdapterClosed'
<1> SUFFICES ASSUME IInv, Next PROVE EndsLast' /\ AdapterClosed'
  OBVIOUS
<1> USE LoopAssumption DEF IInv, TypeOK, EndsLast, AdapterClosed, StepsCounted, Locations,
        LastStatuses, InHand, Before, Over, Go, Finish, asking, outside
<1>1. CASE Prologue
  BY <1>1 DEF Prologue, Begin, InitialCaptured, InitialFailed, FailedClose, InitialResponse
<1>2. CASE Decide
  BY <1>2 DEF Decide, LimitReached, StepInterrupted, TimedOut, Completed, CallTool
<1>3. CASE Act
  BY <1>3 DEF Act, ActionInterrupted, ActionRefused, ActionStarts, ActionExecuted
<1>4. CASE Observe
  <2>1. CASE ScreenshotTaken
    BY <2>1 DEF ScreenshotTaken
  <2> QED
    BY <1>4, <2>1 DEF Observe, Settle, SettleInterrupted, Settled, ScreenshotFailed
<1>5. CASE Ask \/ Close
  BY <1>5 DEF Ask, Continued, ContinueFailed, Close
<1>6. CASE RaiseFlag
  BY <1>6 DEF RaiseFlag
<1>7. CASE Abort
  BY <1>7 DEF Abort, AbortLoop, AbortInitialCall, AbortOutsideTry
<1> QED
  BY <1>1, <1>2, <1>3, <1>4, <1>5, <1>6, <1>7 DEF Next, Run

\* The flag is looked at between any two model calls, and before each action.
LEMMA LateStep == IInv /\ Next => LateOnce'
<1> SUFFICES ASSUME IInv, Next PROVE LateOnce'
  OBVIOUS
<1> USE LoopAssumption DEF IInv, TypeOK, LateOnce, Locations, InHand, Over, Go, Finish,
        LateCall, outside
<1>1. CASE Prologue
  BY <1>1 DEF Prologue, Begin, InitialCaptured, InitialFailed, FailedClose, InitialResponse
<1>2. CASE Decide
  BY <1>2 DEF Decide, LimitReached, StepInterrupted, TimedOut, Completed, CallTool
<1>3. CASE Act
  BY <1>3 DEF Act, ActionInterrupted, ActionRefused, ActionStarts, ActionExecuted
<1>4. CASE Observe
  <2>1. CASE ScreenshotTaken
    <3>1. pc = "shooting" /\ pc' \in {"closing", "continuing"} /\ UNCHANGED interrupted
      BY <2>1 DEF ScreenshotTaken
    <3>2. late' = late \/ late' = LateCall
      BY <2>1 DEF ScreenshotTaken
    <3> QED
      BY <3>1, <3>2
  <2> QED
    BY <1>4, <2>1 DEF Observe, Settle, SettleInterrupted, Settled, ScreenshotFailed
<1>5. CASE Ask \/ Close
  BY <1>5 DEF Ask, Continued, ContinueFailed, Close
<1>6. CASE RaiseFlag \/ Abort
  BY <1>6 DEF RaiseFlag, Abort, AbortLoop, AbortInitialCall, AbortOutsideTry
<1> QED
  BY <1>1, <1>2, <1>3, <1>4, <1>5, <1>6 DEF Next, Run

\* A result is added for the next action, refused or executed, and nothing else.
LEMMA ResultsStep == IInv /\ Next => ResultsPair'
<1> SUFFICES ASSUME IInv, Next PROVE ResultsPair'
  OBVIOUS
<1> USE DEF IInv, TypeOK, ResultsPair, InHand, Over, Go, Finish, asking, memory
<1>1. CASE Prologue
  BY <1>1 DEF Prologue, Begin, InitialCaptured, InitialFailed, FailedClose, InitialResponse
<1>2. CASE Decide /\ ~CallTool
  BY <1>2 DEF Decide, LimitReached, StepInterrupted, TimedOut, Completed
<1>3. CASE CallTool
  <2>1. results' = << >> /\ Len(results') = 0 /\ pc' \in {"closing", "acting"}
    BY <1>3 DEF CallTool, ResetStep
  <2>2. Len(response'.actions) >= 0
    BY TypeStep
  <2> QED
    BY <2>1, <2>2
<1>4. CASE ActionInterrupted \/ ActionStarts
  BY <1>4 DEF ActionInterrupted, ActionStarts, ActionsLeft
<1>5. CASE ActionRefused \/ ActionExecuted
  <2>1. /\ pc \in {"acting", "executing"} /\ pc' = "acting" /\ response' = response
        /\ Len(results) < Len(response.actions)
    BY <1>5 DEF ActionRefused, ActionExecuted, ActionsLeft
  <2>2. PICK s \in {"ok", "error"} :
          results' = Append(results, [action |-> NextAction, status |-> s])
    BY <1>5 DEF ActionRefused, ActionExecuted
  <2>3. NextAction = response.actions[Len(results) + 1] /\ NextAction \in Actions
    BY <2>1 DEF NextAction
  <2>4. Len(results') = Len(results) + 1
    BY <2>2, <2>3
  <2>5. \A i \in 1 .. Len(results) : results'[i] = results[i]
    BY <2>2, <2>3
  <2>6. results'[Len(results) + 1].action = NextAction
    BY <2>2, <2>3
  <2>7. ASSUME NEW i \in 1 .. Len(results) + 1
        PROVE  results'[i].action = response.actions[i]
    <3>1. CASE i \in 1 .. Len(results)
      BY <2>1, <2>5, <3>1
    <3>2. CASE i = Len(results) + 1
      BY <2>3, <2>6, <3>2
    <3> QED
      BY <3>1, <3>2
  <2> QED
    BY <2>1, <2>4, <2>7
<1>6. CASE Observe
  <2>1. CASE ScreenshotTaken
    BY <2>1 DEF ScreenshotTaken
  <2>2. CASE Settle
    <3>1. pc = "acting" /\ ~(Len(results) < Len(response.actions))
      BY <2>2 DEF Settle, ActionsLeft
    <3>2. UNCHANGED << results, response >> /\ pc' \in {"settling", "shooting"}
      BY <2>2 DEF Settle
    <3>3. Len(results) = Len(response.actions)
      BY <3>1
    <3> QED
      BY <3>1, <3>2, <3>3
  <2> QED
    BY <1>6, <2>1, <2>2 DEF Observe, SettleInterrupted, Settled, ScreenshotFailed
<1>7. CASE Ask \/ Close
  BY <1>7 DEF Ask, Continued, ContinueFailed, Close
<1>8. CASE RaiseFlag \/ Abort
  BY <1>8 DEF RaiseFlag, Abort, AbortLoop, AbortInitialCall, AbortOutsideTry
<1> QED
  BY <1>1, <1>2, <1>3, <1>4, <1>5, <1>6, <1>7, <1>8 DEF Next, Run, Act

\* The record of a done step, as ScreenshotTaken writes it.
Done(changed) ==
  [asked |-> response.actions, executed |-> executed, changed |-> changed,
   ok |-> \A i \in DOMAIN results : results[i].status = "ok"]

\* What ScreenshotTaken adds to the completed steps.
LEMMA SentGrows ==
  ASSUME IInv, NEW changed \in BOOLEAN, sent' = Append(sent, Done(changed))
  PROVE  /\ Len(sent) \in Nat
         /\ Len(sent') = Len(sent) + 1
         /\ \A i \in 1 .. Len(sent) : sent'[i] = sent[i]
         /\ sent'[Len(sent) + 1] = Done(changed)
<1>1. Done(changed) \in [asked : Seq(Actions), executed : Seq(Actions),
                         changed : BOOLEAN, ok : BOOLEAN]
  BY DEF Done, IInv, TypeOK
<1>2. sent \in Seq([asked : Seq(Actions), executed : Seq(Actions),
                    changed : BOOLEAN, ok : BOOLEAN])
  BY DEF IInv, TypeOK
<1> HIDE DEF Done
<1> QED
  BY <1>1, <1>2

\* Steps that add no result, no executed action and no completed step.
LEMMA OpenedStutters ==
  ASSUME IInv, UNCHANGED << sent, opened, executed >>,
         pc' \in InHand => pc \in InHand,
         pc' = "executing" => pc = "executing" /\ UNCHANGED << response, results >>
  PROVE  OpenedKnown' /\ LauncherOnce'
BY DEF IInv, OpenedKnown, LauncherOnce, Opens, Some, Panel, NextAction

\* The panel launcher: refused once it worked, so no step executes it again.
LEMMA OpenedStep == IInv /\ Next => OpenedKnown' /\ LauncherOnce'
<1> SUFFICES ASSUME IInv, Next PROVE OpenedKnown' /\ LauncherOnce'
  OBVIOUS
<1> USE DEF InHand, Over, Go, Finish, asking, memory
<1>1. CASE Prologue
  BY <1>1, OpenedStutters DEF Prologue, Begin, InitialCaptured, InitialFailed, FailedClose,
     InitialResponse
<1>2. CASE Decide /\ ~CallTool
  BY <1>2, OpenedStutters DEF Decide, LimitReached, StepInterrupted, TimedOut, Completed
<1>3. CASE CallTool
  <2>1. UNCHANGED << sent, opened >> /\ executed' = << >> /\ pc' # "executing"
    BY <1>3 DEF CallTool, ResetStep
  <2>2. ~Some(executed, Panel)'
    BY <2>1 DEF Some
  <2> QED
    BY <2>1, <2>2 DEF IInv, OpenedKnown, LauncherOnce, Opens, Some, Panel
<1>4. CASE ActionInterrupted
  BY <1>4, OpenedStutters DEF ActionInterrupted
<1>5. CASE ActionRefused
  BY <1>5, OpenedStutters DEF ActionRefused
<1>6. CASE ActionStarts
  <2>1. /\ pc \in InHand /\ ~(opened /\ Panel(NextAction))
        /\ UNCHANGED << sent, opened, executed, response, results >>
    BY <1>6 DEF ActionStarts
  <2> QED
    BY <2>1 DEF IInv, OpenedKnown, LauncherOnce, Opens, Some, Panel, NextAction
<1>7. CASE ActionExecuted
  <2>1. /\ pc = "executing" /\ pc' = "acting" /\ UNCHANGED << sent, opened >>
        /\ executed' = Append(executed, NextAction)
    BY <1>7 DEF ActionExecuted
  <2>2. NextAction \in Actions /\ executed \in Seq(Actions)
    BY <2>1 DEF NextAction, IInv, TypeOK, ResultsPair
  <2>3. opened => ~Some(executed, Panel) /\ ~Panel(NextAction)
    BY <2>1 DEF IInv, OpenedKnown
  <2>4. opened => ~Some(executed, Panel)'
    BY <2>1, <2>2, <2>3, SomeAppend DEF Some, Panel
  <2> QED
    BY <2>1, <2>4 DEF IInv, OpenedKnown, LauncherOnce, Opens, Some, Panel
<1>8. CASE Observe /\ ~ScreenshotTaken
  BY <1>8, OpenedStutters DEF Observe, Settle, SettleInterrupted, Settled, ScreenshotFailed
<1>9. CASE ScreenshotTaken
  <2>1. PICK changed \in BOOLEAN :
          NoteLauncher(changed) /\ sent' = Append(sent, Done(changed))
    BY <1>9 DEF ScreenshotTaken, Done
  <2>2. pc = "shooting" /\ pc' \notin InHand
    BY <1>9 DEF ScreenshotTaken
  <2>3. opened' <=> opened \/ Opens(Done(changed))
    BY <2>1 DEF NoteLauncher, Opens, Done
  <2>4. opened => ~Some(Done(changed).executed, Panel)
    BY <2>2 DEF Done, IInv, OpenedKnown
  <2>5. ASSUME NEW i \in 1 .. Len(sent'), Opens(sent'[i])
        PROVE  opened' /\ (i <= Len(sent) => opened)
    BY <2>1, <2>3, <2>5, SentGrows DEF IInv, OpenedKnown
  <2>6. OpenedKnown'
    BY <2>2, <2>5 DEF OpenedKnown, Opens
  <2>7. LauncherOnce'
    BY <2>1, <2>4, <2>5, SentGrows DEF IInv, LauncherOnce, Opens
  <2> QED
    BY <2>6, <2>7
<1>10. CASE Ask \/ Close
  BY <1>10, OpenedStutters DEF Ask, Continued, ContinueFailed, Close
<1>11. CASE RaiseFlag \/ Abort
  BY <1>11, OpenedStutters DEF RaiseFlag, Abort, AbortLoop, AbortInitialCall,
     AbortOutsideTry
<1> QED
  BY <1>1, <1>2, <1>3, <1>4, <1>5, <1>6, <1>7, <1>8, <1>9, <1>10, <1>11
     DEF Next, Run, Act

\* The lists of actions the stuck checks compare.
LEMMA ComparedTypes ==
  ASSUME TypeOK
  PROVE  /\ Len(sent) \in Nat /\ \A i \in 1 .. Len(sent) : sent[i].asked \in Seq(Actions)
         /\ last # << >> => Len(last) = 1
         /\ Len(last) = 1 => last # << >> /\ last[1] \in Seq(Actions)
<1>1. \A i \in 1 .. Len(sent) : sent[i] \in [asked : Seq(Actions), executed : Seq(Actions),
                                            changed : BOOLEAN, ok : BOOLEAN]
  BY ElementOfSeq DEF TypeOK
<1>2. last \in Seq(Seq(Actions)) /\ Len(last) <= 1
  BY DEF TypeOK
<1>3. last # << >> => Len(last) = 1
  <2>1. last # << >> => Len(last) \in Nat \ {0}
    BY <1>2, EmptySeq
  <2>2. \A m \in Nat \ {0} : m <= 1 => m = 1
    OBVIOUS
  <2> QED
    BY <1>2, <2>1, <2>2, Zenon
<1>4. Len(last) = 1 => last # << >> /\ last[1] \in Seq(Actions)
  BY <1>2, ElementOfSeq
<1>5. Len(sent) \in Nat
  BY DEF TypeOK
<1>6. ASSUME NEW i \in 1 .. Len(sent) PROVE sent[i].asked \in Seq(Actions)
  BY <1>1
<1> QED
  BY <1>3, <1>4, <1>5, <1>6

\* Steps that complete no step of the task and count nothing.
LEMMA StuckStutters ==
  ASSUME IInv, UNCHANGED << sent, last, repeats, unchanged >>,
         pc' \in Before => pc \in Before,
         pc' \in InHand => pc \in InHand /\ UNCHANGED response,
         pc' \in {"deciding", "continuing"} => pc \in {"deciding", "continuing"}
  PROVE  UnchangedCounts' /\ RepeatsCount' /\ StuckIsCut'
<1>1. UnchangedCounts'
  BY DEF IInv, UnchangedCounts, Fine, Some, Visual
<1>2. RepeatsCount'
  BY DEF IInv, RepeatsCount
<1>3. StuckIsCut'
  BY DEF IInv, StuckIsCut, Some, Visual
<1> QED
  BY <1>1, <1>2, <1>3

\* The comparison with the last actions keeps what repeat_count says.
LEMMA RepeatsCounted ==
  ASSUME IInv, CallTool
  PROVE  UnchangedCounts' /\ RepeatsCount' /\ StuckIsCut'
<1> DEFINE q == Assisted(response.actions)
<1>1. q \in Seq(Actions)
  BY AssistedType DEF IInv, TypeOK
<1>2. /\ pc = "deciding" /\ pc' \in {"closing", "acting"}
      /\ response'.actions = q
      /\ UNCHANGED << sent, unchanged >>
  BY DEF CallTool, Go, Finish, IInv, TypeOK
<1>3. CountRepeat(q)
  BY DEF CallTool
<1> HIDE DEF q
<1>4. /\ Len(last) = 1 <=> Len(sent) > 0
      /\ Len(sent) > 0 => SameActions(sent[Len(sent)].asked, last[1])
      /\ Len(sent) - repeats - 1 >= 1 =>
           ~SameActions(sent[Len(sent) - repeats - 1].asked, last[1])
  BY <1>2 DEF IInv, RepeatsCount
<1>5. /\ Len(sent) \in Nat /\ repeats \in Nat
      /\ \A i \in 1 .. Len(sent) : sent[i].asked \in Seq(Actions)
      /\ last # << >> => Len(last) = 1
      /\ Len(last) = 1 => last # << >> /\ last[1] \in Seq(Actions)
  BY ComparedTypes, LoopAssumption DEF IInv, TypeOK
<1>6. /\ Len(last') = 1 /\ SameActions(q, last'[1])
      /\ Len(sent) - repeats' >= 1 => ~SameActions(sent[Len(sent) - repeats'].asked, last'[1])
  <2>1. CASE Repeats(q)
    <3>1. last' = last /\ repeats' = repeats + 1 /\ Len(last) = 1 /\ SameActions(q, last[1])
      BY <1>3, <1>5, <2>1 DEF CountRepeat, Repeats
    <3> QED
      BY <1>4, <1>5, <3>1
  <2>2. CASE ~Repeats(q)
    <3>1. last' = << q >> /\ repeats' = 0
      BY <1>3, <2>2 DEF CountRepeat
    <3>2. SameActions(q, q)
      BY <1>1, SameIsEquivalence
    <3>3. ASSUME Len(sent) >= 1, SameActions(sent[Len(sent)].asked, q)
          PROVE  FALSE
      <4>1. Len(last) = 1 /\ SameActions(sent[Len(sent)].asked, last[1])
        BY <1>4, <1>5, <3>3
      <4>2. sent[Len(sent)].asked \in Seq(Actions) /\ last[1] \in Seq(Actions)
        BY <1>5, <3>3, <4>1
      <4>3. SameActions(q, last[1])
        BY <1>1, <3>3, <4>1, <4>2, SameIsEquivalence
      <4> QED
        BY <2>2, <4>1, <4>3 DEF Repeats
    <3> QED
      BY <1>5, <3>1, <3>2, <3>3
  <2> QED
    BY <2>1, <2>2
<1>7. RepeatsCount'
  BY <1>2, <1>6 DEF RepeatsCount, InHand, Before
<1>8. UnchangedCounts' /\ StuckIsCut'
  BY <1>2 DEF IInv, UnchangedCounts, Fine, StuckIsCut, Some, Visual
<1> QED
  BY <1>7, <1>8

\* The completed step continues or ends the runs the counters measure, and a run
\* of the threshold's length has ended the loop before.
LEMMA StuckCounted ==
  ASSUME IInv, ScreenshotTaken
  PROVE  UnchangedCounts' /\ RepeatsCount' /\ StuckIsCut'
<1> DEFINE n == Len(sent)
<1>1. PICK changed \in BOOLEAN :
        CountUnchanged(changed) /\ sent' = Append(sent, Done(changed))
  BY DEF ScreenshotTaken, Done
<1>2. /\ n \in Nat /\ Len(sent') = n + 1
      /\ \A i \in 1 .. n : sent'[i] = sent[i]
      /\ sent'[n + 1] = Done(changed)
  BY <1>1, SentGrows
<1>3. /\ pc = "shooting" /\ pc' \in {"closing", "continuing"}
      /\ UNCHANGED << response, last, repeats >>
  BY DEF ScreenshotTaken, Go, Finish, asking
<1>4. /\ Len(last) = 1 /\ SameActions(response.actions, last[1])
      /\ n - repeats >= 1 => ~SameActions(sent[n - repeats].asked, last[1])
  BY <1>3 DEF IInv, RepeatsCount, InHand
<1>5. /\ repeats \in Nat /\ unchanged \in Nat /\ repeats < Threshold /\ unchanged < Threshold
      /\ Threshold \in Nat /\ Threshold >= 2
  BY <1>3, LoopAssumption DEF IInv, TypeOK, StepsCounted, Over
<1>6. /\ response.actions \in Seq(Actions) /\ last[1] \in Seq(Actions)
      /\ \A i \in 1 .. n : sent[i].asked \in Seq(Actions)
  BY <1>4, ComparedTypes DEF IInv, TypeOK
<1>7. RepeatsCount'
  BY <1>2, <1>3, <1>4, <1>5 DEF RepeatsCount, Done, InHand, Before
<1>8. UnchangedCounts'
  <2>1. Fine(Done(changed)) => unchanged' = 0
    BY <1>1 DEF CountUnchanged, Fine, Done
  <2>2. ~Fine(Done(changed)) => unchanged' = unchanged + 1
    BY <1>1 DEF CountUnchanged, Fine, Done
  <2>3. n - unchanged >= 1 => Fine(sent[n - unchanged])
    BY DEF IInv, UnchangedCounts
  <2> HIDE DEF n
  <2>4. (n + 1) - unchanged' >= 1 => Fine(sent'[(n + 1) - unchanged'])
    BY <1>2, <1>5, <2>1, <2>2, <2>3
  <2> QED
    BY <1>2, <2>4 DEF UnchangedCounts, Fine, Some, Visual
<1>9. StuckIsCut'
  <2>1. ASSUME n + 1 - Threshold >= 1
        PROVE  \E k \in (n + 2 - Threshold) .. (n + 1) :
                 ~SameActions(sent'[k].asked, sent'[n + 1 - Threshold].asked)
    <3> DEFINE i == n + 1 - Threshold
               m == n - repeats
    <3>1. i \in 1 .. n /\ m \in i .. n /\ m >= 1
      BY <1>2, <1>5, <2>1
    <3>2. ~SameActions(sent[m].asked, last[1])
      BY <1>4, <3>1
    <3>3. ~(SameActions(sent[m].asked, sent[i].asked)
              /\ SameActions(response.actions, sent[i].asked))
      BY <1>4, <1>6, <3>1, <3>2, SameIsEquivalence
    <3>4. SameActions(sent[i].asked, sent[i].asked)
      BY <1>6, <3>1, SameIsEquivalence
    <3>5. \/ m # i /\ ~SameActions(sent'[m].asked, sent'[i].asked)
          \/ ~SameActions(sent'[n + 1].asked, sent'[i].asked)
      BY <1>2, <3>1, <3>3, <3>4 DEF Done
    <3>6. /\ m # i => m \in (n + 2 - Threshold) .. (n + 1)
          /\ n + 1 \in (n + 2 - Threshold) .. (n + 1)
      BY <1>2, <1>5, <3>1
    <3> HIDE DEF m
    <3> QED
      BY <3>5, <3>6
  <2>2. ASSUME n + 1 - Threshold >= 1
        PROVE  \E k \in (n + 1 - Threshold) .. n : Fine(sent'[k])
    <3>1. n - unchanged \in (n + 1 - Threshold) .. n /\ n - unchanged >= 1
      BY <1>2, <1>5, <2>2
    <3>2. Fine(sent[n - unchanged])
      BY <3>1 DEF IInv, UnchangedCounts
    <3> QED
      BY <1>2, <3>1, <3>2
  <2>3. ASSUME NEW i \in 1 .. n + 1
        PROVE  /\ i + Threshold <= n + 1 =>
                    \E k \in (i + 1) .. (i + Threshold) :
                      ~SameActions(sent'[k].asked, sent'[i].asked)
               /\ i + Threshold - 1 < n + 1 =>
                    \E k \in i .. (i + Threshold - 1) : Fine(sent'[k])
    <3>1. CASE i + Threshold <= n
      <4>1. i \in 1 .. Len(sent) /\ i + Threshold <= Len(sent) /\ i + Threshold - 1 < Len(sent)
        BY <1>2, <1>5, <3>1
      <4>2. PICK k \in (i + 1) .. (i + Threshold) :
              ~SameActions(sent[k].asked, sent[i].asked)
        BY <4>1 DEF IInv, StuckIsCut
      <4>3. PICK m \in i .. (i + Threshold - 1) : Fine(sent[m])
        BY <4>1 DEF IInv, StuckIsCut, Fine
      <4>4. sent'[i] = sent[i] /\ sent'[k] = sent[k] /\ sent'[m] = sent[m]
        BY <1>2, <1>5, <3>1
      <4>5. ~SameActions(sent'[k].asked, sent'[i].asked) /\ Fine(sent'[m])
        BY <4>2, <4>3, <4>4
      <4> QED
        BY <4>5
    <3>2. CASE i = n + 1 - Threshold
      BY <1>2, <1>5, <2>1, <2>2, <3>2
    <3>3. CASE i + Threshold > n + 1
      BY <1>2, <1>5, <3>3
    <3> QED
      BY <1>2, <1>5, <3>1, <3>2, <3>3
  <2> QED
    BY <1>2, <2>3 DEF StuckIsCut, Fine, Some, Visual
<1> QED
  BY <1>7, <1>8, <1>9

\* The stuck checks: what the counters say stays true, so no run gets longer.
LEMMA StuckStep == IInv /\ Next => UnchangedCounts' /\ RepeatsCount' /\ StuckIsCut'
<1> SUFFICES ASSUME IInv, Next PROVE UnchangedCounts' /\ RepeatsCount' /\ StuckIsCut'
  OBVIOUS
<1> USE DEF Before, InHand, Go, Finish, asking, memory
<1>1. CASE Prologue /\ ~InitialResponse
  BY <1>1, StuckStutters DEF Prologue, Begin, InitialCaptured, InitialFailed, FailedClose
<1>2. CASE InitialResponse
  <2>1. /\ last = << >> /\ sent = << >> /\ pc' = "deciding"
        /\ UNCHANGED << sent, last, repeats, unchanged >>
    BY <1>2 DEF InitialResponse, IInv, RepeatsCount
  <2>2. Len(last) = 0 /\ Len(sent) = 0
    BY <2>1
  <2>3. RepeatsCount'
    BY <2>1, <2>2, LoopAssumption DEF RepeatsCount, IInv, TypeOK
  <2>4. UnchangedCounts' /\ StuckIsCut'
    BY <2>1 DEF IInv, UnchangedCounts, Fine, StuckIsCut, Some, Visual
  <2> QED
    BY <2>3, <2>4
<1>3. CASE Decide /\ ~CallTool
  BY <1>3, StuckStutters DEF Decide, LimitReached, StepInterrupted, TimedOut, Completed
<1>4. CASE CallTool
  BY <1>4, RepeatsCounted
<1>5. CASE Act
  BY <1>5, StuckStutters DEF Act, ActionInterrupted, ActionRefused, ActionStarts,
     ActionExecuted
<1>6. CASE Observe /\ ~ScreenshotTaken
  BY <1>6, StuckStutters DEF Observe, Settle, SettleInterrupted, Settled, ScreenshotFailed
<1>7. CASE ScreenshotTaken
  BY <1>7, StuckCounted
<1>8. CASE Ask \/ Close
  BY <1>8, StuckStutters DEF Ask, Continued, ContinueFailed, Close
<1>9. CASE RaiseFlag \/ Abort
  BY <1>9, StuckStutters DEF RaiseFlag, Abort, AbortLoop, AbortInitialCall, AbortOutsideTry
<1> QED
  BY <1>1, <1>2, <1>3, <1>4, <1>5, <1>6, <1>7, <1>8, <1>9 DEF Next, Run

\* The inductive step.
LEMMA StepInv == IInv /\ [Next]_vars => IInv'
<1> SUFFICES ASSUME IInv, [Next]_vars PROVE IInv'
  OBVIOUS
<1>1. CASE UNCHANGED vars
  <2>1. /\ TypeOK' /\ StepsCounted' /\ EndsLast' /\ AdapterClosed' /\ LateOnce'
        /\ ResultsPair'
    BY <1>1 DEF vars, IInv, TypeOK, StepsCounted, EndsLast, AdapterClosed, LateOnce,
       ResultsPair
  <2>2. OpenedKnown' /\ LauncherOnce'
    BY <1>1, OpenedStutters DEF vars
  <2>3. UnchangedCounts' /\ RepeatsCount' /\ StuckIsCut'
    BY <1>1, StuckStutters DEF vars
  <2> QED
    BY <2>1, <2>2, <2>3 DEF IInv
<1>2. CASE Next
  BY <1>2, TypeStep, CountedStep, EndsStep, LateStep, ResultsStep, OpenedStep, StuckStep
     DEF IInv
<1> QED
  BY <1>1, <1>2

\* What the loop has in hand is well-formed at every await, whatever the model
\* answers.
THEOREM TypeCorrect == Spec => []TypeOK
BY InitInv, StepInv, PTL DEF Spec, IInv

\* The adapter is closed at the end of a task unless an exception left the parts of
\* run_agent_loop that no try block covers.
THEOREM AdapterIsClosed == Spec => []AdapterClosed
BY InitInv, StepInv, PTL DEF Spec, IInv

\* After interrupt() raised the flag, at most one model call and no action starts.
THEOREM InterruptStops == Spec => []InterruptIsPrompt
<1>1. IInv => InterruptIsPrompt
  BY DEF IInv, TypeOK, LateOnce, InterruptIsPrompt, Over
<1> QED
  BY <1>1, InitInv, StepInv, PTL DEF Spec

\* continue_after_actions gets one result for each action of the response, in order.
THEOREM ResultsArePaired == Spec => []ResultsMatchActions
<1>1. IInv => ResultsMatchActions
  <2> SUFFICES ASSUME IInv, pc \in {"shooting", "continuing"}
               PROVE  /\ Len(results) = Len(response.actions)
                      /\ \A i \in DOMAIN results : results[i].action = response.actions[i]
    BY DEF ResultsMatchActions
  <2>1. DOMAIN results = 1 .. Len(results)
    BY DEF IInv, TypeOK
  <2> QED
    BY <2>1 DEF IInv, ResultsPair, InHand
<1> QED
  BY <1>1, InitInv, StepInv, PTL DEF Spec

\* Once a panel click opened the browser no later step clicks the panel.
THEOREM LauncherClickedOnce == Spec => []LauncherOnce
BY InitInv, StepInv, PTL DEF Spec, IInv

\* Whatever the model asks for, neither repeated actions nor visual actions without
\* effect go on past the threshold.
THEOREM StuckTasksAreCut == Spec => []StuckIsCut
BY InitInv, StepInv, PTL DEF Spec, IInv

----------------------------------------------------------------------------
\* AgentLoop implements TaskRun.

\* Every step of the loop reports, ends the task, or leaves both alone.
LEMMA RunStep ==
  ASSUME IInv, Next
  PROVE  [Published!Next]_<< status, pc = "ended" >>
<1> USE DEF IInv, TypeOK, EndsLast, Over, LastStatuses, Locations, Go, Finish,
        Published!Next, Published!Report, Published!End, Published!LastStatuses
<1>1. CASE Prologue
  BY <1>1 DEF Prologue, Begin, InitialCaptured, InitialFailed, FailedClose, InitialResponse
<1>2. CASE Decide
  BY <1>2 DEF Decide, LimitReached, StepInterrupted, TimedOut, Completed, CallTool
<1>3. CASE Act
  BY <1>3 DEF Act, ActionInterrupted, ActionRefused, ActionStarts, ActionExecuted
<1>4. CASE Observe
  BY <1>4 DEF Observe, Settle, SettleInterrupted, Settled, ScreenshotFailed,
     ScreenshotTaken
<1>5. CASE Ask \/ Close
  BY <1>5 DEF Ask, Continued, ContinueFailed, Close
<1>6. CASE RaiseFlag \/ Abort
  BY <1>6 DEF RaiseFlag, Abort, AbortLoop, AbortInitialCall, AbortOutsideTry
<1> QED
  BY <1>1, <1>2, <1>3, <1>4, <1>5, <1>6 DEF Next, Run

\* A task publishes at most one last status, and nothing after it.
THEOREM ImplementsTaskRun == Spec => ReportsOnce
<1>1. Init => Published!Init
  BY DEF Init, Published!Init
<1>2. IInv /\ [Next]_vars => [Published!Next]_<< status, pc = "ended" >>
  BY RunStep DEF vars
<1> QED
  BY <1>1, <1>2, InitInv, StepInv, PTL DEF Spec, ReportsOnce, Published!Spec

----------------------------------------------------------------------------
\* AgentLoop implements TaskSteps.

\* How many actions of the list in hand are left, while they are dealt with.
LEMMA UndoneType ==
  ASSUME IInv
  PROVE  /\ Len(results) \in Nat /\ Len(response.actions) \in Nat
         /\ response.actions = << >> <=> Len(response.actions) = 0
         /\ pc = "acting" => Len(results) <= Len(response.actions)
         /\ pc = "executing" => Len(results) < Len(response.actions)
         /\ pc \in {"settling", "shooting"} => Len(results) = Len(response.actions)
BY DEF IInv, TypeOK, ResultsPair, InHand

\* Where the loop is in TaskSteps.
Staged ==
  /\ pc \in {"starting", "capturing"} => Stage = "looking" /\ StepsDone = 0 /\ Undone = 0
  /\ pc = "asking" => Stage = "asking" /\ StepsDone = 0 /\ Undone = 0
  /\ pc = "deciding" => Stage = "asking" /\ StepsDone = step - 1 /\ Undone = 0
  /\ pc = "continuing" => Stage = "asking" /\ StepsDone = step /\ Undone = 0
  /\ pc \in InHand => /\ Stage = "acting" /\ StepsDone = step - 1
                      /\ Undone = Len(response.actions) - Len(results)
  /\ pc \in {"failed"} \cup Over => Stage = "over" /\ StepsDone = 0 /\ Undone = 0

LEMMA Stages == Staged /\ Staged'
BY DEF Staged, Stage, StepsDone, Undone, InHand, Over

\* The loop stays where it is in TaskSteps.
LEMMA StageStays ==
  ASSUME UNCHANGED << step, response, results >>,
         \/ pc' = pc
         \/ pc \in {"starting", "capturing"} /\ pc' \in {"starting", "capturing"}
         \/ pc \in InHand /\ pc' \in InHand
         \/ pc \in {"failed"} \cup Over /\ pc' \in {"failed"} \cup Over
  PROVE  UNCHANGED << Stage, StepsDone, Undone >>
<1>1. CASE pc' = pc
  BY <1>1 DEF Stage, StepsDone, Undone
<1>2. CASE pc' # pc
  BY <1>2, Stages DEF Staged
<1> QED
  BY <1>1, <1>2

\* The loop is over, for TaskSteps.
LEMMA StageEnds ==
  ASSUME pc \in Locations \ ({"failed"} \cup Over), pc' \in {"failed"} \cup Over
  PROVE  Cycle!Next
<1>1. Stage # "over"
  BY Stages DEF Staged, Locations, InHand, Over
<1>2. Stage' = "over" /\ StepsDone' = 0 /\ Undone' = 0
  BY Stages DEF Staged
<1> QED
  BY <1>1, <1>2 DEF Cycle!Next, Cycle!End

\* Every step of the loop is one of TaskSteps, or none of them.
LEMMA CycleStep ==
  ASSUME IInv, [Next]_vars
  PROVE  [Cycle!Next]_<< Stage, StepsDone, Undone >>
<1>1. /\ step \in 0 .. MaxSteps + 1 /\ MaxSteps \in Nat
      /\ pc \in Before => step = 0
      /\ pc \in InHand \cup {"continuing"} => step \in 1 .. MaxSteps
      /\ pc = "deciding" => step > 0
  BY LoopAssumption DEF IInv, TypeOK, StepsCounted
<1>2. ASSUME pc \in Locations \ ({"failed"} \cup Over), pc' = "closing"  PROVE Cycle!Next
  BY <1>2, StageEnds DEF Over
<1>3. CASE Prologue
  <2>1. CASE InitialCaptured
    <3>1. pc = "capturing" /\ pc' = "asking"
      BY <2>1 DEF InitialCaptured, Go
    <3> QED
      BY <3>1, Stages DEF Staged, Cycle!Next, Cycle!Show
  <2>2. CASE InitialFailed
    BY <2>2, StageEnds DEF InitialFailed, Locations, Over
  <2>3. CASE Begin \/ FailedClose
    BY <2>3, StageStays DEF Begin, FailedClose, Go, asking, Over
  <2>4. CASE InitialResponse
    <3>1. pc = "asking" /\ pc' = "deciding" /\ step' = 1
      BY <2>4 DEF InitialResponse, Go
    <3> QED
      BY <3>1, Stages DEF Staged
  <2> QED
    BY <1>3, <2>1, <2>2, <2>3, <2>4 DEF Prologue
<1>4. CASE Decide
  <2>1. CASE CallTool /\ pc' # "closing"
    <3>1. pc = "deciding" /\ pc' = "acting" /\ step \in 1 .. MaxSteps /\ step' = step
      BY <1>1, <2>1 DEF CallTool, Finish, Go
    <3>2. Len(response'.actions) \in Nat \ {0} /\ results' = << >>
      <4>1. response.actions \in Seq(Actions) /\ response.actions # << >>
        BY <2>1 DEF CallTool, IInv, TypeOK
      <4>2. response'.actions = Assisted(response.actions)
        BY <2>1 DEF CallTool, IInv, TypeOK
      <4> QED
        BY <2>1, <4>1, <4>2 DEF CallTool, ResetStep, Assisted
    <3>3. Undone' \in Nat \ {0}
      BY <3>1, <3>2, Stages DEF Staged, InHand
    <3> QED
      BY <3>1, <3>3, Stages, <1>1 DEF Staged, InHand, Cycle!Next, Cycle!Take
  <2>2. CASE pc' = "closing"
    <3>1. pc = "deciding"
      BY <1>4 DEF Decide, LimitReached, StepInterrupted, TimedOut, Completed, CallTool
    <3> QED
      BY <1>2, <2>2, <3>1 DEF Locations, Over
  <2> QED
    BY <1>4, <2>1, <2>2 DEF Decide, LimitReached, StepInterrupted, TimedOut, Completed, Finish
<1>5. CASE Act
  <2>1. CASE ActionInterrupted
    BY <1>2, <2>1 DEF ActionInterrupted, Finish, Locations, Over
  <2>2. CASE ActionStarts
    BY <2>2, StageStays DEF ActionStarts, Go, asking, InHand
  <2>3. CASE ActionRefused \/ ActionExecuted
    <3>1. /\ pc \in {"acting", "executing"} /\ pc' = "acting"
          /\ UNCHANGED << step, response >>
          /\ Len(results) < Len(response.actions)
      BY <2>3, UndoneType DEF ActionRefused, ActionExecuted, ActionsLeft, Go
    <3>2. Len(results') = Len(results) + 1
      BY <2>3 DEF ActionRefused, ActionExecuted, IInv, TypeOK
    <3>3. Undone > 0 /\ Undone' = Undone - 1
      BY <3>1, <3>2, UndoneType, Stages DEF Staged, InHand
    <3> QED
      BY <3>1, <3>3, Stages DEF Staged, InHand, Cycle!Next, Cycle!DealWith
  <2> QED
    BY <1>5, <2>1, <2>2, <2>3 DEF Act
<1>6. CASE Observe
  <2>1. CASE Settle \/ Settled
    BY <2>1, StageStays DEF Settle, Settled, Go, asking, InHand
  <2>2. CASE SettleInterrupted \/ ScreenshotFailed
    BY <1>2, <2>2 DEF SettleInterrupted, ScreenshotFailed, Finish, Locations, Over
  <2>3. CASE ScreenshotTaken
    <3>1. pc = "shooting" /\ pc' \in {"closing", "continuing"} /\ step' = step
      BY <2>3 DEF ScreenshotTaken, Finish, Go, asking
    <3>2. CASE pc' = "closing"
      BY <1>2, <3>1, <3>2 DEF Locations, Over
    <3>3. CASE pc' = "continuing"
      <4>1. step \in 1 .. MaxSteps /\ Undone = 0
        BY <1>1, <3>1, UndoneType, Stages DEF Staged, InHand
      <4> QED
        BY <3>1, <3>3, <4>1, Stages DEF Staged, InHand, Cycle!Next, Cycle!ShowOutcome
    <3> QED
      BY <3>1, <3>2, <3>3
  <2> QED
    BY <1>6, <2>1, <2>2, <2>3 DEF Observe
<1>7. CASE Ask
  <2>1. CASE Continued
    <3>1. pc = "continuing" /\ pc' = "deciding" /\ step' = step + 1
      BY <2>1 DEF Continued, Go
    <3> QED
      BY <1>1, <3>1, Stages DEF Staged
  <2>2. CASE ContinueFailed
    BY <1>2, <2>2 DEF ContinueFailed, Finish, Locations, Over
  <2> QED
    BY <1>7, <2>1, <2>2 DEF Ask
<1>8. CASE Close \/ RaiseFlag \/ UNCHANGED vars
  BY <1>8, StageStays DEF Close, RaiseFlag, vars, asking, Over
<1>9. CASE Abort
  <2>1. CASE pc \in {"failed", "closing"}
    BY <1>9, <2>1, StageStays DEF Abort, AbortLoop, AbortInitialCall, AbortOutsideTry, asking, Over
  <2>2. CASE pc \notin {"failed", "closing"}
    BY <1>9, <2>2, StageEnds DEF Abort, AbortLoop, AbortInitialCall, AbortOutsideTry, Locations, Over
  <2> QED
    BY <2>1, <2>2
<1> QED
  BY <1>3, <1>4, <1>5, <1>6, <1>7, <1>8, <1>9 DEF Next, Run

\* The loop deals with all actions of a response before it asks for the next, and acts on
\* no more than MaxSteps responses.
THEOREM ImplementsTaskSteps == Spec => StepByStep
<1>1. Init => Cycle!Init
  BY DEF Init, Cycle!Init, Stage, StepsDone, Undone
<1>2. IInv /\ [Next]_vars => [Cycle!Next]_<< Stage, StepsDone, Undone >>
  BY CycleStep
<1> QED
  BY <1>1, <1>2, InitInv, StepInv, PTL DEF Spec, StepByStep, Cycle!Spec
=============================================================================
