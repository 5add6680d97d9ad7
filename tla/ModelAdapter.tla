---------------------------- MODULE ModelAdapter ----------------------------
(***************************************************************************)
(* The LLM adapters (backend/app/llm): how a turn becomes a request to the *)
(* Responses endpoint, the one retry of a request that timed out, and how  *)
(* the answer becomes an AgentResponse.  build_adapter chooses one of      *)
(* three for a task:                                                       *)
(*   "function" and "openai" continue the previous response by its id and  *)
(*   answer its call; the server keeps the conversation ("text" is the     *)
(*   function adapter with llm_supports_vision off);                       *)
(*   "manual" sends its own bounded history each time.                     *)
(* The mock adapter answers by itself: a screenshot, then a message.       *)
(*                                                                         *)
(* The model server is external: any answer, error status, or silence.     *)
(***************************************************************************)
EXTENDS NormalizeActions

CONSTANTS
  ModelAnswers(_),  \* the answers the server may give to the n-th request of a task
  Window            \* settings.llm_history_window

ASSUME WindowAssumption == Window \in 2 .. 64

VARIABLES
  mode,      \* the adapter of this task
  history,   \* _history[session_id] of the manual adapter
  request,   \* the body being sent
  attempt,   \* how often it has been posted
  call,      \* "none", "sending", "posted", and then "answered" or "failed"
  answers,   \* how many answers were received: the ids of the responses
  response,  \* the AgentResponse the loop is acting on
  asked      \* its raw actions (a history variable)

adapter == << mode, history, request, attempt, call, answers, response, asked >>

Modes == {"function", "text", "openai", "manual", "mock"}

\* What a request says: the instruction (step 0), the results of a step (fed back as
\* text), its picture, or that some action failed.
Saying(role, what, step) == [role |-> role, what |-> what, step |-> step]
Entries == [role : {"user", "assistant", "tool"},
            what : {"instruction", "feedback", "picture", "failure"}, step : Nat]

NoRequest == [previous |-> 0, call |-> 0, input |-> << >>]

\* An answer of the server: its calls, each with or without an id, its raw actions,
\* and whether there is text.  Arguments that are no JSON carry no actions.
ServerAnswers == [calls : Seq([id : BOOLEAN, raws : Seq(RawActions)]), text : BOOLEAN]

\* The response before the first one.
NoResponse == [id |-> 0, stop |-> "error", call |-> 0, calls |-> 0, actions |-> << >>]

AdapterInit ==
  /\ mode \in Modes
  /\ history = << >>
  /\ request = NoRequest
  /\ attempt = 0
  /\ call = "none"
  /\ answers = 0
  /\ response = NoResponse
  /\ asked = << >>
----------------------------------------------------------------------------
\* Defect: the deque has no bound.
RememberAll(h, entry) == Append(h, entry)

\* deque(maxlen=llm_history_window).append
Remember(h, entry) ==
  IF Len(h) < Window THEN Append(h, entry) ELSE Append(Tail(h), entry)

\* _send; the actions of the response before are not used again.
Send(body) ==
  /\ request' = body
  /\ attempt' = 0
  /\ call' = "sending"
  /\ response' = [response EXCEPT !.actions = << >>]
  /\ asked' = << >>
  /\ UNCHANGED << mode, answers >>

\* create_initial_response
CreateInitial ==
  LET instruction == Saying("user", "instruction", 0) IN
    /\ mode # "mock"
    /\ Send([NoRequest EXCEPT !.input = << instruction >>])
    /\ history' = IF mode = "manual" THEN << instruction >> ELSE history

\* continue_after_actions of the function adapter.
ContinueFunction(step) ==
  /\ mode \in {"function", "text"} /\ response.call # 0
  /\ Send([previous |-> response.id, call |-> response.call,
           input |-> << Saying("tool", "feedback", step) >>
                     \o IF mode = "function" THEN << Saying("user", "picture", step) >> ELSE << >>])
  /\ UNCHANGED history

\* ... of the OpenAI adapter: the picture answers the call, words only when an
\* action failed or the screen did not change.
ContinueOpenAI(step, failed, changed) ==
  /\ mode = "openai" /\ response.call # 0
  /\ Send([previous |-> response.id, call |-> response.call,
           input |-> << Saying("tool", "picture", step) >>
                     \o (IF failed THEN << Saying("user", "failure", step) >> ELSE << >>)
                     \o (IF changed THEN << >> ELSE << Saying("user", "feedback", step) >>)])
  /\ UNCHANGED history

\* ... of the stateless adapter.
ContinueManual(step) ==
  /\ mode = "manual"
  /\ history' = Remember(Remember(history, Saying("assistant", "feedback", step)),
                         Saying("user", "picture", step))
  /\ Send([NoRequest EXCEPT !.input = history'])

\* "previous response has no call id": RuntimeError before anything is sent.
ContinueWithoutCall ==
  /\ mode \in {"function", "text", "openai"} /\ response.call = 0
  /\ call' = "failed"
  /\ UNCHANGED << mode, history, request, attempt, answers, response, asked >>

Continue(step, failed, changed) ==
  \/ ContinueFunction(step)
  \/ ContinueOpenAI(step, failed, changed)
  \/ ContinueManual(step)
  \/ ContinueWithoutCall
----------------------------------------------------------------------------
PostResponses ==
  /\ call = "sending"
  /\ attempt' = attempt + 1
  /\ call' = "posted"
  /\ UNCHANGED << mode, history, request, answers, response, asked >>

\* Defect: a request that timed out is sent again for as long as it takes.
RetryForever ==
  /\ call = "posted"
  /\ call' = "sending"
  /\ attempt' = 0
  /\ UNCHANGED << mode, history, request, answers, response, asked >>

\* ReadTimeout of the first post: sleep a second and post the same body again.  The
\* server may still answer the first one, to nobody.
Retry ==
  /\ call = "posted" /\ attempt = 1
  /\ call' = "sending"
  /\ UNCHANGED << mode, history, request, attempt, answers, response, asked >>

\* ReadTimeout of the second; a status of 400 or more; no connection; no JSON.
PostFails ==
  /\ call = "posted"
  /\ call' = "failed"
  /\ UNCHANGED << mode, history, request, attempt, answers, response, asked >>

AllActions(calls) == FlattenSeq([i \in DOMAIN calls |-> calls[i].raws])

\* Defect: the first call's id is kept.
LastCallIsFirst(calls) == IF calls = << >> \/ ~calls[1].id THEN 0 ELSE 1

\* raw_call_id: each call of the output overwrites it.
LastCall(calls) == IF calls = << >> \/ ~Last(calls).id THEN 0 ELSE Len(calls)

\* parse_function_response, _parse_response
Parsed(answer) ==
  LET actions == Normalized(AllActions(answer.calls)) IN
     [id |-> answers + 1,
      stop |-> IF actions # << >> THEN "actions" ELSE IF answer.text THEN "message" ELSE "error",
      call |-> LastCall(answer.calls), calls |-> Len(answer.calls), actions |-> actions]

\* The answer is there in time.
Answered ==
  /\ call = "posted"
  /\ \E answer \in ModelAnswers(answers + 1) :
       /\ AllValid(AllActions(answer.calls))
       /\ response' = Parsed(answer)
       /\ asked' = AllActions(answer.calls)
  /\ answers' = answers + 1
  /\ call' = "answered"
  /\ UNCHANGED << mode, history, request, attempt >>

\* normalize_actions raises ValueError: the whole answer is lost.
AnswerInvalid ==
  /\ call = "posted"
  /\ \E answer \in ModelAnswers(answers + 1) : ~AllValid(AllActions(answer.calls))
  /\ call' = "failed"
  /\ UNCHANGED << mode, history, request, attempt, answers, response, asked >>

\* MockComputerAdapter: first a screenshot, then a message.
MockAnswers(first) ==
  /\ mode = "mock"
  /\ LET actions == IF first THEN << [DoubleClick(<< >>) EXCEPT !.type = "screenshot"] >>
                    ELSE << >>
     IN response' = [id |-> answers + 1, stop |-> IF first THEN "actions" ELSE "message",
                     call |-> IF first THEN 1 ELSE 0, calls |-> IF first THEN 1 ELSE 0,
                     actions |-> actions]
  /\ answers' = answers + 1
  /\ call' = "answered"
  /\ UNCHANGED << mode, history, request, attempt, asked >>

Adapter == PostResponses \/ Retry \/ PostFails \/ Answered \/ AnswerInvalid
----------------------------------------------------------------------------
AdapterTypeOK ==
  /\ mode \in Modes
  /\ history \in Seq(Entries) /\ Len(history) <= Window
  /\ request.input \in Seq(Entries)
  /\ request.previous \in 0 .. answers
  /\ attempt \in 0 .. 2
  /\ call \in {"none", "sending", "posted", "answered", "failed"}
  /\ answers \in Nat
  /\ response.stop \in {"actions", "message", "error"}
  /\ response.call \in 0 .. response.calls
  /\ response.actions \in Seq(Actions)
=============================================================================
