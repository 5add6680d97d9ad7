----------------------------- MODULE TaskSteps -----------------------------
(***************************************************************************)
(* What one agent task does, step by step: it looks at the screen, shows   *)
(* the model what it saw, and takes a list of actions from it; it deals    *)
(* with each of them, shows the model what came of all, and so on for at   *)
(* most MaxSteps lists.  It may be over at any time.                       *)
(***************************************************************************)
EXTENDS Naturals

CONSTANT MaxSteps

VARIABLES
  stage,  \* "looking" for the first time, "asking" the model, "acting", "over"
  done,   \* how many lists were dealt with and their outcome shown
  todo    \* how many actions of the list in hand are not dealt with

Init == stage = "looking" /\ done = 0 /\ todo = 0

Show == stage = "looking" /\ stage' = "asking" /\ UNCHANGED << done, todo >>

Take ==
  /\ stage = "asking" /\ done < MaxSteps
  /\ stage' = "acting"
  /\ todo' \in Nat \ {0}
  /\ UNCHANGED done

DealWith ==
  /\ stage = "acting" /\ todo > 0
  /\ todo' = todo - 1
  /\ UNCHANGED << stage, done >>

ShowOutcome ==
  /\ stage = "acting" /\ todo = 0
  /\ stage' = "asking"
  /\ done' = done + 1
  /\ UNCHANGED todo

\* Nothing is left of it but that it is over.
End == stage # "over" /\ stage' = "over" /\ done' = 0 /\ todo' = 0

Next == Show \/ Take \/ DealWith \/ ShowOutcome \/ End

Spec == Init /\ [][Next]_<< stage, done, todo >>
=============================================================================
