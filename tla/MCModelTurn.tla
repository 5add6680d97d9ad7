---------------------------- MODULE MCModelTurn ----------------------------
(* A display of 8 by 6 pixels, and what a model says on it.                 *)
EXTENDS ModelTurn

Raw(type, x, y, arg) ==
  [type |-> type, x |-> x, y |-> y, box |-> << >>, point |-> << >>, button |-> "none",
   arg |-> arg, path |-> << >>]

N(n) == << Whole(n) >>
F(v) == << [v |-> v, float |-> TRUE] >>

PageClick == Raw("click", N(1), N(1), "none")
CornerClick == Raw("click", F(100), F(50), "none")
PanelDouble == Raw("double_click", N(4), N(5), "none")
PanelDoubleRight == [PanelDouble EXCEPT !.button = "right"]
PageDouble == Raw("double_click", N(6), N(1), "none")
BoxClick == [Raw("click", << >>, << >>, "none") EXCEPT
               !.box = << Whole(0), Whole(1), Whole(3), Whole(1) >>]
OutsideClick == Raw("click", N(8), N(1), "none")
NowhereClick == Raw("click", N(1), << >>, "none")
TypeUrl == Raw("type", << >>, << >>, "url")
PressEnter == Raw("keypress", << >>, << >>, "Return")
WaitNothing == Raw("wait", << >>, << >>, "0")
Drag == [Raw("drag", << >>, << >>, "none") EXCEPT !.path = << <<1, 1>>, <<2, 2>> >>]
Look == Raw("screenshot", << >>, << >>, "none")

Lists ==
  { << a, b >> : a, b \in { PageClick, CornerClick, TypeUrl, PressEnter } }
    \cup { << a >> : a \in { PageClick, CornerClick, BoxClick, PanelDouble, OutsideClick,
                            NowhereClick, WaitNothing, TypeUrl } }
    \cup { << PageClick, PageClick, PageClick >>,
           << PageClick, PageClick, PageClick, PageClick >>,
           << TypeUrl, PressEnter, PressEnter >>,
           << TypeUrl, TypeUrl, TypeUrl >>,
           << PageDouble, PageDouble, PageClick >>,
           << PanelDoubleRight >>,
           << PanelDouble, OutsideClick >> }

Called(raws) == [id |-> TRUE, raws |-> raws]
Message == [calls |-> << >>, text |-> TRUE]
Silence == [calls |-> << >>, text |-> FALSE]
Calling(raws) == [calls |-> << Called(raws) >>, text |-> FALSE]
CallingTwice == [calls |-> << Called(<< Look >>), Called(<< Drag >>) >>, text |-> TRUE]
CallingAnonymously == [calls |-> << [id |-> FALSE, raws |-> << Look >>] >>, text |-> FALSE]

\* At first anything; later on little more than what reaches the desktop.
Answers1(n) ==
  IF n = 1 THEN { Calling(q) : q \in Lists } \cup { CallingTwice, CallingAnonymously, Message, Silence }
  ELSE { Calling(<< PanelDouble >>), Calling(<< Drag >>) }
=============================================================================
