-------------------------- MODULE NormalizeActions --------------------------
(***************************************************************************)
(* What becomes of the actions a model asks for (backend/app/llm/          *)
(* normalize.py, schemas/actions.py): the spellings of a point, the        *)
(* defaults and the validation of one action, and the three passes over    *)
(* the list: pairs are compacted, double clicks on the panel become single *)
(* ones, and Return is pressed after a typed URL.                          *)
(*                                                                         *)
(* Texts and keys are members of a small set.  A number is a record: its   *)
(* value in hundredths and whether it is a Python float, since only a      *)
(* float between 0 and 1 is a fraction of the display.                     *)
(***************************************************************************)
EXTENDS Integers, Sequences, FiniteSets, SequencesExt

CONSTANTS
  Width, Height,  \* settings.display_width, display_height
  PanelHeight,    \* the panel's part of the display, in pixels (90)
  PanelReach      \* half the width of the launchers (250)

ASSUME DisplayAssumption ==
  /\ Width \in Nat \ {0} /\ Height \in Nat \ {0}
  /\ PanelHeight \in Nat /\ PanelReach \in Nat

Types == {"click", "double_click", "right_click", "move", "drag", "type",
          "keypress", "scroll", "wait", "screenshot", "cursor_position"}
PointTypes == {"click", "double_click", "right_click", "move", "scroll"}
Compactable == {"click", "double_click", "right_click", "move", "type", "keypress"}

\* A validated action.  at (none or one) and path hold whole points; arg is the text of "type",
\* the keys of "keypress", the time of "wait", the distance of "scroll".
Texts == {"none", "url", "word"}
Keys == {"none", "Return", "Tab"}
Durations == {"none", "0", "500", "30000"}
Distances == {"none", "0", "1", "5"}
Buttons == {"none", "left", "right"}
Points == Int \X Int
Actions == [type : Types, at : Seq(Points), button : Buttons,
            arg : Texts \cup Keys \cup Durations \cup Distances, path : Seq(Points)]

\* A raw one, in the model's own words: its type need not be one of Types, and its
\* places are lists of numbers, of any length.
Numbers == [v : Int, float : BOOLEAN]
RawActions == [type : STRING, x : Seq(Numbers), y : Seq(Numbers), box : Seq(Numbers),
               point : Seq(Numbers), button : Buttons,
               arg : Texts \cup Keys \cup Durations \cup Distances, path : Seq(Points)]

Whole(n) == [v |-> 100 * n, float |-> FALSE]

\* Python's round() of n / d: half goes to the even neighbour.
Round(n, d) ==
  LET up == 2 * (n % d) > d \/ (2 * (n % d) = d /\ (n \div d) % 2 = 1)
  IN n \div d + (IF up THEN 1 ELSE 0)

Rounded(v) == Round(v, 100)
Middle(a, b) == Round(a + b, 200)

\* _coerce_scalar of a list: every item is rounded before the middle is taken.
CoerceScalar(nums) ==
  LET n(i) == 100 * Rounded(nums[i].v)
  IN IF Len(nums) = 4 THEN Middle(n(1), n(3)) ELSE Middle(n(1), n(2))

\* A raw action: x and y are << >>, one number or a list of 2 or 4; box and point
\* are << >> or a list of numbers, whatever name the model gives them.
RawPoints(raw) ==
  CASE raw.y = << >> /\ Len(raw.x) >= 2 -> << << Rounded(raw.x[1].v), Rounded(raw.x[2].v) >> >>
    [] raw.x = << >> /\ Len(raw.y) >= 2 -> << << Rounded(raw.y[1].v), Rounded(raw.y[2].v) >> >>
    [] Len(raw.box) = 2 -> << << Rounded(raw.box[1].v), Rounded(raw.box[2].v) >> >>
    [] Len(raw.box) = 4 -> << << Middle(raw.box[1].v, raw.box[3].v),
                                 Middle(raw.box[2].v, raw.box[4].v) >> >>
    [] Len(raw.point) >= 2 -> << << Rounded(raw.point[1].v), Rounded(raw.point[2].v) >> >>
    [] OTHER -> << >>

\* Defect: a fraction is scaled by the size instead of the last pixel.
CoordinateBySize(nums, size) ==
  IF Len(nums) # 1 THEN CoerceScalar(nums)
  ELSE IF nums[1].float /\ nums[1].v \in 0 .. 100 THEN Round(nums[1].v * size, 100)
  ELSE Rounded(nums[1].v)

\* One axis: a list is brought to its middle, a fraction scaled, a float rounded.
Coordinate(nums, size) ==
  IF Len(nums) # 1 THEN CoerceScalar(nums)
  ELSE IF nums[1].float /\ nums[1].v \in 0 .. 100 THEN Round(nums[1].v * (size - 1), 100)
  ELSE Rounded(nums[1].v)

\* The point replaces x and y where one of them is missing or a list.
Place(raw) ==
  IF RawPoints(raw) # << >> /\ (Len(raw.x) # 1 \/ Len(raw.y) # 1) THEN RawPoints(raw)
  ELSE IF raw.x # << >> /\ raw.y # << >>
  THEN << << Coordinate(raw.x, Width), Coordinate(raw.y, Height) >> >>
  ELSE << >>

Default(raw) ==
  CASE raw.type = "scroll" /\ raw.arg = "none" -> "1"
    [] raw.type = "wait" /\ raw.arg = "none" -> "500"
    [] OTHER -> raw.arg

NormalizeAction(raw) ==
  [type |-> raw.type, at |-> Place(raw), button |-> raw.button,
   arg |-> Default(raw), path |-> raw.path]

\* Action(...): its field bounds and _validate_payload.
Valid(a) ==
  /\ a.type \in Types
  /\ a.type \in PointTypes => a.at # << >>
  /\ a.at # << >> => a.at[1][1] >= 0 /\ a.at[1][2] >= 0
  /\ a.type = "drag" => Len(a.path) >= 2
  /\ \A i \in DOMAIN a.path : a.path[i][1] >= 0 /\ a.path[i][2] >= 0
  /\ a.type \in {"type", "keypress"} => a.arg # "none"

OnDisplay(p) == p[1] \in 0 .. Width - 1 /\ p[2] \in 0 .. Height - 1

\* ensure_within_display
WithinDisplay(a) ==
  /\ a.at # << >> => OnDisplay(a.at[1])
  /\ \A i \in DOMAIN a.path : OnDisplay(a.path[i])
----------------------------------------------------------------------------
LeftClick(a) == a.type = "click" /\ a.button \in {"none", "left"}

ClickPair(a, b) == LeftClick(a) /\ LeftClick(b) /\ a.at = b.at

DoubleClick(at) == [type |-> "double_click", at |-> at, button |-> "none", arg |-> "none", path |-> << >>]

Duplicate(a, b) == a.type \in Compactable /\ a = b

\* What stands for the action at i and, where they pair up, the next one.
Given(q, i) ==
  IF i < Len(q) /\ ClickPair(q[i], q[i + 1]) THEN DoubleClick(q[i].at) ELSE q[i]

\* Defect: the second click of a pair is looked at again.
TakenOverlapping(q, i) ==
  IF i < Len(q) /\ ~LeftClick(q[i]) /\ Duplicate(q[i], q[i + 1]) THEN 2 ELSE 1

Taken(q, i) ==
  IF i < Len(q) /\ (ClickPair(q[i], q[i + 1]) \/ Duplicate(q[i], q[i + 1])) THEN 2 ELSE 1

\* _compact_duplicate_clicks: one pass over the list, pairs do not overlap.
Compacted(q) ==
  LET from[i \in 1 .. Len(q) + 2] ==
        IF i > Len(q) THEN << >> ELSE << Given(q, i) >> \o from[i + Taken(q, i)]
  IN from[1]

\* Where the panel's launchers are.
OnLaunchers(p) ==
  LET top == IF Height > PanelHeight THEN Height - PanelHeight ELSE 0
      center == Width \div 2
  IN p[2] \in top .. Height - 1 /\ p[1] \in center - PanelReach .. center + PanelReach

\* _normalize_panel_launcher_clicks
SingleClickOnPanel(q) ==
  [i \in DOMAIN q |->
     IF q[i].type = "double_click" /\ OnLaunchers(q[i].at[1])
     THEN [type |-> "click", at |-> q[i].at, button |-> q[i].button, arg |-> "none", path |-> << >>]
     ELSE q[i]]

PressReturn == [type |-> "keypress", at |-> << >>, button |-> "none", arg |-> "Return", path |-> << >>]

TypesUrl(a) == a.type = "type" /\ a.arg = "url"
PressesReturn(a) == a.type = "keypress" /\ a.arg = "Return"

\* _append_return_after_url_type
ReturnAfterUrl(q) ==
  FlattenSeq([i \in DOMAIN q |->
    IF TypesUrl(q[i]) /\ ~(i < Len(q) /\ PressesReturn(q[i + 1]))
    THEN << q[i], PressReturn >> ELSE << q[i] >>])

Cleaned(raws) == [i \in DOMAIN raws |-> NormalizeAction(raws[i])]

\* One invalid action fails the whole list.
AllValid(raws) == \A i \in DOMAIN raws : Valid(Cleaned(raws)[i])

Normalized(raws) == ReturnAfterUrl(SingleClickOnPanel(Compacted(Cleaned(raws))))
----------------------------------------------------------------------------
(* What the passes must keep, said without them.                            *)

\* What an action is for: a double click is for its place, like a click.
Meant(a) ==
  IF LeftClick(a) \/ a.type = "double_click" THEN << "press", a.at >> ELSE << a >>

\* What an action adds in front of what the rest of its list is for: nothing where that
\* begins with the same, and a Return right after a URL belongs to the URL.
Adds(a, rest) ==
  LET r == IF TypesUrl(a) /\ rest # << >> /\ rest[1] = Meant(PressReturn) THEN Tail(rest) ELSE rest
  IN IF r # << >> /\ r[1] = Meant(a) THEN r ELSE << Meant(a) >> \o r

\* What the list is for, without repetitions.
Purpose(q) ==
  LET from[i \in 1 .. Len(q) + 1] == IF i > Len(q) THEN << >> ELSE Adds(q[i], from[i + 1])
  IN from[1]

\* How often the left button is pressed at a place.
Presses(q, at) ==
  Cardinality({ i \in DOMAIN q : q[i].at = at /\ LeftClick(q[i]) })
    + 2 * Cardinality({ i \in DOMAIN q : q[i].at = at /\ q[i].type = "double_click" })

\* A double click is done with the left button, whatever button it names; the panel's
\* single click is done with the one it names.
NamesOtherButton(a) == a.type = "double_click" /\ a.button = "right" /\ OnLaunchers(a.at[1])

\* The passes drop repetitions only: what the list is for stays, in its order, and the
\* clicks asked for at a place outside the panel are all made, in pairs where they come
\* in pairs; a double click is never invented from clicks at different places.
KeepsMeaning(raws, q) ==
  LET given == Cleaned(raws) IN
    /\ (\A i \in DOMAIN given : ~NamesOtherButton(given[i])) => Purpose(q) = Purpose(given)
    /\ \A i \in DOMAIN given :
         (/\ LeftClick(given[i]) /\ ~OnLaunchers(given[i].at[1])
          /\ \A j \in DOMAIN given : given[j].type = "double_click" => given[j].at # given[i].at)
            => Presses(q, given[i].at) = Presses(given, given[i].at)
=============================================================================
