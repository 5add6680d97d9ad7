------------------------ MODULE NormalizeActionsProofs ------------------------
(***************************************************************************)
(* Proofs about normalize_actions: for every list of raw actions it does not *)
(* refuse, what it returns is a list of validated actions (NormalizedType), *)
(* and its passes drop repetitions only (MeaningIsKept).  ModelTurnProofs  *)
(* builds on both.                                                         *)
(*                                                                         *)
(* FlattenSeq, Compacted and Purpose are defined by recursion over a list. *)
(* The facts are proved by an induction that needs no theorem with an      *)
(* operator as parameter: SetInduction, over a set, from the well-         *)
(* foundedness of the strict-subset ordering of a finite set.              *)
(*                                                                         *)
(* A pass over a list stays within every congruence of lists that takes    *)
(* for the same what the pass changes at one place.  MeaningIsKept is this *)
(* for two congruences: to be for the same, and to press the button as     *)
(* often at a place.                                                       *)
(***************************************************************************)
EXTENDS NormalizeActions, SequenceTheorems, FiniteSetTheorems, TLAPS

\* Induction over the natural numbers, for a set in place of a property: of the
\* intervals 0 .. i that end outside the set there is no smallest one.
LEMMA SetInduction ==
  ASSUME NEW S, 0 \in S, \A n \in Nat : n \in S => n + 1 \in S
  PROVE  Nat \subseteq S
<1> SUFFICES ASSUME NEW n \in Nat, n \notin S  PROVE FALSE
  OBVIOUS
<1> DEFINE All == 0 .. n
           Starts == { 0 .. i : i \in { j \in 0 .. n : j \notin S } }
<1>1. IsWellFoundedOn(StrictSubsetOrdering(All), SUBSET All)
  <2>1. IsFiniteSet(All)
    BY FS_Interval
  <2> QED
    BY <2>1, FS_StrictSubsetOrderingWellFounded, FS_FiniteSubsetsOfFinite
<1>2. Starts \subseteq SUBSET All /\ Starts # {}
  OBVIOUS
<1>3. PICK x \in Starts : \A y \in Starts : << y, x >> \notin StrictSubsetOrdering(All)
  <2> HIDE DEF All, Starts
  <2> QED
    BY <1>1, <1>2, WFMin
<1>4. PICK i \in 0 .. n : i \notin S /\ x = 0 .. i
  OBVIOUS
<1>5. i - 1 \in 0 .. n /\ i - 1 \notin S
  BY <1>4
<1>6. 0 .. i - 1 \subseteq 0 .. i /\ i \in 0 .. i /\ i \notin 0 .. i - 1
  BY <1>5
<1>7. << 0 .. i - 1, 0 .. i >> \in StrictSubsetOrdering(All)
  BY <1>2, <1>4, <1>5, <1>6 DEF StrictSubsetOrdering
<1> QED
  BY <1>3, <1>4, <1>5, <1>7

\* Induction from the end of a list.
LEMMA BackwardInduction ==
  ASSUME NEW m \in Nat, NEW T,
         \A i \in 1 .. m : (\A j \in i + 1 .. m : j \in T) => i \in T
  PROVE  1 .. m \subseteq T
<1> DEFINE K == { k \in Nat : \A i \in 1 .. m : i > m - k => i \in T }
<1>1. 0 \in K
  OBVIOUS
<1>2. ASSUME NEW k \in Nat, k \in K  PROVE k + 1 \in K
  <2> SUFFICES ASSUME NEW i \in 1 .. m, i > m - (k + 1)  PROVE i \in T
    OBVIOUS
  <2>1. \A j \in i + 1 .. m : j \in T
    BY <1>2
  <2> QED
    BY <2>1
<1>3. Nat \subseteq K
  <2> HIDE DEF K
  <2> QED
    BY <1>1, <1>2, SetInduction
<1> QED
  BY <1>3

\* The function that the library's definition of FlattenSeq chooses exists: it appends
\* one list after the other.
LEMMA FlattenUnfolds ==
  ASSUME NEW S, NEW seqs \in Seq(Seq(S)), Len(seqs) # 0
  PROVE  \E f \in [1 .. Len(seqs) -> Seq(S)] :
           /\ f[Len(seqs)] = FlattenSeq(seqs)
           /\ \A i \in 1 .. Len(seqs) : f[i] = IF i = 1 THEN seqs[i] ELSE f[i - 1] \o seqs[i]
<1> DEFINE n == Len(seqs)
           Rec(f, i) == IF i = 1 THEN seqs[i] ELSE f[i - 1] \o seqs[i]
           flatten == CHOOSE f : f = [i \in 1 .. n |-> Rec(f, i)]
<1>1. n \in Nat /\ \A i \in 1 .. n : seqs[i] \in Seq(S)
  OBVIOUS
<1>2. FlattenSeq(seqs) = flatten[n]
  BY DEF FlattenSeq
<1>3. \E f : f = [i \in 1 .. n |-> Rec(f, i)]
  <2> DEFINE Solves(f, k) == f \in [1 .. k -> Seq(S)] /\ \A i \in 1 .. k : f[i] = Rec(f, i)
             K == { k \in Nat : k <= n => \E f : Solves(f, k) }
  <2>1. 0 \in K
    <3>1. Solves([i \in 1 .. 0 |-> << >>], 0)
      OBVIOUS
    <3> QED
      BY <3>1
  <2>2. ASSUME NEW k \in Nat, k \in K  PROVE k + 1 \in K
    <3> SUFFICES ASSUME k + 1 <= n  PROVE \E g : Solves(g, k + 1)
      <4> HIDE DEF Solves
      <4> QED
        OBVIOUS
    <3>1. PICK f : Solves(f, k)
      <4> HIDE DEF Solves
      <4> QED
        BY <2>2, <1>1
    <3> DEFINE g == [i \in 1 .. k + 1 |-> IF i <= k THEN f[i] ELSE Rec(f, i)]
    <3>2. Rec(f, k + 1) \in Seq(S)
      <4>1. k + 1 \in 1 .. n /\ seqs[k + 1] \in Seq(S)
        BY <1>1
      <4>2. k + 1 # 1 => f[k + 1 - 1] \in Seq(S)
        BY <3>1
      <4> QED
        BY <4>1, <4>2
    <3>3. \A i \in 1 .. k : f[i] \in Seq(S)
      BY <3>1
    <3>4. g \in [1 .. k + 1 -> Seq(S)]
      BY <3>2, <3>3
    <3>5. ASSUME NEW i \in 1 .. k + 1  PROVE g[i] = Rec(g, i)
      <4>1. CASE i <= k
        <5>1. i \in 1 .. k /\ (i # 1 => i - 1 \in 1 .. k /\ i - 1 \in 1 .. k + 1)
          BY <4>1
        <5>2. f[i] = Rec(f, i)
          BY <3>1, <5>1
        <5>3. g[i] = f[i] /\ (i # 1 => g[i - 1] = f[i - 1])
          BY <5>1
        <5> HIDE DEF g
        <5> QED
          BY <5>2, <5>3
      <4>2. CASE i = k + 1
        <5>1. g[i] = Rec(f, i) /\ (i # 1 => g[i - 1] = f[i - 1])
          BY <4>2
        <5> QED
          BY <5>1
      <4> QED
        BY <4>1, <4>2
    <3> QED
      BY <3>4, <3>5
  <2>3. n \in K
    <3> HIDE DEF K
    <3> QED
      BY <2>1, <2>2, <1>1, SetInduction
  <2>4. PICK f : Solves(f, n)
    <3> HIDE DEF Solves
    <3> QED
      BY <2>3, <1>1
  <2>5. f = [i \in 1 .. n |-> f[i]]
    BY <2>4
  <2>6. f = [i \in 1 .. n |-> Rec(f, i)]
    BY <2>4, <2>5
  <2> QED
    BY <2>6
<1>4. flatten = [i \in 1 .. n |-> Rec(flatten, i)]
  BY <1>3
<1> HIDE DEF flatten
<1>5. \A i \in 1 .. n : flatten[i] = IF i = 1 THEN seqs[i] ELSE flatten[i - 1] \o seqs[i]
  BY <1>4
<1> DEFINE T == { k \in Nat : k \in 1 .. n => flatten[k] \in Seq(S) }
<1>6. 0 \in T
  BY <1>1
<1>7. ASSUME NEW k \in Nat, k \in T  PROVE k + 1 \in T
  <2> SUFFICES ASSUME k + 1 \in 1 .. n  PROVE flatten[k + 1] \in Seq(S)
    OBVIOUS
  <2>1. flatten[k + 1] = IF k = 0 THEN seqs[k + 1] ELSE flatten[k] \o seqs[k + 1]
    BY <1>5
  <2>2. k # 0 => flatten[k] \in Seq(S)
    BY <1>7, <1>1
  <2>3. seqs[k + 1] \in Seq(S)
    BY <1>1
  <2> QED
    BY <2>1, <2>2, <2>3
<1>8. \A i \in 1 .. n : flatten[i] \in Seq(S)
  <2>1. Nat \subseteq T
    <3> HIDE DEF T
    <3> QED
      BY <1>6, <1>7, SetInduction
  <2> QED
    BY <1>1, <2>1
<1>9. flatten \in [1 .. n -> Seq(S)]
  BY <1>4, <1>8
<1> QED
  BY <1>1, <1>2, <1>5, <1>9

\* FlattenSeq of lists over S is a list over S.
LEMMA FlattenType ==
  ASSUME NEW S, NEW seqs \in Seq(Seq(S))
  PROVE  FlattenSeq(seqs) \in Seq(S)
<1>1. CASE Len(seqs) = 0
  <2>1. FlattenSeq(seqs) = seqs
    BY <1>1 DEF FlattenSeq
  <2>2. seqs = << >>
    BY <1>1
  <2> QED
    BY <2>1, <2>2
<1>2. CASE Len(seqs) # 0
  <2>1. Len(seqs) \in 1 .. Len(seqs)
    BY <1>2
  <2> QED
    BY <1>2, <2>1, FlattenUnfolds
<1> QED
  BY <1>1, <1>2

\* _compact_duplicate_clicks is well defined as a recursion from the end of the list.
LEMMA CompactedUnfolds ==
  ASSUME NEW S, NEW R, NEW q \in Seq(R), \A i \in 1 .. Len(q) : Given(q, i) \in S
  PROVE  \E f \in [1 .. Len(q) + 2 -> Seq(S)] :
           /\ f[1] = Compacted(q)
           /\ \A i \in 1 .. Len(q) + 2 :
                f[i] = IF i > Len(q) THEN << >> ELSE << Given(q, i) >> \o f[i + Taken(q, i)]
<1> DEFINE n == Len(q)
           Rec(f, i) == IF i > n THEN << >> ELSE << Given(q, i) >> \o f[i + Taken(q, i)]
           from == CHOOSE f : f = [i \in 1 .. n + 2 |-> Rec(f, i)]
<1>1. n \in Nat /\ \A i \in 1 .. n : Taken(q, i) \in {1, 2}
  BY DEF Taken
<1>2. \A i \in 1 .. n, s \in Seq(S) : << Given(q, i) >> \o s \in Seq(S)
  OBVIOUS
<1>3. Compacted(q) = from[1]
  BY DEF Compacted
<1>4. \E f : f = [i \in 1 .. n + 2 |-> Rec(f, i)]
  <2> DEFINE From(k) == n + 3 - k .. n + 2
             Solves(f, k) == f \in [From(k) -> Seq(S)] /\ \A i \in From(k) : f[i] = Rec(f, i)
             K == { k \in Nat : k <= n + 2 => \E f : Solves(f, k) }
  <2>1. 0 \in K
    <3>1. Solves([i \in From(0) |-> << >>], 0)
      BY <1>1
    <3> QED
      BY <3>1
  <2>2. ASSUME NEW k \in Nat, k \in K  PROVE k + 1 \in K
    <3> SUFFICES ASSUME k + 1 <= n + 2  PROVE \E g : Solves(g, k + 1)
      <4> HIDE DEF Solves
      <4> QED
        OBVIOUS
    <3>1. PICK f : Solves(f, k)
      <4> HIDE DEF Solves
      <4> QED
        BY <2>2, <1>1
    <3> DEFINE m == n + 2 - k
               g == [i \in From(k + 1) |-> IF i = m THEN Rec(f, m) ELSE f[i]]
    <3>2. /\ m \in 1 .. n + 2 /\ m \notin From(k) /\ From(k + 1) = From(k) \cup {m}
          /\ m <= n => m + Taken(q, m) \in From(k)
          /\ \A i \in From(k) : i <= n => i + Taken(q, i) \in From(k)
      BY <1>1
    <3> HIDE DEF m, From
    <3>3. Rec(f, m) \in Seq(S)
      BY <1>1, <1>2, <3>1, <3>2
    <3>4. g \in [From(k + 1) -> Seq(S)]
      BY <3>1, <3>2, <3>3
    <3>5. \A i \in From(k) : g[i] = f[i]
      BY <3>2
    <3>6. ASSUME NEW i \in From(k + 1)  PROVE g[i] = Rec(g, i)
      <4>1. g[i] = Rec(f, i)
        BY <3>1, <3>2, <3>5
      <4>2. i <= n => f[i + Taken(q, i)] = g[i + Taken(q, i)]
        BY <3>2, <3>5
      <4>3. i \in Int
        BY <1>1 DEF From
      <4> HIDE DEF g
      <4> QED
        BY <1>1, <4>1, <4>2, <4>3
    <3> QED
      BY <3>4, <3>6
  <2>3. n + 2 \in K
    <3> HIDE DEF K
    <3> QED
      BY <1>1, <2>1, <2>2, SetInduction
  <2>4. PICK f : Solves(f, n + 2)
    <3> HIDE DEF Solves
    <3> QED
      BY <1>1, <2>3
  <2>5. From(n + 2) = 1 .. n + 2
    BY <1>1
  <2>6. f = [i \in 1 .. n + 2 |-> f[i]] /\ \A i \in 1 .. n + 2 : f[i] = Rec(f, i)
    BY <2>4, <2>5
  <2>7. f = [i \in 1 .. n + 2 |-> Rec(f, i)]
    BY <2>6
  <2> QED
    BY <2>7
<1>5. from = [i \in 1 .. n + 2 |-> Rec(from, i)]
  BY <1>4
<1> HIDE DEF from
<1>6. \A i \in 1 .. n + 2 : from[i] = Rec(from, i)
  BY <1>5
<1> DEFINE T == { k \in Nat : \A i \in 1 .. n + 2 : i > n + 2 - k => from[i] \in Seq(S) }
<1>7. 0 \in T
  BY <1>1
<1>8. ASSUME NEW k \in Nat, k \in T  PROVE k + 1 \in T
  <2> SUFFICES ASSUME NEW i \in 1 .. n + 2, i > n + 2 - (k + 1)  PROVE from[i] \in Seq(S)
    OBVIOUS
  <2>1. CASE i > n
    <3>1. from[i] = << >>
      BY <1>6, <2>1
    <3> QED
      BY <3>1
  <2>2. CASE i <= n
    <3>1. i \in 1 .. n /\ i + Taken(q, i) \in 1 .. n + 2 /\ i + Taken(q, i) > n + 2 - k
      BY <1>1, <2>2
    <3>2. from[i + Taken(q, i)] \in Seq(S)
      BY <1>8, <3>1
    <3>3. from[i] = Rec(from, i) /\ ~(i > n)
      BY <1>1, <1>6, <2>2
    <3>4. from[i] = << Given(q, i) >> \o from[i + Taken(q, i)]
      BY <3>3
    <3> QED
      BY <1>2, <3>1, <3>2, <3>4
  <2> QED
    BY <1>1, <2>1, <2>2
<1>9. n + 2 \in T
  <2> HIDE DEF T
  <2> QED
    BY <1>1, <1>7, <1>8, SetInduction
<1>10. \A i \in 1 .. n + 2 : from[i] \in Seq(S)
  BY <1>1, <1>9
<1>11. from \in [1 .. n + 2 -> Seq(S)]
  BY <1>5, <1>10
<1> QED
  BY <1>3, <1>6, <1>11

\* It gives a list over S when each action it puts in is a member of S.
LEMMA CompactedType ==
  ASSUME NEW S, NEW R, NEW q \in Seq(R), \A i \in 1 .. Len(q) : Given(q, i) \in S
  PROVE  Compacted(q) \in Seq(S)
<1>1. PICK f \in [1 .. Len(q) + 2 -> Seq(S)] : f[1] = Compacted(q)
  BY CompactedUnfolds
<1> QED
  BY <1>1

----------------------------------------------------------------------------
Args == Texts \cup Keys \cup Durations \cup Distances

\* Python's round() gives an integer.
LEMMA RoundType == \A n \in Int : Rounded(n) \in Int /\ Round(n, 100) \in Int
BY DEF Rounded, Round

\* The rounded middle of two numbers is an integer.
LEMMA MiddleType == \A a, b \in Int : Middle(a, b) \in Int
BY DEF Middle, Round

\* _coerce_scalar, the scaling and the rounding of one axis give an integer.
LEMMA CoordinateType ==
  ASSUME NEW nums \in Seq(Numbers), nums # << >>, NEW size \in Int
  PROVE  Coordinate(nums, size) \in Int
<1>1. \A i \in 1 .. Len(nums) : nums[i].v \in Int
  <2>1. \A i \in 1 .. Len(nums) : nums[i] \in Numbers
    OBVIOUS
  <2> QED
    BY <2>1 DEF Numbers
<1>2. CASE Len(nums) = 1
  <2>1. nums[1].v \in Int
    BY <1>1, <1>2
  <2>2. nums[1].v * (size - 1) \in Int
    BY <2>1
  <2>3. Round(nums[1].v * (size - 1), 100) \in Int
    BY <2>2, RoundType
  <2> QED
    BY <1>2, <2>1, <2>3, RoundType DEF Coordinate
<1>3. CASE Len(nums) >= 2
  <2>1. nums[1].v \in Int /\ nums[2].v \in Int /\ (Len(nums) = 4 => nums[3].v \in Int)
    BY <1>1, <1>3
  <2>2. /\ Rounded(nums[1].v) \in Int /\ Rounded(nums[2].v) \in Int
        /\ Len(nums) = 4 => Rounded(nums[3].v) \in Int
    BY <2>1, RoundType
  <2>3. /\ 100 * Rounded(nums[1].v) \in Int /\ 100 * Rounded(nums[2].v) \in Int
        /\ Len(nums) = 4 => 100 * Rounded(nums[3].v) \in Int
    BY <2>2
  <2>4. /\ Middle(100 * Rounded(nums[1].v), 100 * Rounded(nums[2].v)) \in Int
        /\ Len(nums) = 4 => Middle(100 * Rounded(nums[1].v), 100 * Rounded(nums[3].v)) \in Int
    BY <2>3, MiddleType, Zenon
  <2> QED
    BY <1>3, <2>4 DEF Coordinate, CoerceScalar
<1>4. Len(nums) \in Nat \ {0}
  BY EmptySeq
<1> QED
  BY <1>2, <1>3, <1>4

\* Whatever spelling the model chooses, the place of an action is none or a pair of
\* integers.
LEMMA PlaceType ==
  ASSUME NEW raw \in RawActions
  PROVE  Place(raw) \in Seq(Points)
<1>1. /\ raw.x \in Seq(Numbers) /\ raw.y \in Seq(Numbers)
      /\ raw.box \in Seq(Numbers) /\ raw.point \in Seq(Numbers)
  BY DEF RawActions
<1>2. ASSUME NEW nums \in Seq(Numbers), NEW i \in 1 .. Len(nums)
      PROVE  nums[i].v \in Int
  <2>1. nums[i] \in Numbers
    OBVIOUS
  <2> QED
    BY <2>1 DEF Numbers
<1>3. RawPoints(raw) \in Seq(Points)
  <2>1. ASSUME NEW nums \in Seq(Numbers), Len(nums) >= 2
        PROVE  << << Rounded(nums[1].v), Rounded(nums[2].v) >> >> \in Seq(Points)
    <3>1. nums[1].v \in Int /\ nums[2].v \in Int
      BY <1>2, <2>1
    <3>2. Rounded(nums[1].v) \in Int /\ Rounded(nums[2].v) \in Int
      BY <3>1, RoundType
    <3> QED
      BY <3>2 DEF Points
  <2>2. ASSUME Len(raw.box) = 4
        PROVE  << << Middle(raw.box[1].v, raw.box[3].v),
                     Middle(raw.box[2].v, raw.box[4].v) >> >> \in Seq(Points)
    <3>1. \A i \in 1 .. 4 : raw.box[i].v \in Int
      BY <1>1, <1>2, <2>2
    <3>2. /\ Middle(raw.box[1].v, raw.box[3].v) \in Int
          /\ Middle(raw.box[2].v, raw.box[4].v) \in Int
      <4>1. /\ raw.box[1].v \in Int /\ raw.box[2].v \in Int
            /\ raw.box[3].v \in Int /\ raw.box[4].v \in Int
        BY <3>1
      <4> QED
        BY <4>1, MiddleType, Zenon
    <3> QED
      BY <3>2 DEF Points
  <2> QED
    BY <1>1, <2>1, <2>2 DEF RawPoints
<1>4. CASE RawPoints(raw) # << >> /\ (Len(raw.x) # 1 \/ Len(raw.y) # 1)
  BY <1>3, <1>4 DEF Place
<1>5. CASE ~(RawPoints(raw) # << >> /\ (Len(raw.x) # 1 \/ Len(raw.y) # 1))
  <2>1. CASE raw.x # << >> /\ raw.y # << >>
    <3>1. Coordinate(raw.x, Width) \in Int /\ Coordinate(raw.y, Height) \in Int
      <4>1. Width \in Int /\ Height \in Int
        BY DisplayAssumption
      <4> QED
        BY <1>1, <2>1, <4>1, CoordinateType, Zenon
    <3>2. Place(raw) = << << Coordinate(raw.x, Width), Coordinate(raw.y, Height) >> >>
      BY <1>5, <2>1 DEF Place
    <3> QED
      BY <3>1, <3>2 DEF Points
  <2>2. CASE ~(raw.x # << >> /\ raw.y # << >>)
    BY <1>5, <2>2 DEF Place
  <2> QED
    BY <2>1, <2>2
<1> QED
  BY <1>4, <1>5

\* When all raw actions are valid, normalize_action makes a list of actions of them.
LEMMA CleanedType ==
  ASSUME NEW raws \in Seq(RawActions), AllValid(raws)
  PROVE  Cleaned(raws) \in Seq(Actions)
<1>1. /\ Len(raws) \in Nat /\ DOMAIN raws = 1 .. Len(raws)
      /\ \A i \in 1 .. Len(raws) : raws[i] \in RawActions
  OBVIOUS
<1>2. Cleaned(raws) = [i \in 1 .. Len(raws) |-> NormalizeAction(raws[i])]
  BY <1>1 DEF Cleaned
<1>3. ASSUME NEW i \in 1 .. Len(raws)  PROVE NormalizeAction(raws[i]) \in Actions
  <2> DEFINE raw == raws[i]
  <2>1. raw \in RawActions
    BY <1>1
  <2>2. Valid(NormalizeAction(raw))
    BY <1>1, <1>2 DEF AllValid
  <2> HIDE DEF raw
  <2>3. raw.type \in Types
    BY <2>2 DEF Valid, NormalizeAction
  <2>4. Place(raw) \in Seq(Points)
    BY <2>1, PlaceType
  <2>5. Default(raw) \in Args /\ raw.button \in Buttons /\ raw.path \in Seq(Points)
    BY <2>1 DEF RawActions, Default, Args, Texts, Keys, Durations, Distances
  <2>6. NormalizeAction(raw) \in Actions
    BY <2>3, <2>4, <2>5 DEF NormalizeAction, Actions, Args
  <2> QED
    BY <2>6 DEF raw
<1> QED
  BY <1>1, <1>2, <1>3

\* The actions the passes make of others.
Made(a) == { a, DoubleClick(a.at),
             [type |-> "click", at |-> a.at, button |-> a.button, arg |-> "none", path |-> << >>] }

\* The passes bring no action out of a set that has what they make of its members.
LEMMA PassesKeep ==
  ASSUME NEW S \in SUBSET Actions, NEW q \in Seq(S),
         \A a \in S : Made(a) \subseteq S, PressReturn \in S
  PROVE  ReturnAfterUrl(SingleClickOnPanel(Compacted(q))) \in Seq(S)
<1>1. Compacted(q) \in Seq(S)
  <2>1. ASSUME NEW i \in 1 .. Len(q)  PROVE q[i] \in S /\ DoubleClick(q[i].at) \in S
    <3>1. q[i] \in S
      OBVIOUS
    <3>2. Made(q[i]) \subseteq S
      BY <3>1
    <3> QED
      BY <3>1, <3>2 DEF Made
  <2>2. \A i \in 1 .. Len(q) : Given(q, i) \in S
    BY <2>1 DEF Given
  <2> QED
    BY <2>2, CompactedType
<1>2. ASSUME NEW p \in Seq(S)  PROVE SingleClickOnPanel(p) \in Seq(S)
  <2>1. Len(p) \in Nat /\ DOMAIN p = 1 .. Len(p) /\ \A i \in 1 .. Len(p) : p[i] \in S
    OBVIOUS
  <2>2. \A a \in S :
          [type |-> "click", at |-> a.at, button |-> a.button, arg |-> "none", path |-> << >>] \in S
    BY DEF Made
  <2> QED
    BY <2>1, <2>2 DEF SingleClickOnPanel
<1>3. ASSUME NEW p \in Seq(S)  PROVE ReturnAfterUrl(p) \in Seq(S)
  <2>1. Len(p) \in Nat /\ DOMAIN p = 1 .. Len(p) /\ \A i \in 1 .. Len(p) : p[i] \in S
    OBVIOUS
  <2> DEFINE pieces == [i \in DOMAIN p |->
               IF TypesUrl(p[i]) /\ ~(i < Len(p) /\ PressesReturn(p[i + 1]))
               THEN << p[i], PressReturn >> ELSE << p[i] >>]
  <2>2. \A a \in S : << a, PressReturn >> \in Seq(S) /\ << a >> \in Seq(S)
    OBVIOUS
  <2>3. pieces \in Seq(Seq(S))
    BY <2>1, <2>2
  <2>4. ReturnAfterUrl(p) = FlattenSeq(pieces)
    BY DEF ReturnAfterUrl
  <2> HIDE DEF pieces
  <2> QED
    BY <2>3, <2>4, FlattenType
<1> QED
  BY <1>1, <1>2, <1>3

\* normalize_actions returns a list of actions for every list of raw ones it does
\* not raise a ValueError for.
PROPOSITION NormalizedType ==
  ASSUME NEW raws \in Seq(RawActions), AllValid(raws)
  PROVE  Normalized(raws) \in Seq(Actions)
<1>1. ASSUME NEW a \in Actions  PROVE Made(a) \subseteq Actions
  BY <1>1 DEF Made, DoubleClick, Actions, Types, Buttons, Texts, Keys, Durations, Distances, Points
<1>2. PressReturn \in Actions
  BY DEF PressReturn, Actions, Types, Buttons, Texts, Keys, Durations, Distances
<1> QED
  BY <1>1, <1>2, CleanedType, PassesKeep DEF Normalized

----------------------------------------------------------------------------
\* An equivalence of lists that does not depend on what stands before them.
Congruent(E) ==
  /\ \A s \in Seq(Actions) : << s, s >> \in E
  /\ \A s, t, u \in Seq(Actions) : << s, t >> \in E /\ << t, u >> \in E => << s, u >> \in E
  /\ \A a \in Actions, s, t \in Seq(Actions) : << s, t >> \in E => << << a >> \o s, << a >> \o t >> \in E

\* An action before two lists is an action before the first of them.
LEMMA ConsAssociative ==
  ASSUME NEW a \in Actions, NEW s \in Seq(Actions), NEW t \in Seq(Actions)
  PROVE  (<< a >> \o s) \o t = << a >> \o (s \o t)
<1>1. << a >> \in Seq(Actions)
  OBVIOUS
<1> QED
  BY <1>1, ConcatAssociative

\* What stands before two lists may be a list, too.
LEMMA CongruentAppend ==
  ASSUME NEW E, Congruent(E), NEW u \in Seq(Actions),
         NEW s \in Seq(Actions), NEW t \in Seq(Actions), << s, t >> \in E
  PROVE  << u \o s, u \o t >> \in E
<1> DEFINE n == Len(u)
           Rest(i) == SubSeq(u, i, n)
           T == { i \in 1 .. n + 1 : << Rest(i) \o s, Rest(i) \o t >> \in E }
<1>1. n \in Nat /\ n + 1 \in Nat
  OBVIOUS
<1>2. ASSUME NEW i \in 1 .. n + 1, \A j \in i + 1 .. n + 1 : j \in T  PROVE i \in T
  <2>1. CASE i = n + 1
    <3>1. Rest(i) = << >>
      BY <1>1, <2>1, SubSeqEmpty
    <3>2. << >> \o s = s /\ << >> \o t = t
      BY ConcatEmptySeq
    <3> QED
      BY <3>1, <3>2
  <2>2. CASE i # n + 1
    <3>1. i \in 1 .. n /\ n \in i .. n /\ i + 1 \in i + 1 .. n + 1
      BY <1>1, <2>2
    <3>2. Rest(i) = << u[i] >> \o Rest(i + 1)
      BY <3>1, SubSeqRecursiveFirst
    <3>3. << Rest(i + 1) \o s, Rest(i + 1) \o t >> \in E
      BY <1>2, <3>1
    <3>4. u[i] \in Actions /\ << u[i] >> \in Seq(Actions)
      BY <3>1
    <3>5. Rest(i + 1) \in Seq(Actions)
      BY <1>1, <3>1
    <3> HIDE DEF Rest
    <3>6. Rest(i + 1) \o s \in Seq(Actions) /\ Rest(i + 1) \o t \in Seq(Actions)
      BY <3>5
    <3>7. << << u[i] >> \o (Rest(i + 1) \o s), << u[i] >> \o (Rest(i + 1) \o t) >> \in E
      BY <3>3, <3>4, <3>6 DEF Congruent
    <3>8. /\ << u[i] >> \o (Rest(i + 1) \o s) = Rest(i) \o s
          /\ << u[i] >> \o (Rest(i + 1) \o t) = Rest(i) \o t
      <4>1. /\ (<< u[i] >> \o Rest(i + 1)) \o s = << u[i] >> \o (Rest(i + 1) \o s)
            /\ (<< u[i] >> \o Rest(i + 1)) \o t = << u[i] >> \o (Rest(i + 1) \o t)
        BY <3>4, <3>5, ConsAssociative, Zenon
      <4> QED
        BY <3>2, <4>1, Zenon
    <3> QED
      BY <3>7, <3>8
  <2> QED
    BY <2>1, <2>2
<1>3. 1 \in T
  <2>1. 1 \in 1 .. n + 1
    BY <1>1
  <2> HIDE DEF T
  <2> QED
    BY <1>1, <1>2, <2>1, BackwardInduction
<1>4. Rest(1) = u
  BY SubSeqFull
<1> QED
  BY <1>3, <1>4

\* _compact_duplicate_clicks does not leave a congruence that takes a pair for what
\* stands for it.
LEMMA CompactedCongruent ==
  ASSUME NEW E, Congruent(E), NEW S \in SUBSET Actions, NEW q \in Seq(S),
         \A a, b \in S, s \in Seq(Actions) :
           ClickPair(a, b) => /\ DoubleClick(a.at) \in Actions
                              /\ << << DoubleClick(a.at) >> \o s, << a >> \o (<< b >> \o s) >> \in E,
         \A a \in S, s \in Seq(Actions) :
           ~LeftClick(a) => << << a >> \o s, << a >> \o (<< a >> \o s) >> \in E
  PROVE  << Compacted(q), q >> \in E
<1> DEFINE n == Len(q)
           Rest(i) == SubSeq(q, i, n)
<1>1. n \in Nat /\ n + 2 \in Nat /\ q \in Seq(Actions)
      /\ \A i \in 1 .. n : q[i] \in S /\ q[i] \in Actions
  OBVIOUS
<1>2. \A i \in 1 .. n : Given(q, i) \in Actions
  <2> TAKE i \in 1 .. n
  <2>1. CASE i < n /\ ClickPair(q[i], q[i + 1])
    <3>1. i + 1 \in 1 .. n /\ << >> \in Seq(Actions)
      BY <1>1, <2>1
    <3>2. DoubleClick(q[i].at) \in Actions
      BY <1>1, <2>1, <3>1
    <3> QED
      BY <2>1, <3>2 DEF Given
  <2>2. CASE ~(i < n /\ ClickPair(q[i], q[i + 1]))
    BY <1>1, <2>2 DEF Given
  <2> QED
    BY <2>1, <2>2
<1>3. PICK f \in [1 .. n + 2 -> Seq(Actions)] :
        /\ f[1] = Compacted(q)
        /\ \A i \in 1 .. n + 2 :
             f[i] = IF i > n THEN << >> ELSE << Given(q, i) >> \o f[i + Taken(q, i)]
  BY <1>1, <1>2, CompactedUnfolds
<1>4. ASSUME NEW i \in 1 .. n  PROVE Rest(i) = << q[i] >> \o Rest(i + 1)
  <2>1. n \in i .. n
    BY <1>1
  <2> QED
    BY <1>1, <2>1, SubSeqRecursiveFirst
<1>5. \A i \in 1 .. n + 2 : Rest(i) \in Seq(Actions)
  BY <1>1
<1>6. ASSUME NEW i \in 1 .. n + 2, i > n  PROVE Rest(i) = << >>
  BY <1>1, <1>6, SubSeqEmpty
<1>7. Rest(1) = q
  BY <1>1, SubSeqFull
<1> HIDE DEF Rest
<1> DEFINE T == { i \in 1 .. n + 2 : << f[i], Rest(i) >> \in E }
<1>8. ASSUME NEW i \in 1 .. n + 2, \A j \in i + 1 .. n + 2 : j \in T  PROVE i \in T
  <2>1. CASE i > n
    <3>1. f[i] = << >> /\ Rest(i) = << >> /\ << >> \in Seq(Actions)
      BY <1>3, <1>6, <2>1
    <3> QED
      BY <3>1 DEF Congruent
  <2>2. CASE ~(i > n)
    <3>1. /\ i \in 1 .. n /\ q[i] \in S /\ q[i] \in Actions
          /\ i + 1 \in i + 1 .. n + 2 /\ i + 2 \in i + 1 .. n + 2
          /\ i + 1 \in 1 .. n + 2 /\ i + 2 \in 1 .. n + 2
      BY <1>1, <2>2
    <3>2. /\ << f[i + 1], Rest(i + 1) >> \in E /\ << f[i + 2], Rest(i + 2) >> \in E
          /\ f[i + 1] \in Seq(Actions) /\ f[i + 2] \in Seq(Actions)
          /\ Rest(i + 1) \in Seq(Actions) /\ Rest(i + 2) \in Seq(Actions)
      BY <1>3, <1>5, <1>8, <3>1
    <3>3. Rest(i) = << q[i] >> \o Rest(i + 1)
      BY <1>4, <3>1
    <3>4. f[i] = << Given(q, i) >> \o f[i + Taken(q, i)]
      BY <1>3, <2>2
    <3>5. CASE ~(i < n /\ (ClickPair(q[i], q[i + 1]) \/ Duplicate(q[i], q[i + 1])))
      <4>1. Given(q, i) = q[i] /\ Taken(q, i) = 1
        BY <3>5 DEF Given, Taken
      <4>2. << << q[i] >> \o f[i + 1], << q[i] >> \o Rest(i + 1) >> \in E
        BY <3>1, <3>2 DEF Congruent
      <4> QED
        BY <3>3, <3>4, <4>1, <4>2
    <3>6. CASE i < n /\ (ClickPair(q[i], q[i + 1]) \/ Duplicate(q[i], q[i + 1]))
      <4> DEFINE g == Given(q, i)
      <4>1. /\ i + 1 \in 1 .. n /\ q[i + 1] \in S /\ i + 1 + 1 = i + 2
            /\ g \in Actions /\ Taken(q, i) = 2
        BY <1>1, <1>2, <3>1, <3>6 DEF Taken
      <4>2. Rest(i) = << q[i] >> \o (<< q[i + 1] >> \o Rest(i + 2))
        BY <1>4, <3>3, <4>1
      <4>3. << << g >> \o Rest(i + 2), Rest(i) >> \in E
        <5>1. CASE ClickPair(q[i], q[i + 1])
          <6>1. g = DoubleClick(q[i].at)
            BY <3>6, <5>1 DEF Given
          <6> QED
            BY <3>1, <3>2, <4>1, <4>2, <5>1, <6>1
        <5>2. CASE ~ClickPair(q[i], q[i + 1])
          <6>1. q[i + 1] = q[i] /\ g = q[i]
            BY <3>6, <5>2 DEF Given, Duplicate
          <6>2. ~LeftClick(q[i])
            BY <5>2, <6>1 DEF ClickPair
          <6> QED
            BY <3>1, <3>2, <4>2, <6>1, <6>2
        <5> QED
          BY <5>1, <5>2
      <4>4. << << g >> \o f[i + 2], << g >> \o Rest(i + 2) >> \in E
        BY <3>2, <4>1 DEF Congruent
      <4>5. f[i] = << g >> \o f[i + 2]
        BY <3>4, <4>1
      <4>6. << g >> \o f[i + 2] \in Seq(Actions) /\ << g >> \o Rest(i + 2) \in Seq(Actions)
        BY <3>2, <4>1
      <4> HIDE DEF g
      <4>7. Rest(i) \in Seq(Actions)
        BY <1>5
      <4>8. << << g >> \o f[i + 2], Rest(i) >> \in E
        BY <4>3, <4>4, <4>6, <4>7 DEF Congruent
      <4> QED
        BY <4>5, <4>8
    <3> QED
      BY <3>5, <3>6
  <2> QED
    BY <2>1, <2>2
<1>9. 1 \in T
  <2>1. 1 \in 1 .. n + 2
    BY <1>1
  <2> HIDE DEF T
  <2> QED
    BY <1>1, <1>8, <2>1, BackwardInduction
<1> QED
  BY <1>3, <1>7, <1>9

\* Lists of actions are appended in any order.
LEMMA ActionsAssociative ==
  \A s, t, u \in Seq(Actions) : (s \o t) \o u = s \o (t \o u)
BY ConcatAssociative

\* What _normalize_panel_launcher_clicks makes of one action.
OnPanel(a) ==
  IF a.type = "double_click" /\ OnLaunchers(a.at[1])
  THEN [type |-> "click", at |-> a.at, button |-> a.button, arg |-> "none", path |-> << >>]
  ELSE a

\* The single click on the panel is a valid action.
LEMMA OnPanelType == \A a \in Actions : OnPanel(a) \in Actions
BY DEF OnPanel, Actions, Types, Buttons, Texts, Keys, Durations, Distances

\* _normalize_panel_launcher_clicks does not leave a congruence that takes an action for
\* what the pass makes of it.
LEMMA PanelCongruent ==
  ASSUME NEW E, Congruent(E), NEW S \in SUBSET Actions, NEW q \in Seq(S),
         \A a \in S, s \in Seq(Actions) : << << OnPanel(a) >> \o s, << a >> \o s >> \in E
  PROVE  << SingleClickOnPanel(q), q >> \in E /\ SingleClickOnPanel(q) \in Seq(Actions)
<1> DEFINE n == Len(q)
           p == SingleClickOnPanel(q)
           Rest(i) == SubSeq(q, i, n)
           OnPanels(i) == SubSeq(p, i, n)
<1>1. /\ n \in Nat /\ n + 1 \in Nat /\ q \in Seq(Actions) /\ DOMAIN q = 1 .. n
      /\ \A i \in 1 .. n : q[i] \in S /\ q[i] \in Actions
  OBVIOUS
<1>2. p = [i \in 1 .. n |-> OnPanel(q[i])]
  BY <1>1 DEF SingleClickOnPanel, OnPanel
<1> HIDE DEF p
<1>3. \A i \in 1 .. n : p[i] = OnPanel(q[i]) /\ p[i] \in Actions
  BY <1>1, <1>2, OnPanelType
<1>4. p \in Seq(Actions) /\ Len(p) = n
  BY <1>1, <1>2, <1>3
<1>5. ASSUME NEW i \in 1 .. n
      PROVE  Rest(i) = << q[i] >> \o Rest(i + 1) /\ OnPanels(i) = << p[i] >> \o OnPanels(i + 1)
  <2>1. n \in i .. n
    BY <1>1
  <2> QED
    BY <1>1, <1>4, <2>1, SubSeqRecursiveFirst
<1>6. \A i \in 1 .. n + 1 : Rest(i) \in Seq(Actions) /\ OnPanels(i) \in Seq(Actions)
  BY <1>1, <1>4
<1>7. Rest(n + 1) = << >> /\ OnPanels(n + 1) = << >>
  BY <1>1, SubSeqEmpty
<1>8. Rest(1) = q /\ OnPanels(1) = p
  BY <1>1, <1>4, SubSeqFull
<1> HIDE DEF Rest, OnPanels
<1> DEFINE T == { i \in 1 .. n + 1 : << OnPanels(i), Rest(i) >> \in E }
<1>9. ASSUME NEW i \in 1 .. n + 1, \A j \in i + 1 .. n + 1 : j \in T  PROVE i \in T
  <2>1. CASE i = n + 1
    <3>1. << << >>, << >> >> \in E
      <4>1. << >> \in Seq(Actions)
        OBVIOUS
      <4> QED
        BY <4>1 DEF Congruent
    <3> QED
      BY <1>7, <2>1, <3>1
  <2>2. CASE i # n + 1
    <3>1. i \in 1 .. n /\ i + 1 \in i + 1 .. n + 1 /\ i + 1 \in 1 .. n + 1
      BY <1>1, <2>2
    <3>2. << OnPanels(i + 1), Rest(i + 1) >> \in E
      BY <1>9, <3>1
    <3>3. /\ q[i] \in S /\ q[i] \in Actions /\ p[i] \in Actions /\ p[i] = OnPanel(q[i])
          /\ OnPanels(i + 1) \in Seq(Actions) /\ Rest(i + 1) \in Seq(Actions)
      BY <1>1, <1>3, <1>6, <3>1
    <3>4. << << p[i] >> \o OnPanels(i + 1), << p[i] >> \o Rest(i + 1) >> \in E
      BY <3>2, <3>3 DEF Congruent
    <3>5. << << p[i] >> \o Rest(i + 1), << q[i] >> \o Rest(i + 1) >> \in E
      BY <3>3
    <3>6. /\ << p[i] >> \o OnPanels(i + 1) \in Seq(Actions)
          /\ << p[i] >> \o Rest(i + 1) \in Seq(Actions)
          /\ << q[i] >> \o Rest(i + 1) \in Seq(Actions)
      BY <3>3
    <3>7. << << p[i] >> \o OnPanels(i + 1), << q[i] >> \o Rest(i + 1) >> \in E
      BY <3>4, <3>5, <3>6 DEF Congruent
    <3> QED
      BY <1>5, <3>1, <3>7
  <2> QED
    BY <2>1, <2>2
<1>10. 1 \in T
  <2>1. 1 \in 1 .. n + 1
    BY <1>1
  <2> HIDE DEF T
  <2> QED
    BY <1>1, <1>9, <2>1, BackwardInduction
<1> QED
  BY <1>4, <1>8, <1>10 DEF p

\* _append_return_after_url_type does not leave a congruence that takes a URL for the URL
\* with Return.
LEMMA ReturnCongruent ==
  ASSUME NEW E, Congruent(E), NEW q \in Seq(Actions),
         \A a \in Actions, s \in Seq(Actions) :
           TypesUrl(a) => << << a >> \o (<< PressReturn >> \o s), << a >> \o s >> \in E
  PROVE  << ReturnAfterUrl(q), q >> \in E
<1> DEFINE n == Len(q)
           Rest(i) == SubSeq(q, i, n)
           pieces == [i \in DOMAIN q |->
             IF TypesUrl(q[i]) /\ ~(i < Len(q) /\ PressesReturn(q[i + 1]))
             THEN << q[i], PressReturn >> ELSE << q[i] >>]
<1>1. /\ n \in Nat /\ DOMAIN q = 1 .. n
      /\ \A i \in 1 .. n : q[i] \in Actions
  OBVIOUS
<1>2. PressReturn \in Actions
  BY DEF PressReturn, Actions, Types, Buttons, Texts, Keys, Durations, Distances
<1>3. pieces \in Seq(Seq(Actions)) /\ Len(pieces) = n
  <2>1. \A a \in Actions : << a, PressReturn >> \in Seq(Actions) /\ << a >> \in Seq(Actions)
    BY <1>2
  <2> QED
    BY <1>1, <2>1
<1>4. ReturnAfterUrl(q) = FlattenSeq(pieces)
  BY DEF ReturnAfterUrl
<1>5. ASSUME NEW i \in 1 .. n, NEW s \in Seq(Actions)
      PROVE  pieces[i] \in Seq(Actions) /\ << pieces[i] \o s, << q[i] >> \o s >> \in E
  <2>1. q[i] \in Actions /\ << q[i] >> \in Seq(Actions) /\ << q[i] >> \o s \in Seq(Actions)
    BY <1>1
  <2>2. CASE pieces[i] = << q[i] >>
    BY <2>1, <2>2 DEF Congruent
  <2>3. CASE TypesUrl(q[i]) /\ pieces[i] = << q[i], PressReturn >>
    <3>1. << q[i], PressReturn >> = << q[i] >> \o << PressReturn >>
      OBVIOUS
    <3>2. << PressReturn >> \in Seq(Actions)
      BY <1>2
    <3>3. << q[i], PressReturn >> \o s = << q[i] >> \o (<< PressReturn >> \o s)
      BY <2>1, <3>1, <3>2, ConsAssociative
    <3>4. << q[i], PressReturn >> \in Seq(Actions)
      BY <1>2, <2>1
    <3> QED
      BY <2>1, <2>3, <3>3, <3>4
  <2> QED
    BY <1>1, <2>2, <2>3
<1> HIDE DEF pieces
<1>6. CASE n = 0
  <2>1. q = << >> /\ pieces = << >> /\ << >> \in Seq(Actions)
    BY <1>3, <1>6
  <2>2. FlattenSeq(pieces) = pieces
    BY <1>3, <1>6 DEF FlattenSeq
  <2> QED
    BY <1>4, <2>1, <2>2 DEF Congruent
<1>7. CASE n # 0
  <2>1. PICK f \in [1 .. n -> Seq(Actions)] :
          /\ f[n] = FlattenSeq(pieces)
          /\ \A i \in 1 .. n : f[i] = IF i = 1 THEN pieces[i] ELSE f[i - 1] \o pieces[i]
    BY <1>3, <1>7, FlattenUnfolds
  <2>2. ASSUME NEW i \in 1 .. n  PROVE Rest(i) = << q[i] >> \o Rest(i + 1)
    <3>1. n \in i .. n
      BY <1>1
    <3> QED
      BY <3>1, SubSeqRecursiveFirst
  <2>3. \A i \in 1 .. n + 1 : Rest(i) \in Seq(Actions)
    BY <1>1
  <2>4. Rest(1) = q /\ Rest(n + 1) = << >>
    BY <1>1, SubSeqFull, SubSeqEmpty
  <2> HIDE DEF Rest
  <2> DEFINE T == { k \in Nat : k \in 1 .. n => << f[k] \o Rest(k + 1), q >> \in E }
  <2>5. 0 \in T
    BY <1>1
  <2>6. ASSUME NEW k \in Nat, k \in T  PROVE k + 1 \in T
    <3> SUFFICES ASSUME k + 1 \in 1 .. n  PROVE << f[k + 1] \o Rest(k + 2), q >> \in E
      <4>1. k + 1 + 1 = k + 2
        OBVIOUS
      <4> QED
        BY <4>1
    <3> DEFINE piece == pieces[k + 1]
               rest == Rest(k + 2)
    <3>1. rest \in Seq(Actions)
      BY <1>1, <2>3
    <3>2. piece \in Seq(Actions) /\ << piece \o rest, << q[k + 1] >> \o rest >> \in E
      BY <1>5, <3>1
    <3>3. Rest(k + 1) = << q[k + 1] >> \o rest /\ Rest(k + 1) \in Seq(Actions)
      <4>1. k + 1 + 1 = k + 2
        OBVIOUS
      <4> QED
        BY <1>1, <2>2, <2>3, <4>1
    <3>4. f[k + 1] = IF k = 0 THEN piece ELSE f[k] \o piece
      <4>1. PICK i \in 1 .. n : i = k + 1
        OBVIOUS
      <4>2. f[i] = IF i = 1 THEN pieces[i] ELSE f[i - 1] \o pieces[i]
        BY <2>1
      <4>3. i - 1 = k /\ (i = 1 <=> k = 0)
        BY <4>1
      <4> HIDE DEF n
      <4>4. f[i] = IF k = 0 THEN pieces[i] ELSE f[k] \o pieces[i]
        BY <4>2, <4>3, Zenon
      <4> QED
        BY <4>1, <4>4, Zenon
    <3> HIDE DEF piece, rest
    <3>5. CASE k = 0
      <4>1. k + 1 = 1 /\ f[k + 1] = piece
        BY <3>4, <3>5
      <4>2. << q[k + 1] >> \o rest = q
        BY <2>4, <3>3, <4>1
      <4>3. << piece \o rest, q >> \in E
        BY <3>2, <4>2
      <4> QED
        BY <4>1, <4>3 DEF rest
    <3>6. CASE k # 0
      <4>1. k \in 1 .. n /\ f[k] \in Seq(Actions) /\ << f[k] \o Rest(k + 1), q >> \in E
        BY <1>1, <2>1, <2>6, <3>6
      <4>2. piece \o rest \in Seq(Actions)
        BY <3>1, <3>2
      <4>3. << f[k] \o (piece \o rest), f[k] \o Rest(k + 1) >> \in E
        BY <3>2, <3>3, <4>1, <4>2, CongruentAppend
      <4>4. f[k] \o (piece \o rest) \in Seq(Actions) /\ f[k] \o Rest(k + 1) \in Seq(Actions)
        BY <3>3, <4>1, <4>2
      <4>5. << f[k] \o (piece \o rest), q >> \in E
        BY <4>1, <4>3, <4>4 DEF Congruent
      <4>6. f[k] \o (piece \o rest) = (f[k] \o piece) \o rest
        BY <3>1, <3>2, <4>1, ActionsAssociative, Zenon
      <4>7. f[k + 1] \o rest = f[k] \o (piece \o rest)
        BY <3>4, <3>6, <4>6
      <4> QED
        BY <4>5, <4>7 DEF rest
    <3> QED
      BY <3>5, <3>6
  <2>7. n \in T
    <3> HIDE DEF T
    <3> QED
      BY <1>1, <2>5, <2>6, SetInduction
  <2>8. << f[n] \o << >>, q >> \in E /\ f[n] \in Seq(Actions)
    <3>1. n \in 1 .. n
      BY <1>1, <1>7
    <3>2. << f[n] \o Rest(n + 1), q >> \in E
      BY <2>7, <3>1
    <3> QED
      BY <2>1, <2>4, <3>1, <3>2
  <2>9. f[n] \o << >> = f[n]
    BY <2>8, ConcatEmptySeq
  <2> QED
    BY <1>4, <2>1, <2>8, <2>9
<1> QED
  BY <1>6, <1>7
----------------------------------------------------------------------------
\* What an action can be for.
Meanings == { Meant(a) : a \in Actions }

\* What an action adds to a purpose makes a purpose.
LEMMA AddsType ==
  ASSUME NEW a \in Actions, NEW rest \in Seq(Meanings)
  PROVE  Adds(a, rest) \in Seq(Meanings)
<1>1. Meant(a) \in Meanings
  BY DEF Meanings
<1>2. rest # << >> => Tail(rest) \in Seq(Meanings)
  BY HeadTailProperties
<1>3. \A r \in Seq(Meanings) : << Meant(a) >> \o r \in Seq(Meanings)
  BY <1>1
<1> QED
  BY <1>2, <1>3 DEF Adds

\* The recursion that Purpose is defined by exists.
LEMMA PurposeUnfolds ==
  ASSUME NEW q \in Seq(Actions)
  PROVE  \E f \in [1 .. Len(q) + 1 -> Seq(Meanings)] :
           /\ f[1] = Purpose(q)
           /\ \A i \in 1 .. Len(q) + 1 :
                f[i] = IF i > Len(q) THEN << >> ELSE Adds(q[i], f[i + 1])
<1> DEFINE n == Len(q)
           Rec(f, i) == IF i > n THEN << >> ELSE Adds(q[i], f[i + 1])
           from == CHOOSE f : f = [i \in 1 .. n + 1 |-> Rec(f, i)]
<1>1. n \in Nat /\ \A i \in 1 .. n : q[i] \in Actions
  OBVIOUS
<1>2. Purpose(q) = from[1]
  BY DEF Purpose
<1>3. \E f : f = [i \in 1 .. n + 1 |-> Rec(f, i)]
  <2> DEFINE From(k) == n + 2 - k .. n + 1
             Solves(f, k) == f \in [From(k) -> Seq(Meanings)] /\ \A i \in From(k) : f[i] = Rec(f, i)
             K == { k \in Nat : k <= n + 1 => \E f : Solves(f, k) }
  <2>1. 0 \in K
    <3>1. Solves([i \in From(0) |-> << >>], 0)
      BY <1>1
    <3> QED
      BY <3>1
  <2>2. ASSUME NEW k \in Nat, k \in K  PROVE k + 1 \in K
    <3> SUFFICES ASSUME k + 1 <= n + 1  PROVE \E g : Solves(g, k + 1)
      <4> HIDE DEF Solves
      <4> QED
        OBVIOUS
    <3>1. PICK f : Solves(f, k)
      <4> HIDE DEF Solves
      <4> QED
        BY <2>2, <1>1
    <3> DEFINE m == n + 1 - k
               g == [i \in From(k + 1) |-> IF i = m THEN Rec(f, m) ELSE f[i]]
    <3>2. /\ m \in 1 .. n + 1 /\ m \notin From(k) /\ From(k + 1) = From(k) \cup {m}
          /\ m <= n => m \in 1 .. n /\ m + 1 \in From(k)
          /\ \A i \in From(k) : i <= n => i + 1 \in From(k)
      BY <1>1
    <3>3. \A i \in From(k + 1) : i \in Int
      BY <1>1
    <3> HIDE DEF m, From
    <3>4. Rec(f, m) \in Seq(Meanings)
      <4>1. CASE m > n
        BY <4>1
      <4>2. CASE ~(m > n)
        <5>1. m \in 1 .. n /\ f[m + 1] \in Seq(Meanings) /\ q[m] \in Actions
          BY <1>1, <3>1, <3>2, <4>2
        <5>2. Adds(q[m], f[m + 1]) \in Seq(Meanings)
          BY <5>1, AddsType
        <5> QED
          BY <4>2, <5>2
      <4> QED
        BY <4>1, <4>2
    <3>5. g \in [From(k + 1) -> Seq(Meanings)]
      BY <3>1, <3>2, <3>4
    <3>6. \A i \in From(k) : g[i] = f[i]
      BY <3>2
    <3>7. ASSUME NEW i \in From(k + 1)  PROVE g[i] = Rec(g, i)
      <4>1. g[i] = Rec(f, i)
        BY <3>1, <3>2, <3>6
      <4>2. i <= n => f[i + 1] = g[i + 1]
        BY <3>2, <3>6
      <4> HIDE DEF g
      <4> QED
        BY <1>1, <3>3, <4>1, <4>2
    <3> QED
      BY <3>5, <3>7
  <2>3. n + 1 \in K
    <3> HIDE DEF K
    <3> QED
      BY <1>1, <2>1, <2>2, SetInduction
  <2>4. PICK f : Solves(f, n + 1)
    <3> HIDE DEF Solves
    <3> QED
      BY <1>1, <2>3
  <2>5. From(n + 1) = 1 .. n + 1
    BY <1>1
  <2>6. f = [i \in 1 .. n + 1 |-> f[i]] /\ \A i \in 1 .. n + 1 : f[i] = Rec(f, i)
    BY <2>4, <2>5
  <2>7. f = [i \in 1 .. n + 1 |-> Rec(f, i)]
    BY <2>6
  <2> QED
    BY <2>7
<1>4. from = [i \in 1 .. n + 1 |-> Rec(from, i)]
  BY <1>3
<1> HIDE DEF from
<1>5. \A i \in 1 .. n + 1 : from[i] = Rec(from, i)
  BY <1>4
<1> DEFINE T == { i \in 1 .. n + 1 : from[i] \in Seq(Meanings) }
<1>6. ASSUME NEW i \in 1 .. n + 1, \A j \in i + 1 .. n + 1 : j \in T  PROVE i \in T
  <2>1. CASE i > n
    <3>1. from[i] = << >> /\ << >> \in Seq(Meanings)
      BY <1>5, <2>1
    <3> QED
      BY <3>1
  <2>2. CASE ~(i > n)
    <3>1. i \in 1 .. n /\ i + 1 \in i + 1 .. n + 1 /\ q[i] \in Actions
      BY <1>1, <2>2
    <3>2. from[i + 1] \in Seq(Meanings)
      BY <1>6, <3>1
    <3>3. Adds(q[i], from[i + 1]) \in Seq(Meanings)
      BY <3>1, <3>2, AddsType
    <3>4. from[i] = Adds(q[i], from[i + 1])
      BY <1>5, <2>2
    <3> QED
      BY <3>3, <3>4
  <2> QED
    BY <2>1, <2>2
<1>7. 1 .. n + 1 \subseteq T
  <2>1. n + 1 \in Nat
    BY <1>1
  <2> HIDE DEF T
  <2> QED
    BY <1>6, <2>1, BackwardInduction
<1>8. from \in [1 .. n + 1 -> Seq(Meanings)]
  BY <1>4, <1>7
<1> QED
  BY <1>2, <1>5, <1>8

\* The purpose of a list is what its first action adds to the purpose of the rest.
LEMMA PurposeCons ==
  ASSUME NEW a \in Actions, NEW s \in Seq(Actions)
  PROVE  Purpose(<< a >> \o s) = Adds(a, Purpose(s))
<1> DEFINE t == << a >> \o s
           n == Len(s)
<1>1. t \in Seq(Actions) /\ n \in Nat /\ Len(t) = n + 1
      /\ t[1] = a /\ \A i \in 1 .. n : t[i + 1] = s[i]
  OBVIOUS
<1> HIDE DEF t
<1>2. PICK f \in [1 .. n + 1 -> Seq(Meanings)] :
        /\ f[1] = Purpose(s)
        /\ \A i \in 1 .. n + 1 : f[i] = IF i > n THEN << >> ELSE Adds(s[i], f[i + 1])
  BY PurposeUnfolds
<1>3. PICK g \in [1 .. n + 2 -> Seq(Meanings)] :
        /\ g[1] = Purpose(t)
        /\ \A i \in 1 .. n + 2 : g[i] = IF i > n + 1 THEN << >> ELSE Adds(t[i], g[i + 1])
  <2>1. \E g \in [1 .. Len(t) + 1 -> Seq(Meanings)] :
          /\ g[1] = Purpose(t)
          /\ \A i \in 1 .. Len(t) + 1 : g[i] = IF i > Len(t) THEN << >> ELSE Adds(t[i], g[i + 1])
    BY <1>1, PurposeUnfolds
  <2>2. Len(t) = n + 1 /\ Len(t) + 1 = n + 2
    BY <1>1
  <2> QED
    BY <2>1, <2>2
<1> DEFINE T == { i \in 1 .. n + 1 : g[i + 1] = f[i] }
<1>4. ASSUME NEW i \in 1 .. n + 1, \A j \in i + 1 .. n + 1 : j \in T  PROVE i \in T
  <2>1. i + 1 \in 1 .. n + 2 /\ (i + 1 > n + 1 <=> i > n)
    BY <1>1
  <2>2. CASE i > n
    <3>1. f[i] = << >> /\ g[i + 1] = << >>
      BY <1>2, <1>3, <2>1, <2>2
    <3> QED
      BY <3>1
  <2>3. CASE ~(i > n)
    <3>1. i \in 1 .. n /\ i + 1 \in i + 1 .. n + 1
      BY <1>1, <2>3
    <3>2. g[i + 1 + 1] = f[i + 1] /\ t[i + 1] = s[i]
      BY <1>1, <1>4, <3>1
    <3>3. f[i] = Adds(s[i], f[i + 1]) /\ g[i + 1] = Adds(t[i + 1], g[i + 1 + 1])
      BY <1>2, <1>3, <2>1, <2>3
    <3> QED
      BY <3>2, <3>3
  <2> QED
    BY <2>2, <2>3
<1>5. 1 \in T
  <2>1. n + 1 \in Nat /\ 1 \in 1 .. n + 1
    BY <1>1
  <2> HIDE DEF T
  <2> QED
    BY <1>4, <2>1, BackwardInduction
<1>6. g[1] = Adds(t[1], g[2])
  BY <1>1, <1>3
<1>7. g[2] = f[1]
  BY <1>5
<1> QED
  BY <1>1, <1>2, <1>3, <1>6, <1>7 DEF t

\* Lists that are for the same.
SamePurpose == { p \in Seq(Actions) \X Seq(Actions) : Purpose(p[1]) = Purpose(p[2]) }

\* What stands before two lists that are for the same does not tell them apart.
LEMMA PurposeIsCongruent == Congruent(SamePurpose)
<1>1. ASSUME NEW a \in Actions, NEW s \in Seq(Actions), NEW t \in Seq(Actions), Purpose(s) = Purpose(t)
      PROVE  << a >> \o s \in Seq(Actions) /\ << a >> \o t \in Seq(Actions)
             /\ Purpose(<< a >> \o s) = Purpose(<< a >> \o t)
  <2>1. Purpose(<< a >> \o s) = Adds(a, Purpose(s)) /\ Purpose(<< a >> \o t) = Adds(a, Purpose(t))
    BY PurposeCons
  <2> QED
    BY <1>1, <2>1
<1> QED
  BY <1>1 DEF Congruent, SamePurpose

\* A purpose is a list of what actions can be for.
LEMMA PurposeType == \A s \in Seq(Actions) : Purpose(s) \in Seq(Meanings)
<1> TAKE s \in Seq(Actions)
<1>1. PICK f \in [1 .. Len(s) + 1 -> Seq(Meanings)] : f[1] = Purpose(s)
  BY PurposeUnfolds
<1> QED
  BY <1>1

\* The same again adds nothing.
LEMMA AddsAgain ==
  ASSUME NEW a \in Actions, NEW b \in Actions, Meant(a) = Meant(b),
         TypesUrl(a) <=> TypesUrl(b), NEW rest \in Seq(Meanings)
  PROVE  Adds(a, Adds(b, rest)) = Adds(a, rest) /\ Adds(b, rest) = Adds(a, rest)
<1>1. Adds(b, rest) = Adds(a, rest)
  <2>1. CASE TypesUrl(a)
    BY <2>1 DEF Adds
  <2>2. CASE ~TypesUrl(a)
    BY <2>2 DEF Adds
  <2> QED
    BY <2>1, <2>2
<1> DEFINE r == Adds(a, rest)
<1>2. r \in Seq(Meanings)
  BY AddsType
<1>3. r # << >> /\ r[1] = Meant(a)
  <2> DEFINE s == IF TypesUrl(a) /\ rest # << >> /\ rest[1] = Meant(PressReturn)
                  THEN Tail(rest) ELSE rest
  <2>1. s \in Seq(Meanings)
    BY HeadTailProperties
  <2>2. r = IF s # << >> /\ s[1] = Meant(a) THEN s ELSE << Meant(a) >> \o s
    BY Zenon DEF Adds
  <2> HIDE DEF s, r
  <2>3. << Meant(a) >> \o s # << >> /\ (<< Meant(a) >> \o s)[1] = Meant(a)
    BY <2>1
  <2> QED
    BY <2>2, <2>3, Zenon
<1> HIDE DEF r
<1>4. TypesUrl(a) => Meant(a) # Meant(PressReturn)
  BY DEF TypesUrl, Meant, PressReturn, LeftClick
<1>5. Adds(a, r) = r
  BY <1>3, <1>4, Zenon DEF Adds
<1> QED
  BY <1>1, <1>5 DEF r

\* Return after a URL adds nothing.
LEMMA AddsReturn ==
  ASSUME NEW a \in Actions, TypesUrl(a), NEW rest \in Seq(Meanings)
  PROVE  Adds(a, Adds(PressReturn, rest)) = Adds(a, rest)
<1> DEFINE R == Meant(PressReturn)
           r == Adds(PressReturn, rest)
<1>1. r = IF rest # << >> /\ rest[1] = R THEN rest ELSE << R >> \o rest
  <2>1. ~TypesUrl(PressReturn)
    BY DEF TypesUrl, PressReturn
  <2> QED
    BY <2>1, Zenon DEF Adds
<1>2. CASE rest # << >> /\ rest[1] = R
  BY <1>1, <1>2
<1>3. CASE ~(rest # << >> /\ rest[1] = R)
  <2> HIDE DEF R, r
  <2>1. r = << R >> \o rest
    BY <1>1, <1>3
  <2>2. r # << >> /\ r[1] = R /\ Tail(r) = rest
    BY <2>1
  <2> DEFINE added == IF rest # << >> /\ rest[1] = Meant(a) THEN rest ELSE << Meant(a) >> \o rest
  <2>3. Adds(a, r) = added
    BY <2>2, Zenon DEF Adds, R
  <2>4. Adds(a, rest) = added
    BY <1>3, Zenon DEF Adds, R
  <2> QED
    BY <2>3, <2>4 DEF r
<1> QED
  BY <1>2, <1>3

\* Lists of actions none of which is a double click on the panel with another button.
Plain == { a \in Actions : ~NamesOtherButton(a) }

\* What normalize_actions makes of a list is for the same as the list.
LEMMA PassesKeepPurpose ==
  ASSUME NEW q \in Seq(Plain)
  PROVE  Purpose(ReturnAfterUrl(SingleClickOnPanel(Compacted(q)))) = Purpose(q)
<1> DEFINE E == SamePurpose
           c == Compacted(q)
           p == SingleClickOnPanel(c)
<1>1. Congruent(E)
  BY PurposeIsCongruent
<1>2. /\ Plain \subseteq Actions /\ q \in Seq(Actions)
      /\ Len(q) \in Nat /\ \A i \in 1 .. Len(q) : q[i] \in Plain
  BY DEF Plain
<1>3. \A a \in Actions : DoubleClick(a.at) \in Plain
  BY DEF DoubleClick, Plain, NamesOtherButton, Actions, Types, Buttons, Texts, Keys, Durations,
         Distances
<1>4. ASSUME NEW a \in Actions, NEW b \in Actions, NEW g \in Actions, NEW s \in Seq(Actions),
             Meant(a) = Meant(b), Meant(g) = Meant(a), TypesUrl(a) <=> TypesUrl(b),
             TypesUrl(g) <=> TypesUrl(a)
      PROVE  << << g >> \o s, << a >> \o (<< b >> \o s) >> \in E
  <2>1. Purpose(s) \in Seq(Meanings) /\ << b >> \o s \in Seq(Actions)
        /\ << g >> \o s \in Seq(Actions) /\ << a >> \o (<< b >> \o s) \in Seq(Actions)
    BY PurposeType
  <2>2. /\ Purpose(<< b >> \o s) = Adds(b, Purpose(s)) /\ Purpose(<< g >> \o s) = Adds(g, Purpose(s))
        /\ Purpose(<< a >> \o (<< b >> \o s)) = Adds(a, Purpose(<< b >> \o s))
    BY <2>1, PurposeCons
  <2>3. Adds(a, Adds(b, Purpose(s))) = Adds(a, Purpose(s)) /\ Adds(a, Purpose(s)) = Adds(g, Purpose(s))
    BY <1>4, <2>1, AddsAgain
  <2> QED
    BY <2>1, <2>2, <2>3 DEF SamePurpose
<1>5. << c, q >> \in E
  <2>1. ASSUME NEW a \in Plain, NEW b \in Plain, NEW s \in Seq(Actions), ClickPair(a, b)
        PROVE  /\ DoubleClick(a.at) \in Actions
               /\ << << DoubleClick(a.at) >> \o s, << a >> \o (<< b >> \o s) >> \in E
    <3>1. /\ Meant(a) = Meant(b) /\ Meant(DoubleClick(a.at)) = Meant(a)
          /\ ~TypesUrl(a) /\ ~TypesUrl(b) /\ ~TypesUrl(DoubleClick(a.at))
      BY <2>1 DEF ClickPair, LeftClick, Meant, DoubleClick, TypesUrl
    <3>2. DoubleClick(a.at) \in Actions /\ a \in Actions /\ b \in Actions
      BY <1>2, <1>3
    <3> HIDE DEF E
    <3> QED
      BY <1>4, <3>1, <3>2
  <2>2. \A a \in Plain, s \in Seq(Actions) : << << a >> \o s, << a >> \o (<< a >> \o s) >> \in E
    BY <1>2, <1>4
  <2> HIDE DEF E
  <2> QED
    BY <1>1, <1>2, <2>1, <2>2, CompactedCongruent
<1>6. c \in Seq(Plain)
  <2>1. \A i \in 1 .. Len(q) : Given(q, i) \in Plain
    BY <1>2, <1>3 DEF Given
  <2> QED
    BY <2>1, CompactedType
<1>7. << p, c >> \in E /\ p \in Seq(Actions)
  <2>1. ASSUME NEW a \in Plain, NEW s \in Seq(Actions)
        PROVE  << << OnPanel(a) >> \o s, << a >> \o s >> \in E
    <3>1. OnPanel(a) \in Actions /\ a \in Actions
      BY <1>2, OnPanelType
    <3>2. Meant(OnPanel(a)) = Meant(a) /\ (TypesUrl(OnPanel(a)) <=> TypesUrl(a))
      BY DEF OnPanel, Meant, LeftClick, TypesUrl, Plain, NamesOtherButton, Actions, Buttons
    <3>3. << << OnPanel(a) >> \o s, << a >> \o (<< a >> \o s) >> \in E
      BY <1>4, <3>1, <3>2
    <3>4. << << a >> \o s, << a >> \o (<< a >> \o s) >> \in E
      BY <1>4, <3>1
    <3> QED
      BY <3>3, <3>4 DEF SamePurpose
  <2> HIDE DEF E, c
  <2> QED
    BY <1>1, <1>2, <1>6, <2>1, PanelCongruent
<1>8. << ReturnAfterUrl(p), p >> \in E
  <2>1. ASSUME NEW a \in Actions, NEW s \in Seq(Actions), TypesUrl(a)
        PROVE  << << a >> \o (<< PressReturn >> \o s), << a >> \o s >> \in E
    <3>1. PressReturn \in Actions
      BY DEF PressReturn, Actions, Types, Buttons, Texts, Keys, Durations, Distances
    <3>2. /\ Purpose(s) \in Seq(Meanings) /\ << PressReturn >> \o s \in Seq(Actions)
          /\ << a >> \o s \in Seq(Actions) /\ << a >> \o (<< PressReturn >> \o s) \in Seq(Actions)
      BY <3>1, PurposeType
    <3>3. /\ Purpose(<< PressReturn >> \o s) = Adds(PressReturn, Purpose(s))
          /\ Purpose(<< a >> \o (<< PressReturn >> \o s)) = Adds(a, Purpose(<< PressReturn >> \o s))
          /\ Purpose(<< a >> \o s) = Adds(a, Purpose(s))
      BY <3>1, <3>2, PurposeCons
    <3>4. Adds(a, Adds(PressReturn, Purpose(s))) = Adds(a, Purpose(s))
      BY <2>1, <3>2, AddsReturn
    <3> QED
      BY <3>2, <3>3, <3>4 DEF SamePurpose
  <2> HIDE DEF E, p
  <2> QED
    BY <1>1, <1>7, <2>1, ReturnCongruent
<1> QED
  BY <1>5, <1>7, <1>8 DEF SamePurpose
----------------------------------------------------------------------------
\* How many actions of a list are in C.
Count(q, C) == Cardinality({ i \in DOMAIN q : q[i] \in C })

\* An action before a list is counted with the rest, if at all.
LEMMA CountCons ==
  ASSUME NEW C, NEW a \in Actions, NEW s \in Seq(Actions)
  PROVE  /\ Count(s, C) \in Nat
         /\ Count(<< a >> \o s, C) = Count(s, C) + (IF a \in C THEN 1 ELSE 0)
<1> DEFINE n == Len(s)
           t == << a >> \o s
           In(q) == { i \in DOMAIN q : q[i] \in C }
           Moved == { i + 1 : i \in In(s) }
<1>1. /\ n \in Nat /\ DOMAIN s = 1 .. n /\ DOMAIN t = 1 .. n + 1 /\ t[1] = a
      /\ \A i \in 1 .. n : t[i + 1] = s[i]
  OBVIOUS
<1> HIDE DEF t
<1>2. IsFiniteSet(In(s)) /\ Cardinality(In(s)) \in Nat
  <2>1. IsFiniteSet(1 .. n)
    BY <1>1, FS_Interval
  <2>2. In(s) \in SUBSET (1 .. n)
    BY <1>1
  <2> HIDE DEF In
  <2> QED
    BY <2>1, <2>2, FS_Subset, FS_CardinalityType
<1>3. IsFiniteSet(Moved) /\ Cardinality(Moved) = Cardinality(In(s))
  <2> DEFINE up == [i \in In(s) |-> i + 1]
  <2>1. up \in Bijection(In(s), Moved)
    <3>1. In(s) \subseteq Int
      BY <1>1
    <3> HIDE DEF In
    <3> QED
      BY <3>1 DEF Bijection, Injection, Surjection, IsInjective
  <2>2. ExistsBijection(In(s), Moved)
    BY <2>1 DEF ExistsBijection
  <2> HIDE DEF In, Moved
  <2> QED
    BY <1>2, <2>2, FS_Bijection
<1>4. In(t) = IF a \in C THEN Moved \cup {1} ELSE Moved
  <2>1. ASSUME NEW i \in 1 .. n + 1
        PROVE  t[i] \in C <=> (i = 1 /\ a \in C) \/ i \in Moved
    <3>1. CASE i = 1
      <4>1. 1 \notin Moved
        BY <1>1
      <4> QED
        BY <1>1, <3>1, <4>1
    <3>2. CASE i # 1
      <4>1. i - 1 \in 1 .. n /\ i - 1 + 1 = i
        BY <1>1, <3>2
      <4>2. t[i] = s[i - 1]
        BY <1>1, <4>1
      <4>3. i \in Moved <=> s[i - 1] \in C
        BY <1>1, <4>1
      <4> HIDE DEF Moved
      <4> QED
        BY <3>2, <4>2, <4>3
    <3> QED
      BY <3>1, <3>2
  <2>2. Moved \subseteq 1 .. n + 1 /\ 1 \in 1 .. n + 1
    BY <1>1
  <2>3. \A i : i \in In(t) <=> i \in 1 .. n + 1 /\ ((i = 1 /\ a \in C) \/ i \in Moved)
    <3> HIDE DEF Moved
    <3> QED
      BY <1>1, <2>1
  <2> HIDE DEF In, Moved
  <2> QED
    BY <2>2, <2>3
<1>5. 1 \notin Moved
  BY <1>1
<1>6. Count(s, C) = Cardinality(In(s)) /\ Count(t, C) = Cardinality(In(t))
  BY DEF Count
<1> HIDE DEF In, Moved
<1>7. a \in C => Cardinality(In(t)) = Cardinality(In(s)) + 1
  <2>1. Cardinality(Moved \cup {1}) = Cardinality(Moved) + 1
    BY <1>3, <1>5, FS_AddElement
  <2> QED
    BY <1>3, <1>4, <2>1
<1>8. a \notin C => Cardinality(In(t)) = Cardinality(In(s))
  BY <1>3, <1>4
<1> QED
  BY <1>2, <1>6, <1>7, <1>8 DEF t

\* The left clicks and the double clicks at a place.
Lefts(at) == { a \in Actions : a.at = at /\ LeftClick(a) }
Doubles(at) == { a \in Actions : a.at = at /\ a.type = "double_click" }

\* How often an action presses the button at a place.
Press(a, at) == (IF a \in Lefts(at) THEN 1 ELSE 0) + 2 * (IF a \in Doubles(at) THEN 1 ELSE 0)

\* The presses of a list are those of its first action and those of the rest.
LEMMA PressesCons ==
  ASSUME NEW at, NEW a \in Actions, NEW s \in Seq(Actions)
  PROVE  /\ Presses(s, at) \in Nat
         /\ Presses(<< a >> \o s, at) = Press(a, at) + Presses(s, at)
<1>1. ASSUME NEW q \in Seq(Actions)
      PROVE  Presses(q, at) = Count(q, Lefts(at)) + 2 * Count(q, Doubles(at))
  <2>1. /\ { i \in DOMAIN q : q[i].at = at /\ LeftClick(q[i]) } = { i \in DOMAIN q : q[i] \in Lefts(at) }
        /\ { i \in DOMAIN q : q[i].at = at /\ q[i].type = "double_click" }
             = { i \in DOMAIN q : q[i] \in Doubles(at) }
    <3>1. \A i \in DOMAIN q : q[i] \in Actions
      OBVIOUS
    <3> QED
      BY <3>1 DEF Lefts, Doubles
  <2> QED
    BY <2>1 DEF Presses, Count
<1>2. << a >> \o s \in Seq(Actions)
  OBVIOUS
<1>3. /\ Count(s, Lefts(at)) \in Nat /\ Count(s, Doubles(at)) \in Nat
      /\ Count(<< a >> \o s, Lefts(at)) = Count(s, Lefts(at)) + (IF a \in Lefts(at) THEN 1 ELSE 0)
      /\ Count(<< a >> \o s, Doubles(at)) = Count(s, Doubles(at)) + (IF a \in Doubles(at) THEN 1 ELSE 0)
  BY CountCons
<1>4. /\ Presses(s, at) = Count(s, Lefts(at)) + 2 * Count(s, Doubles(at))
      /\ Presses(<< a >> \o s, at)
           = Count(<< a >> \o s, Lefts(at)) + 2 * Count(<< a >> \o s, Doubles(at))
  BY <1>1, <1>2
<1> QED
  BY <1>3, <1>4 DEF Press

\* Lists that press the button as often at a place.
SamePresses(at) == { p \in Seq(Actions) \X Seq(Actions) : Presses(p[1], at) = Presses(p[2], at) }

\* What stands before two lists presses the button as often in both.
LEMMA PressesAreCongruent == ASSUME NEW at PROVE Congruent(SamePresses(at))
<1>1. ASSUME NEW a \in Actions, NEW s \in Seq(Actions), NEW t \in Seq(Actions),
             Presses(s, at) = Presses(t, at)
      PROVE  << a >> \o s \in Seq(Actions) /\ << a >> \o t \in Seq(Actions)
             /\ Presses(<< a >> \o s, at) = Presses(<< a >> \o t, at)
  <2>1. /\ Presses(<< a >> \o s, at) = Press(a, at) + Presses(s, at)
        /\ Presses(<< a >> \o t, at) = Press(a, at) + Presses(t, at)
    BY PressesCons
  <2> QED
    BY <1>1, <2>1
<1> QED
  BY <1>1 DEF Congruent, SamePresses

\* What normalize_actions makes of a list presses the button at a place outside the panel
\* as often as the list does, if that asks for no double click there.
LEMMA PassesKeepPresses ==
  ASSUME NEW at, ~OnLaunchers(at[1]), NEW q \in Seq(Actions),
         \A i \in 1 .. Len(q) : q[i].type = "double_click" => q[i].at # at
  PROVE  Presses(ReturnAfterUrl(SingleClickOnPanel(Compacted(q))), at) = Presses(q, at)
<1> DEFINE E == SamePresses(at)
           S == { a \in Actions : a.type = "double_click" => a.at # at }
           c == Compacted(q)
           p == SingleClickOnPanel(c)
<1>1. Congruent(E)
  BY PressesAreCongruent
<1>2. q \in Seq(S) /\ S \subseteq Actions
  <2>1. Len(q) \in Nat /\ q = [i \in 1 .. Len(q) |-> q[i]] /\ \A i \in 1 .. Len(q) : q[i] \in S
    OBVIOUS
  <2> HIDE DEF S
  <2>2. q \in Seq(S)
    BY <2>1
  <2> QED
    BY <2>2 DEF S
<1>3. \A a \in Actions : DoubleClick(a.at) \in Actions
  BY DEF DoubleClick, Actions, Types, Buttons, Texts, Keys, Durations, Distances
<1>4. ASSUME NEW a \in Actions
      PROVE  /\ a.at # at => Press(a, at) = 0
             /\ a.at = at /\ a.type = "double_click" => Press(a, at) = 2
             /\ a.at = at /\ LeftClick(a) => Press(a, at) = 1
             /\ a.type # "double_click" /\ ~LeftClick(a) => Press(a, at) = 0
  <2>1. /\ a \in Lefts(at) <=> a.at = at /\ LeftClick(a)
        /\ a \in Doubles(at) <=> a.at = at /\ a.type = "double_click"
    BY DEF Lefts, Doubles
  <2>2. a.type = "double_click" => ~LeftClick(a)
    BY DEF LeftClick
  <2>3. /\ a \notin Lefts(at) /\ a \notin Doubles(at) => Press(a, at) = 0
        /\ a \notin Lefts(at) /\ a \in Doubles(at) => Press(a, at) = 2
        /\ a \in Lefts(at) /\ a \notin Doubles(at) => Press(a, at) = 1
    BY DEF Press
  <2> QED
    BY <2>1, <2>2, <2>3, Zenon
<1>5. ASSUME NEW a \in Actions, NEW s \in Seq(Actions)
      PROVE  /\ << a >> \o s \in Seq(Actions)
             /\ Presses(<< a >> \o s, at) = Press(a, at) + Presses(s, at)
             /\ Presses(s, at) \in Nat
  <2>1. << a >> \o s \in Seq(Actions)
    OBVIOUS
  <2> QED
    BY <2>1, PressesCons, Zenon
<1>6. << c, q >> \in E
  <2>1. ASSUME NEW a \in S, NEW b \in S, NEW s \in Seq(Actions), ClickPair(a, b)
        PROVE  /\ DoubleClick(a.at) \in Actions
               /\ << << DoubleClick(a.at) >> \o s, << a >> \o (<< b >> \o s) >> \in E
    <3> DEFINE g == DoubleClick(a.at)
    <3>1. g \in Actions /\ a \in Actions /\ b \in Actions
      BY <1>3
    <3>2. /\ g.at = a.at /\ g.type = "double_click" /\ b.at = a.at /\ LeftClick(a) /\ LeftClick(b)
          /\ a.type # "double_click" /\ b.type # "double_click"
      BY <2>1 DEF ClickPair, DoubleClick, LeftClick
    <3> HIDE DEF g, S
    <3>3. Press(g, at) = Press(a, at) + Press(b, at)
          /\ Press(g, at) \in Nat /\ Press(a, at) \in Nat /\ Press(b, at) \in Nat
      <4>1. CASE a.at = at
        <5>1. Press(g, at) = 2 /\ Press(a, at) = 1 /\ Press(b, at) = 1
          BY <1>4, <3>1, <3>2, <4>1
        <5> QED
          BY <5>1
      <4>2. CASE a.at # at
        <5>1. Press(g, at) = 0 /\ Press(a, at) = 0 /\ Press(b, at) = 0
          BY <1>4, <3>1, <3>2, <4>2
        <5> QED
          BY <5>1
      <4> QED
        BY <4>1, <4>2
    <3>4. Presses(<< g >> \o s, at) = Presses(<< a >> \o (<< b >> \o s), at)
          /\ << g >> \o s \in Seq(Actions) /\ << a >> \o (<< b >> \o s) \in Seq(Actions)
      <4>1. << b >> \o s \in Seq(Actions) /\ Presses(<< b >> \o s, at) = Press(b, at) + Presses(s, at)
        BY <1>5, <3>1
      <4>2. /\ << a >> \o (<< b >> \o s) \in Seq(Actions)
            /\ Presses(<< a >> \o (<< b >> \o s), at) = Press(a, at) + Presses(<< b >> \o s, at)
        BY <1>5, <3>1, <4>1
      <4>3. /\ << g >> \o s \in Seq(Actions) /\ Presses(s, at) \in Nat
            /\ Presses(<< g >> \o s, at) = Press(g, at) + Presses(s, at)
        BY <1>5, <3>1
      <4> QED
        BY <3>3, <4>1, <4>2, <4>3
    <3> QED
      BY <3>1, <3>4 DEF SamePresses, g
  <2>2. ASSUME NEW a \in S, NEW s \in Seq(Actions), ~LeftClick(a)
        PROVE  << << a >> \o s, << a >> \o (<< a >> \o s) >> \in E
    <3>1. a \in Actions /\ Press(a, at) = 0
      BY <1>4, <2>2
    <3>2. << a >> \o s \in Seq(Actions) /\ Presses(<< a >> \o s, at) \in Nat
      BY <1>5, <3>1
    <3>3. /\ << a >> \o (<< a >> \o s) \in Seq(Actions)
          /\ Presses(<< a >> \o (<< a >> \o s), at) = Press(a, at) + Presses(<< a >> \o s, at)
      BY <1>5, <3>1, <3>2
    <3>4. Presses(<< a >> \o s, at) = Presses(<< a >> \o (<< a >> \o s), at)
      BY <3>1, <3>2, <3>3
    <3> QED
      BY <3>2, <3>3, <3>4, Zenon DEF SamePresses
  <2> HIDE DEF E, S
  <2> QED
    BY <1>1, <1>2, <2>1, <2>2, CompactedCongruent
<1>7. c \in Seq(Actions)
  <2>1. Len(q) \in Nat /\ \A i \in 1 .. Len(q) : q[i] \in Actions
    OBVIOUS
  <2>2. \A i \in 1 .. Len(q) : Given(q, i) \in Actions
    BY <1>3, <2>1 DEF Given
  <2> QED
    BY <2>2, CompactedType
<1>8. << p, c >> \in E /\ p \in Seq(Actions)
  <2>1. ASSUME NEW a \in Actions, NEW s \in Seq(Actions)
        PROVE  << << OnPanel(a) >> \o s, << a >> \o s >> \in E
    <3>1. OnPanel(a) \in Actions
      BY OnPanelType
    <3>2. Press(OnPanel(a), at) = Press(a, at)
      <4>1. CASE a.type = "double_click" /\ OnLaunchers(a.at[1])
        <5>1. a.at # at /\ OnPanel(a).at = a.at
          BY <4>1 DEF OnPanel
        <5> QED
          BY <1>4, <3>1, <5>1
      <4>2. CASE ~(a.type = "double_click" /\ OnLaunchers(a.at[1]))
        BY <4>2 DEF OnPanel
      <4> QED
        BY <4>1, <4>2
    <3>3. /\ << OnPanel(a) >> \o s \in Seq(Actions) /\ << a >> \o s \in Seq(Actions)
          /\ Presses(<< OnPanel(a) >> \o s, at) = Press(OnPanel(a), at) + Presses(s, at)
          /\ Presses(<< a >> \o s, at) = Press(a, at) + Presses(s, at)
      BY <1>5, <3>1
    <3> QED
      BY <3>2, <3>3 DEF SamePresses
  <2>2. Actions \in SUBSET Actions
    OBVIOUS
  <2> HIDE DEF E, c
  <2> QED
    BY <1>1, <1>7, <2>1, <2>2, PanelCongruent
<1>9. << ReturnAfterUrl(p), p >> \in E
  <2>1. ASSUME NEW a \in Actions, NEW s \in Seq(Actions), TypesUrl(a)
        PROVE  << << a >> \o (<< PressReturn >> \o s), << a >> \o s >> \in E
    <3>1. PressReturn \in Actions
      BY DEF PressReturn, Actions, Types, Buttons, Texts, Keys, Durations, Distances
    <3>2. Press(PressReturn, at) = 0
      <4>1. PressReturn.type # "double_click" /\ ~LeftClick(PressReturn)
        BY DEF PressReturn, LeftClick
      <4> QED
        BY <1>4, <3>1, <4>1
    <3>3. << PressReturn >> \o s \in Seq(Actions) /\ Presses(<< PressReturn >> \o s, at) = Presses(s, at)
      <4>1. Presses(<< PressReturn >> \o s, at) = Press(PressReturn, at) + Presses(s, at)
        BY <1>5, <3>1
      <4> QED
        BY <1>5, <3>1, <3>2, <4>1
    <3>4. /\ << a >> \o s \in Seq(Actions) /\ << a >> \o (<< PressReturn >> \o s) \in Seq(Actions)
          /\ Presses(<< a >> \o s, at) = Press(a, at) + Presses(s, at)
          /\ Presses(<< a >> \o (<< PressReturn >> \o s), at)
               = Press(a, at) + Presses(<< PressReturn >> \o s, at)
      BY <1>5, <3>3
    <3> QED
      BY <3>3, <3>4 DEF SamePresses
  <2> HIDE DEF E, p
  <2> QED
    BY <1>1, <1>8, <2>1, ReturnCongruent
<1> QED
  BY <1>6, <1>8, <1>9 DEF SamePresses

\* normalize_actions drops repetitions only, from every list it does not raise a
\* ValueError for: the actions that remain are for the same, and the clicks outside the
\* panel are all made.
PROPOSITION MeaningIsKept ==
  ASSUME NEW raws \in Seq(RawActions), AllValid(raws)
  PROVE  KeepsMeaning(raws, Normalized(raws))
<1> DEFINE q == Cleaned(raws)
<1>1. q \in Seq(Actions)
  BY CleanedType
<1>2. Normalized(raws) = ReturnAfterUrl(SingleClickOnPanel(Compacted(q)))
  BY DEF Normalized
<1>3. KeepsMeaning(raws, Normalized(raws)) =
        (/\ (\A i \in DOMAIN q : ~NamesOtherButton(q[i])) => Purpose(Normalized(raws)) = Purpose(q)
         /\ \A i \in DOMAIN q :
              (/\ LeftClick(q[i]) /\ ~OnLaunchers(q[i].at[1])
               /\ \A j \in DOMAIN q : q[j].type = "double_click" => q[j].at # q[i].at)
                 => Presses(Normalized(raws), q[i].at) = Presses(q, q[i].at))
  BY DEF KeepsMeaning
<1> HIDE DEF q
<1>4. Len(q) \in Nat /\ DOMAIN q = 1 .. Len(q) /\ \A i \in 1 .. Len(q) : q[i] \in Actions
  BY <1>1
<1>5. ASSUME \A i \in DOMAIN q : ~NamesOtherButton(q[i])
      PROVE  Purpose(Normalized(raws)) = Purpose(q)
  <2>1. q = [i \in 1 .. Len(q) |-> q[i]] /\ \A i \in 1 .. Len(q) : q[i] \in Plain
    BY <1>1, <1>4, <1>5 DEF Plain
  <2>2. q \in Seq(Plain)
    BY <1>4, <2>1
  <2> QED
    BY <1>2, <2>2, PassesKeepPurpose
<1>6. ASSUME NEW i \in DOMAIN q, ~OnLaunchers(q[i].at[1]),
             \A j \in DOMAIN q : q[j].type = "double_click" => q[j].at # q[i].at
      PROVE  Presses(Normalized(raws), q[i].at) = Presses(q, q[i].at)
  <2> DEFINE at == q[i].at
  <2>1. ~OnLaunchers(at[1]) /\ \A j \in 1 .. Len(q) : q[j].type = "double_click" => q[j].at # at
    BY <1>4, <1>6
  <2> HIDE DEF at
  <2>2. Presses(Normalized(raws), at) = Presses(q, at)
    BY <1>1, <1>2, <2>1, PassesKeepPresses
  <2> QED
    BY <2>2 DEF at
<1> QED
  BY <1>3, <1>5, <1>6
===============================================================================
