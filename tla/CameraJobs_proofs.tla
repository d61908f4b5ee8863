--------------------------- MODULE CameraJobs_proofs ---------------------------
(***************************************************************************)
(* For any plan, policies, sky, panels, sweep, gears and any number of      *)
(* faults: a run images as it should, what solving jobs find is there, the  *)
(* flats search finds its exposure, the points of autofocus are where they  *)
(* say and the focuser comes back.                                          *)
(***************************************************************************)
EXTENDS CameraJobs, FiniteSets, FiniteSetTheorems, SequenceTheorems, WellFoundedInduction, TLAPS

----------------------------------------------------------------------------
(* Numbers *)

\* Of natural numbers, there is a least.
LEMMA LeastExists ==
  ASSUME NEW T \in SUBSET Nat, T # {}
  PROVE  \E x \in T : \A y \in T : x <= y
<1> DEFINE R == {ss \in Nat \X Nat : ss[1] < ss[2]}
<1>1. IsWellFoundedOn(R, Nat)
  BY NatLessThanWellFounded DEF OpToRel
<1> HIDE DEF R
<1>2. PICK x \in T : \A y \in T : ~(<<y, x>> \in R)
  BY <1>1, WFMin
<1>3. \A y \in T : ~(y < x)
  BY <1>2 DEF R
<1>4. QED
  BY <1>3

\* Remainders, of small numbers and of numbers that differ by a multiple.
LEMMA SmallRemainder ==
  ASSUME NEW n \in Nat \ {0}, NEW a \in (-n)..(2 * n - 1)
  PROVE  a % n = IF a < 0 THEN a + n ELSE IF a < n THEN a ELSE a - n
OBVIOUS

LEMMA SameRemainder ==
  ASSUME NEW n \in Nat \ {0}, NEW r \in 0..(n - 1), NEW s \in 0..(n - 1), NEW k \in Int,
         r - s = k * n
  PROVE  r = s
<1>1. CASE k >= 1
  <2>1. k * n >= n
    BY <1>1
  <2>2. QED
    BY <2>1
<1>2. CASE k <= -1
  <2>1. k * n <= -n
    BY <1>2
  <2>2. QED
    BY <2>1
<1>3. CASE k = 0
  BY <1>3
<1>4. QED
  BY <1>1, <1>2, <1>3

LEMMA Congruent ==
  ASSUME NEW n \in Nat \ {0}, NEW a \in Int, NEW b \in Int, NEW k \in Int, a - b = k * n
  PROVE  a % n = b % n
<1> DEFINE p == a \div n
           q == b \div n
           m == k - p + q
           pn == p * n
           qn == q * n
           an == a % n
           bn == b % n
<1>1. /\ p \in Int /\ q \in Int
      /\ a = (p * n) + (a % n) /\ b = (q * n) + (b % n)
      /\ a % n \in 0..(n - 1) /\ b % n \in 0..(n - 1)
  OBVIOUS
<1> HIDE DEF p, q
<1>2. m \in Int /\ m * n = (k * n) - (p * n) + (q * n)
  BY <1>1
<1> HIDE DEF m
<1>3. pn \in Int /\ qn \in Int /\ an \in Int /\ bn \in Int
  BY <1>1
<1>4. a = pn + an /\ b = qn + bn /\ m * n = (a - b) - pn + qn
  BY <1>1, <1>2
<1> HIDE DEF pn, qn, an, bn
<1>5. an - bn = m * n
  BY <1>3, <1>4
<1>6. QED
  BY <1>1, <1>2, <1>5, SameRemainder DEF an, bn

----------------------------------------------------------------------------
(* A run that images: its types *)

Sides == {"before", "after"}
Kinds == {"solve", "device", "flip", "guiding", "focus", "clouds"}

RunType ==
  [at : {"safe", "step", "wait", "meridian", "paused", "over"},
   step : {"center", "filter", "flip", "dither", "focus", "frame"},
   left : Int, tries : Int, slewed : BOOLEAN, before : Sides,
   filter : I!Filters \cup {"none"}, then : {"none", "safe", "wait", "meridian"},
   asked : BOOLEAN, flipping : BOOLEAN, guarded : BOOLEAN]

CpType ==
  [done : [DOMAIN Rows -> Nat], row : 0..Len(Rows), inBatch : 0..Batch, sinceDither : Nat,
   focused : I!Filters \cup {"none"}, pointed : {"no", "east", "west"}]

ImagingTypes ==
  /\ night \in [ha : Int, dawn : BOOLEAN]
  /\ pier \in [on : BOOLEAN, side : Sides, tracking : {"on", "off", "guard"}]
  /\ wheel \in I!Filters
  /\ cp \in CpType /\ imaging \in RunType /\ policy \in Policies
  /\ bounds \in [faults : Nat, hands : Nat, lapsed : BOOLEAN, late : BOOLEAN]

----------------------------------------------------------------------------
(* The plan: rows take turns *)

Todo == {i \in DOMAIN Rows : cp.done[i] < Rows[i].count}

\* The row's batch goes on.
GoesOn == cp.row \in Todo /\ cp.inBatch < Batch

\* How far after the last row another one comes.
Distance(i) == IF i > cp.row THEN i - 1 - cp.row ELSE i - 1 - cp.row + Len(Rows)

LEMMA RowTypes ==
  ASSUME I!ImagingAssumption
  PROVE  /\ Len(Rows) \in Nat /\ DOMAIN Rows = 1..Len(Rows) /\ Batch \in Nat \ {0}
         /\ \A i \in DOMAIN Rows : /\ Rows[i].count \in Nat /\ Rows[i].length \in Nat \ {0}
                                  /\ Rows[i].filter \in I!Filters /\ Rows[i].filter # "none"
<1> DEFINE S == [filter : STRING \ {"none"}, count : Nat, length : Nat \ {0}]
<1>1. Rows \in Seq(S) /\ Batch \in Nat \ {0}
  BY DEF I!ImagingAssumption
<1> HIDE DEF S
<1>2. Len(Rows) \in Nat /\ DOMAIN Rows = 1..Len(Rows) /\ \A i \in DOMAIN Rows : Rows[i] \in S
  BY <1>1
<1>3. \A i \in DOMAIN Rows : Rows[i].filter \in I!Filters
  BY DEF I!Filters
<1>4. QED
  BY <1>1, <1>2, <1>3 DEF S

LEMMA NextRowIs ==
  ASSUME I!ImagingAssumption, cp \in CpType
  PROVE  /\ I!NextRow = 0 <=> Todo = {}
         /\ Todo # {} => I!NextRow \in Todo
         /\ GoesOn => I!NextRow = cp.row
         /\ Todo # {} /\ ~GoesOn => \A j \in Todo : Distance(I!NextRow) <= Distance(j)
<1>r. Len(Rows) \in Nat /\ DOMAIN Rows = 1..Len(Rows)
  BY RowTypes
<1>1. Todo = {} => I!NextRow = 0
  BY DEF I!NextRow, Todo
<1>2. GoesOn => I!NextRow = cp.row
  BY DEF I!NextRow, Todo, GoesOn
<1>3. ASSUME Todo # {}, ~GoesOn
      PROVE  /\ I!NextRow \in Todo
             /\ \A j \in Todo : Distance(I!NextRow) <= Distance(j)
  <2>1. ASSUME NEW i \in Todo PROVE I!Modulo(i - 1 - cp.row) = Distance(i) /\ Distance(i) \in Nat
    <3> DEFINE n == Len(Rows)
               a == i - 1 - cp.row
    <3>1. i \in 1..n /\ cp.row \in 0..n /\ n \in Nat
      BY <1>r DEF Todo, CpType
    <3> HIDE DEF n
    <3>2. a \in (-n)..(2 * n - 1) /\ n \in Nat \ {0} /\ a < n
      BY <3>1
    <3>3. a % n = IF a < 0 THEN a + n ELSE a
      BY <3>2, SmallRemainder
    <3>4. I!Modulo(a) = a % n
      BY DEF I!Modulo, n
    <3>5. Distance(i) = IF a < 0 THEN a + n ELSE a
      BY <3>1 DEF Distance, n
    <3>6. QED
      BY <3>1, <3>2, <3>3, <3>4, <3>5
  <2>2. \E i \in Todo : \A j \in Todo : Distance(i) <= Distance(j)
    <3> DEFINE T == {Distance(i) : i \in Todo}
    <3>1. T \in SUBSET Nat /\ T # {}
      BY <1>3, <2>1
    <3>2. PICK x \in T : \A y \in T : x <= y
      BY <3>1, LeastExists
    <3>3. QED
      BY <3>2
  <2>3. \E i \in Todo : \A j \in Todo : I!Modulo(i - 1 - cp.row) <= I!Modulo(j - 1 - cp.row)
    BY <2>1, <2>2
  <2>4. I!NextRow = CHOOSE i \in Todo : \A j \in Todo :
                      I!Modulo(i - 1 - cp.row) <= I!Modulo(j - 1 - cp.row)
    BY <1>3 DEF I!NextRow, Todo, GoesOn
  <2>5. /\ I!NextRow \in Todo
        /\ \A j \in Todo : I!Modulo(I!NextRow - 1 - cp.row) <= I!Modulo(j - 1 - cp.row)
    BY <2>3, <2>4
  <2>6. QED
    BY <2>1, <2>5
<1>4. QED
  BY <1>r, <1>1, <1>2, <1>3 DEF Todo, GoesOn

\* A round of turns begins at "base" frames of each row: those before the last row have had
\* their batch, the last row has had some of it, and those after it not.
Turns(base) ==
  \A i \in Todo : cp.done[i] = IF i < cp.row THEN base + Batch
                               ELSE IF i = cp.row THEN base + cp.inBatch ELSE base

RowsInv == /\ \A i \in DOMAIN Rows : cp.done[i] <= Rows[i].count
           /\ \E base \in Nat : Turns(base)

LEMMA RowsHold == ASSUME I!ImagingAssumption, cp \in CpType, RowsInv PROVE I!RowsTakeTurns
<1>1. PICK base \in Nat : Turns(base)
  BY DEF RowsInv
<1>2. Batch \in Nat /\ cp.inBatch \in 0..Batch /\ \A i \in DOMAIN Rows : cp.done[i] \in Nat
  BY RowTypes DEF CpType
<1>3. ASSUME NEW i \in Todo PROVE cp.done[i] >= base /\ cp.done[i] <= base + Batch
  BY <1>1, <1>2, <1>3 DEF Turns
<1>4. QED
  BY <1>1, <1>2, <1>3 DEF I!RowsTakeTurns, RowsInv, Todo

LEMMA CountKeepsRows ==
  ASSUME I!ImagingAssumption, cp \in CpType, RowsInv, I!NextRow # 0, cp' = I!CountFrame(I!NextRow)
  PROVE  cp' \in CpType /\ RowsInv'
<1> DEFINE n == I!NextRow
<1>1. n \in Todo /\ n \in DOMAIN Rows
  BY NextRowIs DEF Todo
<1>2. /\ Len(Rows) \in Nat /\ DOMAIN Rows = 1..Len(Rows) /\ Batch \in Nat \ {0}
      /\ cp.done \in [DOMAIN Rows -> Nat] /\ cp.row \in 0..Len(Rows) /\ cp.inBatch \in 0..Batch
      /\ \A i \in DOMAIN Rows : Rows[i].count \in Nat
  BY RowTypes DEF CpType
<1>3. PICK base \in Nat : Turns(base)
  BY DEF RowsInv
<1>4. GoesOn => n = cp.row
  BY NextRowIs
<1>5. ~GoesOn => \A j \in Todo : Distance(n) <= Distance(j)
  BY <1>1, NextRowIs
<1> HIDE DEF n
<1>6. cp' = I!CountFrame(n)
  BY DEF n
<1>7. /\ cp'.done = [cp.done EXCEPT ![n] = @ + 1] /\ cp'.row = n
      /\ cp'.inBatch = IF cp.row # n \/ cp.inBatch >= Batch THEN 1 ELSE cp.inBatch + 1
  BY <1>6 DEF CpType, I!CountFrame
<1>8. cp' \in CpType
  <2> DEFINE d == [cp.done EXCEPT ![n] = @ + 1]
             b == IF cp.row # n \/ cp.inBatch >= Batch THEN 1 ELSE cp.inBatch + 1
  <2>1. cp' = [cp EXCEPT !.done = d, !.sinceDither = @ + 1, !.row = n, !.inBatch = b]
    BY <1>6 DEF CpType, I!CountFrame
  <2>2. d \in [DOMAIN Rows -> Nat] /\ n \in 0..Len(Rows) /\ b \in 0..Batch
    BY <1>1, <1>2
  <2> HIDE DEF d, b
  <2>3. cp' = [done |-> d, row |-> n, inBatch |-> b, sinceDither |-> cp.sinceDither + 1,
               focused |-> cp.focused, pointed |-> cp.pointed]
    BY <2>1 DEF CpType
  <2>4. QED
    BY <2>2, <2>3 DEF CpType
<1>9. Todo' \subseteq Todo /\ \A i \in DOMAIN Rows : cp'.done[i] <= Rows[i].count
  BY <1>1, <1>2, <1>7 DEF RowsInv, Todo
<1>10. \E b \in Nat : Turns(b)'
  <2>1. CASE GoesOn
    <3>1. Turns(base)'
      BY <1>1, <1>2, <1>3, <1>4, <1>7, <1>9, <2>1 DEF Turns, GoesOn
    <3>2. QED
      BY <3>1
  <2>2. CASE ~GoesOn /\ n > cp.row
    <3>1. \A j \in Todo : j > cp.row => j >= n
      BY <1>1, <1>2, <1>5, <2>2 DEF Distance, Todo
    <3>2. ASSUME NEW i \in Todo' PROVE (cp.done[i] = IF i < n THEN base + Batch ELSE base) /\ i \in Todo
      <4>1. i \in Todo /\ i \in 1..Len(Rows) /\ n \in 1..Len(Rows)
        BY <1>1, <1>2, <1>9 DEF Todo
      <4>2. cp.done[i] = IF i < cp.row THEN base + Batch
                         ELSE IF i = cp.row THEN base + cp.inBatch ELSE base
        BY <1>3, <4>1 DEF Turns
      <4>3. i = cp.row => cp.inBatch = Batch
        BY <1>2, <2>2, <4>1 DEF GoesOn
      <4>4. QED
        BY <1>2, <2>2, <3>1, <4>1, <4>2, <4>3
    <3>3. Turns(base)'
      BY <1>1, <1>2, <1>7, <2>2, <3>2 DEF Turns, Todo
    <3>4. QED
      BY <3>3
  <2>3. CASE ~GoesOn /\ n <= cp.row
    <3>1. ASSUME NEW j \in Todo PROVE j <= cp.row /\ j >= n
      <4>1. j \in 1..Len(Rows) /\ n \in 1..Len(Rows) /\ Distance(n) <= Distance(j)
        BY <1>1, <1>2, <1>5, <2>3 DEF Todo
      <4>2. QED
        BY <1>2, <2>3, <4>1 DEF Distance
    <3>2. ASSUME NEW i \in Todo' PROVE cp.done[i] = base + Batch /\ i \in Todo /\ i >= n
      <4>1. i \in Todo /\ i \in 1..Len(Rows) /\ i <= cp.row /\ i >= n
        BY <1>2, <1>9, <3>1 DEF Todo
      <4>2. cp.done[i] = IF i < cp.row THEN base + Batch
                         ELSE IF i = cp.row THEN base + cp.inBatch ELSE base
        BY <1>3, <4>1 DEF Turns
      <4>3. i = cp.row => cp.inBatch = Batch
        BY <1>2, <2>3, <4>1 DEF GoesOn
      <4>4. QED
        BY <1>2, <4>1, <4>2, <4>3
    <3>3. Turns(base + Batch)'
      <4> DEFINE b == base + Batch
      <4>1. b \in Nat /\ cp'.inBatch = 1
        BY <1>2, <1>3, <1>7, <2>3, <1>1, <1>4 DEF GoesOn
      <4>2. ASSUME NEW i \in Todo'
            PROVE  cp'.done[i] = IF i < cp'.row THEN b + Batch
                                 ELSE IF i = cp'.row THEN b + cp'.inBatch ELSE b
        BY <1>1, <1>2, <1>7, <3>2, <4>1, <4>2 DEF Todo
      <4>3. QED
        BY <4>2 DEF Turns
    <3>4. QED
      BY <1>2, <3>3
  <2>4. QED
    BY <1>1, <1>2, <2>1, <2>2, <2>3 DEF Todo
<1>11. QED
  BY <1>8, <1>9, <1>10 DEF RowsInv
----------------------------------------------------------------------------
(* A run that images: what it and its guard know *)

\* The step is under way, or will be tried again.
Pending == imaging.at \in {"step", "wait"} \/ (imaging.at = "paused" /\ imaging.then = "wait")

StepsInv ==
  /\ Pending /\ imaging.step \in {"frame", "filter"} => I!NextRow # 0
  /\ Pending /\ imaging.step = "flip" => imaging.flipping
  /\ Pending /\ imaging.step = "center" => cp.pointed = "no"
  /\ imaging.at = "step" /\ imaging.step \in {"center", "flip"} /\ imaging.slewed
       => pier.tracking = "on"
  /\ imaging.at = "paused" => imaging.then # "none"

\* Where the mount is, as far as the guard and the flip trigger have to know.
PierInv ==
  /\ cp.pointed = "west" => night.ha >= 0 /\ (pier.side = "after" \/ bounds.late)
  /\ imaging.guarded => /\ night.ha > After + Margin
                        /\ \/ bounds.lapsed \/ pier.side = "after"
                           \/ pier.tracking # "on" \/ ~pier.on
  /\ pier.tracking = "guard" => cp.pointed = "east" /\ night.ha > After + Margin

\* The wheel holds the filter the runner knows of, unless it is turning it or has lent it.
WheelInv ==
  imaging.filter = "none" \/ imaging.at \in {"over", "paused"}
    \/ (imaging.step = "filter" /\ imaging.at \in {"step", "wait"}) \/ wheel = imaging.filter

RunInv == StepsInv /\ PierInv /\ WheelInv
ImagingInv == ImagingTypes /\ RunInv /\ RowsInv

LEMMA ImagingNumbers ==
  ASSUME I!ImagingAssumption
  PROVE  After \in Nat /\ Margin \in Nat /\ Before \in Nat
BY DEF I!ImagingAssumption

\* Where no frame is counted, the rows stay as they are.
LEMMA SameRows ==
  ASSUME cp \in CpType, cp' \in CpType, cp'.done = cp.done, cp'.row = cp.row, cp'.inBatch = cp.inBatch
  PROVE  I!NextRow' = I!NextRow /\ (RowsInv => RowsInv')
<1>1. Todo' = Todo
  BY DEF Todo
<1>2. I!NextRow' = I!NextRow
  BY DEF I!NextRow
<1>3. QED
  BY <1>1, <1>2 DEF RowsInv, Turns

LEMMA StepLength ==
  ASSUME I!ImagingAssumption, cp \in CpType, NEW s, s = "frame" => I!NextRow # 0
  PROVE  I!Length(s) \in Nat
<1>1. s = "frame" => I!NextRow \in DOMAIN Rows
  BY NextRowIs DEF Todo
<1>2. QED
  BY <1>1, RowTypes DEF I!Length

LEMMA TriesShape ==
  ASSUME I!ImagingAssumption, ImagingTypes, NEW s, NEW n \in Int,
         s \in {"center", "filter", "flip", "dither", "focus", "frame"},
         s = "frame" => I!NextRow # 0
  PROVE  LET r == I!Tries(s, n)
         IN /\ r \in RunType
            /\ r.at = "step" /\ r.step = s /\ ~r.slewed /\ r.filter = imaging.filter
            /\ r.then = imaging.then /\ r.flipping = imaging.flipping /\ r.guarded = imaging.guarded
<1>1. I!Length(s) \in Int
  BY StepLength DEF ImagingTypes
<1>2. QED
  BY <1>1 DEF I!Tries, ImagingTypes, RunType, Sides

\* What becomes of a step that fails, whatever the policy.
LEMMA FailsShape ==
  ASSUME I!ImagingAssumption, ImagingTypes, NEW kind \in Kinds, I!Fails(kind)
  PROVE  /\ imaging' \in RunType /\ cp' \in CpType
         /\ imaging'.at \in {"wait", "paused", "over", "safe"}
         /\ imaging'.at = "safe" => imaging.step \notin {"frame", "filter"}
         /\ imaging'.at \in {"wait", "paused"} => imaging'.flipping = imaging.flipping
         /\ imaging'.at = "paused" => imaging'.then = "wait"
         /\ imaging'.step = imaging.step /\ imaging'.filter = imaging.filter
         /\ imaging'.guarded = imaging.guarded
         /\ cp'.done = cp.done /\ cp'.row = cp.row /\ cp'.inBatch = cp.inBatch
         /\ cp'.pointed = cp.pointed
<1>1. policy[kind] \in [retries : Nat, wait : Nat, then : {"skip", "skip_target", "end", "pause"}]
  <2>1. Policies \subseteq [Kinds -> [retries : Nat, wait : Nat,
                                    then : {"skip", "skip_target", "end", "pause"}]]
    BY DEF I!ImagingAssumption, Kinds
  <2>2. QED
    BY <2>1 DEF ImagingTypes
<1>2. ASSUME I!Ends("over") \/ I!Ends("safe")
      PROVE  /\ imaging' \in RunType
             /\ imaging'.at \in {"over", "safe"} /\ (I!Ends("over") => imaging'.at = "over")
             /\ imaging'.step = imaging.step /\ imaging'.filter = imaging.filter
             /\ imaging'.guarded = imaging.guarded
  BY <1>2 DEF I!Ends, ImagingTypes, RunType
<1>3. cp' = cp \/ cp' = [cp EXCEPT !.focused = imaging.filter]
  BY DEF I!Fails, I!Skips
<1>4. /\ cp' \in CpType /\ cp'.done = cp.done /\ cp'.row = cp.row /\ cp'.inBatch = cp.inBatch
      /\ cp'.pointed = cp.pointed
  BY <1>3 DEF ImagingTypes, CpType, RunType
<1>5. CASE imaging' = [imaging EXCEPT !.at = "wait", !.left = policy[kind].wait, !.tries = @ + 1]
  <2> DEFINE w == policy[kind].wait
  <2>1. w \in Int /\ imaging.tries + 1 \in Int
    BY <1>1 DEF ImagingTypes, RunType
  <2>2. imaging' = [imaging EXCEPT !.at = "wait", !.left = w, !.tries = imaging.tries + 1]
    BY <1>5 DEF ImagingTypes, RunType
  <2> HIDE DEF w
  <2>3. imaging' \in RunType
    BY <2>1, <2>2 DEF ImagingTypes, RunType
  <2>4. QED
    BY <1>4, <2>2, <2>3 DEF ImagingTypes, RunType
<1>6. CASE imaging' = [imaging EXCEPT !.at = "paused", !.then = "wait", !.left = 0, !.tries = 0]
  <2> DEFINE z == 0
  <2>1. imaging' = [imaging EXCEPT !.at = "paused", !.then = "wait", !.left = z, !.tries = z]
    BY <1>6 DEF ImagingTypes, RunType
  <2>2. z \in Int
    OBVIOUS
  <2> HIDE DEF z
  <2>3. imaging' \in RunType
    BY <2>1, <2>2 DEF ImagingTypes, RunType
  <2>4. QED
    BY <1>4, <2>1, <2>3 DEF ImagingTypes, RunType
<1>7. CASE I!Skips
  BY <1>2, <1>4, <1>7 DEF I!Skips
<1>8. CASE I!Ends("over")
  BY <1>2, <1>4, <1>8
<1>9. QED
  BY <1>5, <1>6, <1>7, <1>8 DEF I!Fails

\* A step that counts no frame keeps the invariant when it keeps what it knows.
LEMMA ImagingParts ==
  ASSUME ImagingInv, ImagingTypes', cp'.done = cp.done, cp'.row = cp.row, cp'.inBatch = cp.inBatch,
         I!NextRow' = I!NextRow => RunInv'
  PROVE  ImagingInv'
BY SameRows DEF ImagingInv, ImagingTypes

USE DEF I!At, I!Doing

LEMMA EndShape ==
  ASSUME ImagingTypes, NEW how \in {"over", "safe"}, I!Ends(how)
  PROVE  /\ imaging' \in RunType /\ imaging'.at = how /\ imaging'.step = imaging.step
         /\ imaging'.filter = imaging.filter /\ imaging'.guarded = imaging.guarded
BY DEF ImagingTypes, RunType, I!Ends

LEMMA EndKeeps ==
  ASSUME I!ImagingAssumption, ImagingInv, NEW how \in {"over", "safe"}, I!Ends(how),
         UNCHANGED <<night, pier, wheel, policy, bounds>>,
         cp' = cp \/ cp' = [cp EXCEPT !.focused = imaging.filter],
         how = "safe" => imaging.at = "step" /\ imaging.step \in {"dither", "focus"}
  PROVE  ImagingInv'
<1>1. /\ imaging' \in RunType /\ imaging'.at = how /\ imaging'.step = imaging.step
      /\ imaging'.filter = imaging.filter /\ imaging'.guarded = imaging.guarded
  BY EndShape DEF ImagingInv
<1>2. /\ cp' \in CpType /\ cp'.done = cp.done /\ cp'.row = cp.row /\ cp'.inBatch = cp.inBatch
      /\ cp'.pointed = cp.pointed
  BY DEF ImagingInv, ImagingTypes, CpType, RunType
<1>3. ImagingTypes'
  BY <1>1, <1>2 DEF ImagingInv, ImagingTypes
<1>4. RunInv'
  BY <1>1, <1>2 DEF ImagingInv, ImagingTypes, RunInv, StepsInv, PierInv, WheelInv, Pending
<1>5. QED
  BY <1>2, <1>3, <1>4, ImagingParts

LEMMA PlanDoneKeeps == ASSUME I!ImagingAssumption, ImagingInv, I!PlanDone PROVE ImagingInv'
BY EndKeeps DEF I!PlanDone

LEMMA SafePointKeeps == ASSUME I!ImagingAssumption, ImagingInv, I!SafePoint PROVE ImagingInv'
<1>1. CASE night.dawn
  BY <1>1, EndKeeps DEF I!SafePoint
<1>2. CASE ~night.dawn /\ I!Due = "meridian"
  <2> DEFINE one == 1
  <2>1. one \in Int /\ imaging' = [imaging EXCEPT !.at = "meridian", !.left = one] /\ UNCHANGED cp
    BY <1>2 DEF I!SafePoint
  <2> HIDE DEF one
  <2>2. ImagingTypes'
    BY <2>1 DEF I!SafePoint, ImagingInv, ImagingTypes, RunType
  <2>3. RunInv'
    BY <2>1 DEF I!SafePoint, ImagingInv, ImagingTypes, RunType, RunInv, StepsInv,
                PierInv, WheelInv, Pending
  <2>4. QED
    BY <2>1, <2>2, <2>3, ImagingParts
<1>3. CASE ~night.dawn /\ I!Due # "meridian"
  <2> DEFINE r == I!Tries(I!Due, 0)
  <2>1. I!Due \in {"filter", "flip", "dither", "focus", "frame"} /\ I!NextRow # 0
    BY <1>3 DEF I!Due, I!SafePoint
  <2>2. /\ r \in RunType
        /\ r.at = "step" /\ r.step = I!Due /\ ~r.slewed /\ r.filter = imaging.filter
        /\ r.then = imaging.then /\ r.guarded = imaging.guarded
    BY <2>1, TriesShape DEF ImagingInv
  <2>3. /\ imaging' = [r EXCEPT !.flipping = I!Due = "flip"]
        /\ cp' = IF I!Due = "dither" THEN [cp EXCEPT !.sinceDither = 0] ELSE cp
    BY <1>3 DEF I!SafePoint
  <2> HIDE DEF r
  <2>4. /\ imaging' \in RunType /\ imaging'.at = "step" /\ imaging'.step = I!Due
        /\ ~imaging'.slewed /\ imaging'.filter = imaging.filter
        /\ imaging'.guarded = imaging.guarded /\ (I!Due = "flip" => imaging'.flipping)
    BY <2>2, <2>3 DEF RunType
  <2>5. /\ cp' \in CpType /\ cp'.done = cp.done /\ cp'.row = cp.row /\ cp'.inBatch = cp.inBatch
        /\ cp'.pointed = cp.pointed
    BY <2>3 DEF ImagingInv, ImagingTypes, CpType
  <2>6. ImagingTypes'
    BY <2>4, <2>5 DEF I!SafePoint, ImagingInv, ImagingTypes
  <2>7. I!NextRow' = I!NextRow => RunInv'
    BY <2>1, <2>4, <2>5 DEF I!SafePoint, ImagingInv, ImagingTypes, RunInv, StepsInv, PierInv,
                            WheelInv, Pending
  <2>8. QED
    BY <2>5, <2>6, <2>7, ImagingParts
<1>4. QED
  BY <1>1, <1>2, <1>3

LEMMA WaitOverKeeps == ASSUME I!ImagingAssumption, ImagingInv, I!WaitOver PROVE ImagingInv'
<1>1. CASE night.dawn
  BY <1>1, EndKeeps DEF I!WaitOver
<1>2. CASE ~night.dawn
  <2>1. /\ imaging.at = "wait" /\ imaging' = I!Tries(imaging.step, imaging.tries)
        /\ UNCHANGED <<night, pier, wheel, cp, policy, bounds>>
    BY <1>2 DEF I!WaitOver
  <2>2. /\ imaging.step = "frame" => I!NextRow # 0
        /\ imaging.tries \in Int
        /\ imaging.step \in {"center", "filter", "flip", "dither", "focus", "frame"}
    BY <2>1 DEF ImagingInv, ImagingTypes, RunType, RunInv, StepsInv, Pending
  <2>3. /\ imaging' \in RunType
        /\ imaging'.at = "step" /\ imaging'.step = imaging.step /\ ~imaging'.slewed
        /\ imaging'.filter = imaging.filter /\ imaging'.then = imaging.then
        /\ imaging'.flipping = imaging.flipping /\ imaging'.guarded = imaging.guarded
    BY <2>1, <2>2, TriesShape DEF ImagingInv
  <2>4. ImagingTypes'
    BY <2>1, <2>3 DEF ImagingInv, ImagingTypes
  <2>5. I!NextRow' = I!NextRow => RunInv'
    BY <2>1, <2>2, <2>3 DEF ImagingInv, ImagingTypes, RunInv, StepsInv, PierInv, WheelInv, Pending
  <2>6. QED
    BY <2>1, <2>4, <2>5, ImagingParts
<1>3. QED
  BY <1>1, <1>2

LEMMA MeridianOverKeeps == ASSUME I!ImagingAssumption, ImagingInv, I!MeridianOver PROVE ImagingInv'
<1>1. CASE night.dawn
  BY <1>1, EndKeeps DEF I!MeridianOver
<1>2. CASE ~night.dawn
  <2>1. imaging' = [imaging EXCEPT !.at = "safe"] /\ UNCHANGED <<night, pier, wheel, cp, policy, bounds>>
    BY <1>2 DEF I!MeridianOver
  <2>2. ImagingTypes'
    BY <2>1 DEF ImagingInv, ImagingTypes, RunType
  <2>3. RunInv'
    BY <2>1 DEF I!MeridianOver, ImagingInv, ImagingTypes, RunType, RunInv, StepsInv, PierInv,
                WheelInv, Pending
  <2>4. QED
    BY <2>1, <2>2, <2>3, ImagingParts
<1>3. QED
  BY <1>1, <1>2

\* Faults are counted, and what they excuse is remembered.
BoundsType == [faults : Nat, hands : Nat, lapsed : BOOLEAN, late : BOOLEAN]

LEMMA BoundsShape ==
  ASSUME ImagingTypes, NEW l \in BOOLEAN, I!Lapses(l) \/ I!Hand(l)
  PROVE  /\ bounds' \in BoundsType
         /\ bounds'.late = bounds.late /\ (bounds'.lapsed <=> bounds.lapsed \/ l)
<1> DEFINE b == bounds.lapsed \/ l
           f == bounds.faults + 1
           h == bounds.hands + 1
<1>1. b \in BOOLEAN /\ f \in Nat /\ h \in Nat /\ bounds \in BoundsType
  BY DEF ImagingTypes, BoundsType
<1>2. \/ bounds' = [bounds EXCEPT !.faults = f, !.lapsed = b]
      \/ bounds' = [bounds EXCEPT !.hands = h, !.lapsed = b]
  BY DEF I!Lapses, I!Hand
<1>3. b <=> bounds.lapsed \/ l
  OBVIOUS
<1> HIDE DEF b, f, h
<1>4. /\ bounds' \in BoundsType
      /\ bounds'.late = bounds.late /\ bounds'.lapsed = b
  BY <1>1, <1>2 DEF BoundsType
<1>5. QED
  BY <1>3, <1>4

\* A step that fails after the mount arrived, or that is none of the mount's.
LEMMA FailKeeps ==
  ASSUME I!ImagingAssumption, ImagingInv, imaging.at = "step", NEW kind \in Kinds, I!Fails(kind),
         bounds' = bounds \/ I!Fault, UNCHANGED <<night, pier, policy>>, wheel' \in I!Filters,
         wheel' = wheel \/ imaging.step = "filter"
  PROVE  ImagingInv'
<1>1. /\ imaging' \in RunType /\ cp' \in CpType
      /\ imaging'.at \in {"wait", "paused", "over", "safe"}
      /\ imaging'.at = "safe" => imaging.step \notin {"frame", "filter"}
      /\ imaging'.at \in {"wait", "paused"} => imaging'.flipping = imaging.flipping
      /\ imaging'.at = "paused" => imaging'.then = "wait"
      /\ imaging'.step = imaging.step /\ imaging'.filter = imaging.filter
      /\ imaging'.guarded = imaging.guarded
      /\ cp'.done = cp.done /\ cp'.row = cp.row /\ cp'.inBatch = cp.inBatch
      /\ cp'.pointed = cp.pointed
  BY FailsShape DEF ImagingInv
<1>2. /\ bounds' \in BoundsType
      /\ bounds'.late = bounds.late /\ (bounds'.lapsed <=> bounds.lapsed)
  BY BoundsShape DEF ImagingInv, ImagingTypes, I!Fault, BoundsType
<1>3. ImagingTypes'
  BY <1>1, <1>2 DEF ImagingInv, ImagingTypes, BoundsType
<1>4. I!NextRow' = I!NextRow => RunInv'
  BY <1>1, <1>2 DEF ImagingInv, ImagingTypes, RunInv, StepsInv, PierInv, WheelInv, Pending
<1>5. QED
  BY <1>1, <1>3, <1>4, ImagingParts

\* Where a slew that arrived leaves the mount, on one side of its pier or the other.
LEMMA SlewedKeeps ==
  ASSUME I!ImagingAssumption, ImagingInv, I!At("step"), imaging.step \in {"center", "flip"},
         \/ pier' = I!There(I!Side) /\ UNCHANGED bounds
         \/ I!Lapses(imaging.guarded) /\ pier' = I!There(pier.side),
         imaging' = [imaging EXCEPT !.slewed = TRUE], UNCHANGED <<night, wheel, cp, policy>>
  PROVE  ImagingInv'
<1>t. /\ imaging \in RunType /\ cp \in CpType /\ night \in [ha : Int, dawn : BOOLEAN]
      /\ pier \in [on : BOOLEAN, side : Sides, tracking : {"on", "off", "guard"}]
  BY DEF ImagingInv, ImagingTypes
<1>1. /\ bounds' \in BoundsType /\ bounds'.late = bounds.late
      /\ bounds.lapsed => bounds'.lapsed
      /\ imaging.guarded => bounds'.lapsed \/ pier' = I!There(I!Side)
  <2>1. CASE pier' = I!There(I!Side) /\ UNCHANGED bounds
    BY <2>1 DEF ImagingInv, ImagingTypes, BoundsType
  <2>2. CASE I!Lapses(imaging.guarded) /\ pier' = I!There(pier.side)
    <3>1. imaging.guarded \in BOOLEAN
      BY <1>t DEF RunType
    <3>2. QED
      BY <2>2, <3>1, BoundsShape DEF ImagingInv
  <2>3. QED
    BY <2>1, <2>2
<1>2. /\ imaging' \in RunType /\ imaging'.at = imaging.at /\ imaging'.step = imaging.step
      /\ imaging'.filter = imaging.filter /\ imaging'.guarded = imaging.guarded
      /\ imaging'.then = imaging.then /\ imaging'.flipping = imaging.flipping
  BY <1>t DEF RunType
<1>3. I!Side \in Sides /\ pier.side \in Sides
  BY <1>t DEF I!Side, Sides
<1>4. /\ pier' \in [on : BOOLEAN, side : Sides, tracking : {"on", "off", "guard"}]
      /\ pier'.tracking = "on"
      /\ pier'.side = pier.side \/ pier'.side = I!Side
      /\ pier' = I!There(I!Side) => pier'.side = I!Side
  <2>1. CASE pier' = I!There(I!Side)
    BY <1>3, <2>1 DEF I!There
  <2>2. CASE pier' = I!There(pier.side)
    BY <1>3, <2>2 DEF I!There
  <2>3. QED
    BY <2>1, <2>2
<1>5. ImagingTypes'
  BY <1>1, <1>2, <1>4 DEF ImagingInv, ImagingTypes, BoundsType
<1>6. PierInv'
  BY <1>t, <1>1, <1>2, <1>4, ImagingNumbers DEF ImagingInv, RunInv, PierInv, I!Side
<1>7. StepsInv' /\ WheelInv'
  BY <1>t, <1>2, <1>4, <1>5, SameRows DEF ImagingInv, ImagingTypes, RunInv, StepsInv, WheelInv, Pending
<1>8. QED
  BY <1>5, <1>6, <1>7, ImagingParts DEF RunInv

\* A slew that does not get there may leave the mount off the target.
LEMMA LostKeeps ==
  ASSUME I!ImagingAssumption, ImagingInv, I!At("step"), I!Fails("device"), I!Fault,
         pier' = [pier EXCEPT !.on = FALSE], UNCHANGED <<night, wheel, policy>>
  PROVE  ImagingInv'
<1>t. /\ imaging \in RunType /\ cp \in CpType /\ night \in [ha : Int, dawn : BOOLEAN]
      /\ pier \in [on : BOOLEAN, side : Sides, tracking : {"on", "off", "guard"}]
  BY DEF ImagingInv, ImagingTypes
<1>1. /\ imaging' \in RunType /\ cp' \in CpType
      /\ imaging'.at \in {"wait", "paused", "over", "safe"}
      /\ imaging'.at = "safe" => imaging.step \notin {"frame", "filter"}
      /\ imaging'.at \in {"wait", "paused"} => imaging'.flipping = imaging.flipping
      /\ imaging'.at = "paused" => imaging'.then = "wait"
      /\ imaging'.step = imaging.step /\ imaging'.filter = imaging.filter
      /\ imaging'.guarded = imaging.guarded
      /\ cp'.done = cp.done /\ cp'.row = cp.row /\ cp'.inBatch = cp.inBatch
      /\ cp'.pointed = cp.pointed
  BY FailsShape DEF ImagingInv, Kinds
<1>2. /\ bounds' \in BoundsType
      /\ bounds'.late = bounds.late /\ (bounds'.lapsed <=> bounds.lapsed)
  BY BoundsShape DEF ImagingInv, ImagingTypes, I!Fault, BoundsType
<1>3. /\ pier' \in [on : BOOLEAN, side : Sides, tracking : {"on", "off", "guard"}]
      /\ pier'.side = pier.side /\ pier'.tracking = pier.tracking /\ ~pier'.on
  BY <1>t
<1>4. ImagingTypes'
  BY <1>1, <1>2, <1>3 DEF ImagingInv, ImagingTypes, BoundsType
<1>5. I!NextRow' = I!NextRow => RunInv'
  BY <1>1, <1>2, <1>3 DEF ImagingInv, ImagingTypes, RunInv, StepsInv, PierInv, WheelInv, Pending
<1>6. QED
  BY <1>1, <1>4, <1>5, ImagingParts

LEMMA SlewKeeps == ASSUME I!ImagingAssumption, ImagingInv, I!Slew PROVE ImagingInv'
BY SlewedKeeps, LostKeeps DEF I!Slew

LEMMA PointedKeeps ==
  ASSUME I!ImagingAssumption, ImagingInv, I!At("step"), imaging.step \in {"center", "flip"},
         imaging.slewed, I!Pointed, bounds' = [bounds EXCEPT !.late = @ \/ pier.side # I!Side],
         UNCHANGED <<night, pier, wheel, policy>>
  PROVE  ImagingInv'
<1>t. /\ imaging \in RunType /\ cp \in CpType /\ night \in [ha : Int, dawn : BOOLEAN]
      /\ pier \in [on : BOOLEAN, side : Sides, tracking : {"on", "off", "guard"}]
      /\ bounds \in BoundsType
  BY DEF ImagingInv, ImagingTypes, BoundsType
<1>1. /\ bounds' \in BoundsType /\ bounds'.lapsed = bounds.lapsed
      /\ bounds.late => bounds'.late
      /\ pier.side # I!Side => bounds'.late
  <2> DEFINE l == bounds.late \/ pier.side # I!Side
  <2>1. bounds' = [bounds EXCEPT !.late = l] /\ l \in BOOLEAN
    BY <1>t DEF BoundsType
  <2>2. (l <=> bounds.late \/ pier.side # I!Side) /\ bounds.late \in BOOLEAN
    BY <1>t DEF BoundsType
  <2> HIDE DEF l
  <2>3. bounds' \in BoundsType /\ bounds'.lapsed = bounds.lapsed /\ bounds'.late = l
    BY <1>t, <2>1 DEF BoundsType
  <2>4. QED
    BY <2>2, <2>3
<1>2. /\ imaging' \in RunType /\ imaging'.at = "safe" /\ imaging'.filter = imaging.filter
      /\ ~imaging'.guarded
  BY <1>t DEF I!Pointed, RunType
<1>3. /\ cp' \in CpType /\ cp'.done = cp.done /\ cp'.row = cp.row /\ cp'.inBatch = cp.inBatch
      /\ cp'.pointed = (IF night.ha < 0 THEN "east" ELSE "west")
  <2> DEFINE p == IF night.ha < 0 THEN "east" ELSE "west"
  <2>1. cp' = [cp EXCEPT !.pointed = p] /\ p \in {"no", "east", "west"}
    BY DEF I!Pointed
  <2> HIDE DEF p
  <2>2. cp' \in CpType /\ cp'.done = cp.done /\ cp'.row = cp.row /\ cp'.inBatch = cp.inBatch
        /\ cp'.pointed = p
    BY <1>t, <2>1 DEF CpType
  <2>3. QED
    BY <2>2 DEF p
<1>4. ImagingTypes'
  BY <1>1, <1>2, <1>3 DEF ImagingInv, ImagingTypes, BoundsType
<1>5. pier.tracking = "on"
  BY DEF ImagingInv, RunInv, StepsInv
<1>6. PierInv'
  BY <1>t, <1>1, <1>2, <1>3, <1>5 DEF PierInv, I!Side
<1>7. StepsInv' /\ WheelInv'
  BY <1>t, <1>2 DEF ImagingInv, RunInv, StepsInv, WheelInv, Pending
<1>8. QED
  BY <1>3, <1>4, <1>6, <1>7, ImagingParts DEF RunInv

LEMMA PointingEndsKeeps == ASSUME I!ImagingAssumption, ImagingInv, I!PointingEnds PROVE ImagingInv'
<1>1. wheel' \in I!Filters /\ wheel' = wheel
  BY DEF I!PointingEnds, ImagingInv, ImagingTypes
<1>2. CASE I!Fails("flip") /\ UNCHANGED bounds
  BY <1>1, <1>2, FailKeeps DEF I!PointingEnds, Kinds
<1>3. CASE I!Pointed /\ bounds' = [bounds EXCEPT !.late = @ \/ pier.side # I!Side]
  BY <1>3, PointedKeeps DEF I!PointingEnds
<1>4. QED
  BY <1>2, <1>3 DEF I!PointingEnds

LEMMA NotSolvedKeeps == ASSUME I!ImagingAssumption, ImagingInv, I!NotSolved PROVE ImagingInv'
<1>1. wheel' \in I!Filters /\ wheel' = wheel
  BY DEF I!NotSolved, ImagingInv, ImagingTypes
<1>2. QED
  BY <1>1, FailKeeps DEF I!NotSolved, Kinds

LEMMA FilterEndsKeeps == ASSUME I!ImagingAssumption, ImagingInv, I!FilterEnds PROVE ImagingInv'
<1> DEFINE f == Rows[I!NextRow].filter
<1>1. CASE /\ wheel' = f /\ imaging' = [imaging EXCEPT !.at = "safe", !.filter = f]
           /\ UNCHANGED <<cp, bounds>>
  <2>1. f \in I!Filters
    BY NextRowIs, RowTypes DEF I!FilterEnds, ImagingInv, ImagingTypes, RunInv, StepsInv, Pending, Todo
  <2> HIDE DEF f
  <2>2. ImagingTypes'
    BY <1>1, <2>1 DEF I!FilterEnds, ImagingInv, ImagingTypes, RunType
  <2>3. imaging'.at = "safe" /\ imaging'.filter = f /\ imaging'.guarded = imaging.guarded
    BY <1>1 DEF ImagingInv, ImagingTypes, RunType
  <2>4. RunInv'
    BY <1>1, <2>3 DEF I!FilterEnds, ImagingInv, RunInv, StepsInv, PierInv, WheelInv, Pending
  <2>5. QED
    BY <1>1, <2>2, <2>4, ImagingParts
<1>2. CASE I!Fault /\ wheel' \in I!Filters /\ I!Fails("device")
  BY <1>2, FailKeeps DEF I!FilterEnds, Kinds
<1>3. QED
  BY <1>1, <1>2 DEF I!FilterEnds

LEMMA DitherEndsKeeps == ASSUME I!ImagingAssumption, ImagingInv, I!DitherEnds PROVE ImagingInv'
<1>1. wheel' \in I!Filters /\ wheel' = wheel
  BY DEF I!DitherEnds, ImagingInv, ImagingTypes
<1>2. CASE I!Ends("safe") /\ UNCHANGED <<cp, bounds>>
  BY <1>2, EndKeeps DEF I!DitherEnds
<1>3. CASE I!Fault /\ I!Fails("guiding")
  BY <1>1, <1>3, FailKeeps DEF I!DitherEnds, Kinds
<1>4. QED
  BY <1>2, <1>3 DEF I!DitherEnds

LEMMA FocusEndsKeeps == ASSUME I!ImagingAssumption, ImagingInv, I!FocusEnds PROVE ImagingInv'
<1>1. wheel' \in I!Filters /\ wheel' = wheel
  BY DEF I!FocusEnds, ImagingInv, ImagingTypes
<1>2. CASE I!Ends("safe") /\ cp' = [cp EXCEPT !.focused = imaging.filter] /\ UNCHANGED bounds
  BY <1>2, EndKeeps DEF I!FocusEnds
<1>3. CASE I!Fault /\ I!Fails("focus")
  BY <1>1, <1>3, FailKeeps DEF I!FocusEnds, Kinds
<1>4. QED
  BY <1>2, <1>3 DEF I!FocusEnds

LEMMA FrameEndsKeeps == ASSUME I!ImagingAssumption, ImagingInv, I!FrameEnds PROVE ImagingInv'
<1>1. wheel' \in I!Filters /\ wheel' = wheel
  BY DEF I!FrameEnds, ImagingInv, ImagingTypes
<1>2. CASE I!Ends("safe") /\ cp' = I!CountFrame(I!NextRow) /\ UNCHANGED bounds
  <2>1. I!NextRow # 0
    BY DEF I!FrameEnds, ImagingInv, RunInv, StepsInv, Pending
  <2>2. cp' \in CpType /\ RowsInv' /\ cp'.pointed = cp.pointed
    BY <1>2, <2>1, CountKeepsRows DEF ImagingInv, ImagingTypes, I!CountFrame, CpType
  <2>3. /\ imaging' \in RunType /\ imaging'.at = "safe" /\ imaging'.step = imaging.step
        /\ imaging'.filter = imaging.filter /\ imaging'.guarded = imaging.guarded
    BY <1>2, EndShape DEF ImagingInv
  <2>4. ImagingTypes'
    BY <1>1, <1>2, <2>2, <2>3 DEF I!FrameEnds, ImagingInv, ImagingTypes
  <2>5. RunInv'
    BY <1>2, <2>2, <2>3 DEF I!FrameEnds, ImagingInv, RunInv, StepsInv, PierInv, WheelInv, Pending
  <2>6. QED
    BY <2>2, <2>4, <2>5 DEF ImagingInv
<1>3. CASE I!Fault /\ \E kind \in {"clouds", "guiding", "device"} : I!Fails(kind)
  <2>1. PICK kind \in Kinds : I!Fails(kind)
    BY <1>3 DEF Kinds
  <2>2. QED
    BY <1>1, <1>3, <2>1, FailKeeps DEF I!FrameEnds
<1>4. QED
  BY <1>2, <1>3 DEF I!FrameEnds

LEMMA PauseKeeps == ASSUME I!ImagingAssumption, ImagingInv, I!Pause PROVE ImagingInv'
<1>1. bounds' \in BoundsType /\ bounds'.late = bounds.late /\ (bounds'.lapsed <=> bounds.lapsed)
  BY BoundsShape DEF I!Pause, ImagingInv, ImagingTypes, BoundsType
<1>2. /\ imaging' \in RunType /\ imaging'.at = imaging.at /\ imaging'.step = imaging.step
      /\ imaging'.filter = imaging.filter /\ imaging'.guarded = imaging.guarded
      /\ imaging'.then = imaging.then /\ imaging'.flipping = imaging.flipping
      /\ imaging'.slewed = imaging.slewed
  BY DEF I!Pause, ImagingInv, ImagingTypes, RunType
<1>3. ImagingTypes'
  BY <1>1, <1>2 DEF I!Pause, ImagingInv, ImagingTypes, BoundsType
<1>4. I!NextRow' = I!NextRow => RunInv'
  BY <1>1, <1>2 DEF I!Pause, ImagingInv, RunInv, StepsInv, PierInv, WheelInv, Pending
<1>5. QED
  BY <1>3, <1>4, ImagingParts DEF I!Pause

LEMMA PausedKeeps == ASSUME I!ImagingAssumption, ImagingInv, I!Paused PROVE ImagingInv'
<1>1. /\ imaging' \in RunType /\ imaging'.at = "paused" /\ imaging'.step = imaging.step
      /\ imaging'.filter = imaging.filter /\ imaging'.guarded = imaging.guarded
      /\ imaging'.then = imaging.at /\ imaging'.flipping = imaging.flipping
      /\ imaging.at \in {"safe", "wait", "meridian"}
  BY DEF I!Paused, ImagingInv, ImagingTypes, RunType
<1>2. ImagingTypes'
  BY <1>1 DEF I!Paused, ImagingInv, ImagingTypes
<1>3. I!NextRow' = I!NextRow => RunInv'
  BY <1>1 DEF I!Paused, ImagingInv, RunInv, StepsInv, PierInv, WheelInv, Pending
<1>4. QED
  BY <1>2, <1>3, ImagingParts DEF I!Paused

LEMMA PauseNowKeeps == ASSUME I!ImagingAssumption, ImagingInv, I!PauseNow PROVE ImagingInv'
<1>1. bounds' \in BoundsType /\ bounds'.late = bounds.late /\ (bounds'.lapsed <=> bounds.lapsed)
  BY BoundsShape DEF I!PauseNow, ImagingInv, ImagingTypes, BoundsType
<1>2. /\ imaging' \in RunType /\ imaging'.at = "paused" /\ imaging'.step = imaging.step
      /\ imaging'.filter = imaging.filter /\ imaging'.guarded = imaging.guarded
      /\ imaging'.then = (IF imaging.step = "frame" THEN "safe" ELSE "wait")
      /\ imaging'.flipping = imaging.flipping
  <2> DEFINE z == 0
             t == IF imaging.step = "frame" THEN "safe" ELSE "wait"
  <2>1. imaging' = [imaging EXCEPT !.at = "paused", !.asked = TRUE, !.left = z, !.tries = z,
                                   !.then = t]
    BY DEF I!PauseNow
  <2>2. z \in Int /\ t \in {"safe", "wait"}
    OBVIOUS
  <2> HIDE DEF z, t
  <2>3. /\ imaging' \in RunType /\ imaging'.at = "paused" /\ imaging'.step = imaging.step
        /\ imaging'.filter = imaging.filter /\ imaging'.guarded = imaging.guarded
        /\ imaging'.then = t /\ imaging'.flipping = imaging.flipping
    BY <2>1, <2>2 DEF ImagingInv, ImagingTypes, RunType
  <2>4. QED
    BY <2>3 DEF t
<1>3. /\ pier' \in [on : BOOLEAN, side : Sides, tracking : {"on", "off", "guard"}]
      /\ pier'.side = pier.side
      /\ (~pier'.on /\ pier'.tracking # "guard") \/ pier' = pier
  BY DEF I!PauseNow, ImagingInv, ImagingTypes
<1>4. ImagingTypes'
  BY <1>1, <1>2, <1>3 DEF I!PauseNow, ImagingInv, ImagingTypes, BoundsType
<1>5. I!NextRow' = I!NextRow => RunInv'
  BY <1>1, <1>2, <1>3 DEF I!PauseNow, ImagingInv, RunInv, StepsInv, PierInv, WheelInv, Pending
<1>6. QED
  BY <1>4, <1>5, ImagingParts DEF I!PauseNow

LEMMA UsesKeeps == ASSUME I!ImagingAssumption, ImagingInv, I!Uses PROVE ImagingInv'
<1>t. /\ imaging \in RunType /\ cp \in CpType /\ night \in [ha : Int, dawn : BOOLEAN]
      /\ pier \in [on : BOOLEAN, side : Sides, tracking : {"on", "off", "guard"}]
      /\ wheel \in I!Filters /\ I!Side \in Sides
  BY DEF ImagingInv, ImagingTypes, I!Side, Sides
<1>1. PICK l \in BOOLEAN :
        /\ I!Hand(l) /\ wheel' \in I!Filters
        /\ \/ pier' = pier
           \/ pier' = I!There(I!Side)
           \/ l /\ pier' = [pier EXCEPT !.tracking = "on"]
  BY <1>t DEF I!Uses
<1>2. /\ bounds' \in BoundsType /\ bounds'.late = bounds.late
      /\ (bounds'.lapsed <=> bounds.lapsed \/ l)
  BY <1>1, BoundsShape DEF ImagingInv, ImagingTypes, BoundsType
<1>3. /\ pier' \in [on : BOOLEAN, side : Sides, tracking : {"on", "off", "guard"}]
      /\ \/ pier' = pier
         \/ pier'.side = I!Side /\ pier'.tracking = "on"
         \/ l /\ pier'.side = pier.side /\ pier'.tracking = "on"
  <2>1. CASE pier' = pier
    BY <1>t, <2>1
  <2>2. CASE pier' = I!There(I!Side)
    BY <1>t, <2>2 DEF I!There
  <2>3. CASE l /\ pier' = [pier EXCEPT !.tracking = "on"]
    BY <1>t, <2>3
  <2>4. QED
    BY <1>1, <2>1, <2>2, <2>3
<1>4. UNCHANGED <<night, cp, imaging, policy>>
  BY DEF I!Uses
<1>5. ImagingTypes'
  BY <1>1, <1>2, <1>3, <1>4 DEF ImagingInv, ImagingTypes, BoundsType
<1>6. PierInv'
  BY <1>t, <1>2, <1>3, <1>4, ImagingNumbers DEF ImagingInv, RunInv, PierInv, I!Side
<1>7. I!NextRow' = I!NextRow => StepsInv' /\ WheelInv'
  BY <1>4 DEF I!Uses, ImagingInv, RunInv, StepsInv, WheelInv, Pending
<1>8. QED
  BY <1>4, <1>5, <1>6, <1>7, ImagingParts DEF RunInv

LEMMA ResumeKeeps == ASSUME I!ImagingAssumption, ImagingInv, I!Resume PROVE ImagingInv'
<1>1. /\ imaging' \in RunType /\ imaging'.at = imaging.then /\ imaging'.step = imaging.step
      /\ imaging'.filter = "none" /\ imaging'.guarded = imaging.guarded
      /\ imaging'.flipping = imaging.flipping /\ imaging.then \in {"safe", "wait", "meridian"}
  BY DEF I!Resume, ImagingInv, ImagingTypes, RunType, RunInv, StepsInv
<1>2. ImagingTypes'
  BY <1>1 DEF I!Resume, ImagingInv, ImagingTypes
<1>3. I!NextRow' = I!NextRow => RunInv'
  BY <1>1 DEF I!Resume, ImagingInv, RunInv, StepsInv, PierInv, WheelInv, Pending
<1>4. QED
  BY <1>2, <1>3, ImagingParts DEF I!Resume

LEMMA GuardKeeps == ASSUME I!ImagingAssumption, ImagingInv, I!Guard PROVE ImagingInv'
<1>1. /\ imaging' \in RunType /\ imaging'.at = imaging.at /\ imaging'.step = imaging.step
      /\ imaging'.filter = imaging.filter /\ imaging'.slewed = imaging.slewed
      /\ imaging'.then = imaging.then /\ imaging'.flipping = imaging.flipping
  BY DEF I!Guard, ImagingInv, ImagingTypes, RunType
<1>2. /\ bounds' \in BoundsType /\ bounds'.late = bounds.late
      /\ \/ /\ bounds'.lapsed = bounds.lapsed /\ pier'.tracking = "guard"
         \/ bounds'.lapsed /\ pier' = pier
      /\ pier'.side = pier.side
      /\ pier' \in [on : BOOLEAN, side : Sides, tracking : {"on", "off", "guard"}]
  BY BoundsShape DEF I!Guard, ImagingInv, ImagingTypes, BoundsType
<1>3. ImagingTypes'
  BY <1>1, <1>2 DEF I!Guard, ImagingInv, ImagingTypes, BoundsType
<1>4. PierInv'
  BY <1>1, <1>2 DEF I!Guard, I!GuardDue, ImagingInv, RunInv, PierInv
<1>5. I!NextRow' = I!NextRow => StepsInv' /\ WheelInv'
  BY <1>1, <1>2 DEF I!Guard, I!GuardDue, ImagingInv, RunInv, StepsInv, WheelInv, Pending
<1>6. QED
  BY <1>3, <1>4, <1>5, ImagingParts DEF I!Guard, RunInv

\* Time passes, and the night with it.
LEMMA TimeKeeps ==
  ASSUME I!ImagingAssumption, ImagingInv, I!Tick \/ I!Dawn
  PROVE  ImagingInv'
<1> DEFINE l == IF imaging.left > 0 /\ ~I!At("paused") THEN imaging.left - 1 ELSE imaging.left
           h == IF night.ha < Last THEN night.ha + 1 ELSE night.ha
<1>1. l \in Int /\ h \in Int /\ h >= night.ha
  BY DEF ImagingInv, ImagingTypes, RunType
<1>2. /\ imaging' = [imaging EXCEPT !.left = l] \/ UNCHANGED imaging
      /\ night' = [night EXCEPT !.ha = h] \/ night' = [night EXCEPT !.dawn = TRUE]
      /\ UNCHANGED <<pier, wheel, cp, policy, bounds>>
  BY DEF I!Tick, I!Dawn, ImagingInv, ImagingTypes, RunType
<1> HIDE DEF l, h
<1>3. /\ imaging' \in RunType /\ imaging'.at = imaging.at /\ imaging'.step = imaging.step
      /\ imaging'.filter = imaging.filter /\ imaging'.slewed = imaging.slewed
      /\ imaging'.then = imaging.then /\ imaging'.flipping = imaging.flipping
      /\ imaging'.guarded = imaging.guarded
  BY <1>1, <1>2 DEF ImagingInv, ImagingTypes, RunType
<1>4. night' \in [ha : Int, dawn : BOOLEAN] /\ night'.ha >= night.ha
  <2>1. night \in [ha : Int, dawn : BOOLEAN]
    BY DEF ImagingInv, ImagingTypes
  <2>2. CASE night' = [night EXCEPT !.ha = h]
    BY <1>1, <2>1, <2>2
  <2>3. CASE night' = [night EXCEPT !.dawn = TRUE]
    <3>1. night' \in [ha : Int, dawn : BOOLEAN] /\ night'.ha = night.ha /\ night.ha \in Int
      BY <2>1, <2>3
    <3>2. QED
      BY <3>1
  <2>4. QED
    BY <1>2, <2>2, <2>3
<1>5. ImagingTypes'
  BY <1>2, <1>3, <1>4 DEF ImagingInv, ImagingTypes
<1>6. PierInv'
  BY <1>2, <1>3, <1>4, ImagingNumbers DEF ImagingInv, ImagingTypes, RunInv, PierInv
<1>7. I!NextRow' = I!NextRow => StepsInv' /\ WheelInv'
  BY <1>2, <1>3 DEF ImagingInv, RunInv, StepsInv, WheelInv, Pending
<1>8. QED
  BY <1>2, <1>5, <1>6, <1>7, ImagingParts DEF RunInv

LEMMA ImagingRests == ASSUME ImagingInv, UNCHANGED imagingVars PROVE ImagingInv'
<1>1. UNCHANGED <<night, pier, wheel, cp, imaging, policy, bounds>>
  BY DEF imagingVars
<1>2. ImagingTypes' /\ Todo' = Todo /\ I!NextRow' = I!NextRow
  BY <1>1 DEF ImagingInv, ImagingTypes, Todo, I!NextRow
<1>3. RunInv' /\ RowsInv'
  BY <1>1, <1>2 DEF ImagingInv, RunInv, StepsInv, PierInv, WheelInv, Pending, RowsInv, Turns
<1>4. QED
  BY <1>2, <1>3 DEF ImagingInv

LEMMA ImagingStep == ASSUME I!ImagingAssumption, ImagingInv, I!Next PROVE ImagingInv'
BY PlanDoneKeeps, SafePointKeeps, WaitOverKeeps, MeridianOverKeeps, SlewKeeps, NotSolvedKeeps,
   PointingEndsKeeps, FilterEndsKeeps, DitherEndsKeeps, FocusEndsKeeps, FrameEndsKeeps,
   PausedKeeps, GuardKeeps, TimeKeeps, PauseKeeps, PauseNowKeeps, UsesKeeps, ResumeKeeps
   DEF I!Next, I!Steps

LEMMA ImagingInit == ASSUME I!ImagingAssumption, I!Init PROVE ImagingInv
<1>1. /\ Before \in Nat /\ Batch \in Nat /\ Len(Rows) \in Nat /\ DOMAIN Rows = 1..Len(Rows)
      /\ \A i \in DOMAIN Rows : Rows[i].count \in Nat
  BY RowTypes DEF I!ImagingAssumption
<1> DEFINE z == 0
           one == 1
<1>2. z \in Int /\ z \in Nat /\ z \in 0..Len(Rows) /\ z \in 0..Batch /\ one \in Int
      /\ I!Side \in Sides
  BY <1>1 DEF I!Side, Sides
<1>n. night \in [ha : Int, dawn : BOOLEAN] /\ wheel \in I!Filters /\ policy \in Policies
  <2>1. night \in [ha : -Before..0, dawn : {FALSE}] /\ wheel \in I!Filters /\ policy \in Policies
    BY DEF I!Init
  <2>2. -Before..0 \subseteq Int
    BY <1>1
  <2>3. QED
    BY <2>1, <2>2
<1>3. /\ pier = [on |-> FALSE, side |-> I!Side, tracking |-> "off"]
      /\ cp = [done |-> [i \in DOMAIN Rows |-> z], row |-> z, inBatch |-> z, sinceDither |-> z,
               focused |-> "none", pointed |-> "no"]
      /\ imaging = [at |-> "step", step |-> "center", left |-> one, tries |-> z, slewed |-> FALSE,
                    before |-> I!Side, filter |-> "none", then |-> "none", asked |-> FALSE,
                    flipping |-> FALSE, guarded |-> FALSE]
      /\ bounds = [faults |-> z, hands |-> z, lapsed |-> FALSE, late |-> FALSE]
  BY DEF I!Init
<1>4. RowsInv
  <2>1. cp.done = [i \in DOMAIN Rows |-> 0] /\ cp.row = 0
    BY <1>3
  <2>2. Turns(0)
    BY <1>1, <2>1 DEF Turns, Todo
  <2>3. QED
    BY <1>1, <2>1, <2>2 DEF RowsInv
<1> HIDE DEF z, one
<1>5. cp \in CpType /\ imaging \in RunType
  BY <1>2, <1>3 DEF CpType, RunType
<1>6. ImagingTypes
  BY <1>2, <1>n, <1>3, <1>5 DEF ImagingTypes
<1>7. RunInv
  BY <1>3 DEF RunInv, StepsInv, PierInv, WheelInv, Pending
<1>8. QED
  BY <1>4, <1>6, <1>7 DEF ImagingInv

LEMMA ImagingIsSafe == ASSUME I!ImagingAssumption, ImagingInv PROVE ImagingHolds
<1>1. I!RowsTakeTurns
  BY RowsHold DEF ImagingInv, ImagingTypes
<1>2. I!GuardHolds
  BY ImagingNumbers
     DEF ImagingInv, ImagingTypes, CpType, RunType, RunInv, PierInv, I!GuardHolds, I!Endangered, I!GuardDue
<1>3. QED
  BY <1>1, <1>2 DEF ImagingHolds
----------------------------------------------------------------------------
(* A run that images: what holds in it *)

\* Whatever runs, the target is imaged as it should be.
LEMMA ImagingAlways == Spec => []ImagingInv
<1> USE CameraJobsAssumption
<1>1. Init => ImagingInv
  BY ImagingInit DEF Init
<1>2. ImagingInv /\ [Next]_vars => ImagingInv'
  BY ImagingStep, ImagingRests DEF Next, Pointing, Flats, Imaging, Focusing, vars
<1>3. QED
  BY <1>1, <1>2, PTL DEF Spec

\* While a run images, the guard keeps the mount from tracking into its pier, and the rows
\* of its plan take turns (Runner._guard, next_row).
THEOREM ImagingIsRight == Spec => []ImagingHolds
<1>1. ImagingInv => ImagingHolds
  BY ImagingIsSafe, CameraJobsAssumption
<1>2. QED
  BY <1>1, ImagingAlways, PTL

\* A frame begun at a safe point.
LEMMA FrameBegins ==
  ASSUME I!ImagingAssumption, ImagingInv, I!SafePoint, I!BeginsFrame
  PROVE  /\ ~night.dawn /\ wheel = Rows[I!NextRow].filter /\ pier.tracking # "guard"
         /\ cp.pointed = "east" => night.ha + Rows[I!NextRow].length <= After
<1> DEFINE row == Rows[I!NextRow]
<1>1. row.filter # "none" /\ row.length \in Nat \ {0}
  BY NextRowIs, RowTypes DEF I!SafePoint, ImagingInv, ImagingTypes, Todo
<1>2. After \in Nat /\ Margin \in Nat /\ night.ha \in Int
  BY ImagingNumbers DEF ImagingInv, ImagingTypes
<1>3. ~night.dawn /\ I!Due = "frame"
  <2>1. CASE night.dawn \/ I!Due = "meridian"
    BY <2>1 DEF I!SafePoint, I!BeginsFrame, I!Ends, ImagingInv, ImagingTypes, RunType
  <2>2. CASE ~night.dawn /\ I!Due # "meridian"
    <3>1. I!Due \in {"filter", "flip", "dither", "focus", "frame"} /\ I!NextRow # 0
      BY <2>2 DEF I!Due, I!SafePoint
    <3>2. I!Tries(I!Due, 0) \in RunType /\ I!Tries(I!Due, 0).step = I!Due
      BY <3>1, TriesShape DEF ImagingInv
    <3>3. imaging'.step = I!Due
      BY <2>2, <3>2 DEF I!SafePoint, RunType
    <3>4. QED
      BY <2>2, <3>3 DEF I!BeginsFrame
  <2>3. QED
    BY <2>1, <2>2
<1>4. row.filter = imaging.filter /\ ~I!PastFlip(row)
  BY <1>3 DEF I!Due
<1>5. wheel = row.filter
  BY <1>1, <1>4 DEF I!SafePoint, ImagingInv, RunInv, WheelInv
<1>6. cp.pointed = "east" => night.ha + row.length <= After
  BY <1>1, <1>2, <1>4 DEF I!PastFlip
<1>7. pier.tracking # "guard"
  BY <1>1, <1>2, <1>6 DEF ImagingInv, RunInv, PierInv
<1>8. QED
  BY <1>3, <1>5, <1>6, <1>7

LEMMA FramesStep ==
  ASSUME I!ImagingAssumption, ImagingInv, I!Next, I!BeginsFrame
  PROVE  /\ ~night.dawn
         /\ I!At("safe") => /\ wheel = Rows[I!NextRow].filter /\ pier.tracking # "guard"
                            /\ cp.pointed = "east" => night.ha + Rows[I!NextRow].length <= After
<1>1. CASE I!SafePoint
  BY <1>1, FrameBegins
<1>2. CASE I!WaitOver
  BY <1>2 DEF I!WaitOver, I!Ends, I!BeginsFrame, ImagingInv, ImagingTypes, RunType
<1>3. CASE I!Resume
  BY <1>3 DEF I!Resume, I!BeginsFrame, ImagingInv, ImagingTypes, RunType
<1>4. CASE I!PlanDone \/ I!MeridianOver
  BY <1>4 DEF I!PlanDone, I!MeridianOver, I!Ends, I!BeginsFrame, ImagingInv, ImagingTypes, RunType
<1>5. CASE I!Paused
  BY <1>5 DEF I!Paused, I!BeginsFrame, ImagingInv, ImagingTypes, RunType
<1>6. CASE I!Guard \/ I!Tick \/ I!Dawn \/ I!Pause \/ I!Uses
  BY <1>6 DEF I!Guard, I!Tick, I!Dawn, I!Pause, I!Uses, I!BeginsFrame, ImagingInv, ImagingTypes, RunType
<1>7. CASE \/ I!Slew \/ I!NotSolved \/ I!PointingEnds \/ I!FilterEnds \/ I!DitherEnds
           \/ I!FocusEnds \/ I!FrameEnds \/ I!PauseNow
  BY <1>7 DEF I!Slew, I!NotSolved, I!PointingEnds, I!FilterEnds, I!DitherEnds, I!FocusEnds,
              I!FrameEnds, I!PauseNow, I!BeginsFrame
<1>8. QED
  BY <1>1, <1>2, <1>3, <1>4, <1>5, <1>6, <1>7 DEF I!Next, I!Steps

\* A frame is begun in the dark.  One that is begun for the first time is begun through its
\* row's filter whoever turned the wheel in a pause, before the flip point or flipped, and
\* never after a stop of the guard (Runner._plan).  Of one that is tried again only the dark
\* is certain: neither its filter nor the flip point is looked at then.
THEOREM FramesBeginRight == Spec => FramesAreRight
<1> USE CameraJobsAssumption
<1>1. ASSUME ImagingInv, [Next]_vars, I!BeginsFrame
      PROVE  I!Next
  BY <1>1 DEF Next, Pointing, Flats, Imaging, Focusing, vars, imagingVars, I!BeginsFrame, ImagingInv, ImagingTypes, RunType
<1>2. ASSUME ImagingInv, [Next]_vars, I!BeginsFrame
      PROVE  /\ ~night.dawn
             /\ I!At("safe") => /\ wheel = Rows[I!NextRow].filter /\ pier.tracking # "guard"
                                /\ cp.pointed = "east" => night.ha + Rows[I!NextRow].length <= After
  BY <1>1, <1>2, FramesStep
<1> DEFINE Right == I!BeginsFrame =>
              /\ ~night.dawn
              /\ I!At("safe") => /\ wheel = Rows[I!NextRow].filter /\ pier.tracking # "guard"
                                 /\ cp.pointed = "east" => night.ha + Rows[I!NextRow].length <= After
<1>3. ImagingInv /\ [Next]_vars => Right
  BY <1>2
<1>4. I!FramesAreRight <=> [][Right]_(I!vars)
  BY DEF I!FramesAreRight
<1> HIDE DEF Right
<1>5. QED
  BY <1>3, <1>4, ImagingAlways, PTL DEF Spec, FramesAreRight
----------------------------------------------------------------------------
(* Directions *)

\* Modulo the ring, a remainder is as good as its number.
LEMMA Remainders ==
  ASSUME NEW n \in Nat \ {0}, NEW a \in Int, NEW b \in Int
  PROVE  /\ a % n \in 0..(n - 1)
         /\ ((a % n) + b) % n = (a + b) % n
         /\ (b - (a % n)) % n = (b - a) % n
<1> DEFINE q == a \div n
           m == -q
           an == a % n
           qn == q * n
           mn == m * n
<1>1. q \in Int /\ m \in Int /\ a = (q * n) + (a % n) /\ a % n \in 0..(n - 1)
  OBVIOUS
<1>2. mn = -qn /\ mn \in Int /\ qn \in Int
  BY <1>1
<1>3. a = qn + an /\ an \in Int
  BY <1>1
<1> HIDE DEF q, m, an, qn, mn
<1>4. (an + b) - (a + b) = mn /\ (b - an) - (b - a) = qn
  BY <1>2, <1>3
<1>5. (an + b) - (a + b) = m * n /\ (b - an) - (b - a) = q * n
  BY <1>4 DEF mn, qn
<1>t. an + b \in Int /\ a + b \in Int /\ b - an \in Int /\ b - a \in Int
  BY <1>3
<1>6. m \in Int /\ q \in Int
  BY <1>1 DEF m
<1>7. (an + b) % n = (a + b) % n
  BY <1>6, <1>t, <1>5, Congruent, Zenon
<1>8. (b - an) % n = (b - a) % n
  BY <1>6, <1>t, <1>5, Congruent, Zenon
<1>9. QED
  BY <1>1, <1>7, <1>8 DEF an

Dirs == 0..(Ring - 1)

LEMMA RingTypes ==
  ASSUME P!PointingAssumption
  PROVE  /\ Ring \in Nat \ {0} /\ 0 \in Dirs /\ Target \in Dirs /\ Aimed \in Dirs /\ Turn \in Dirs
         /\ Errors \subseteq Dirs
         /\ \A x \in Dirs : x \in Int /\ x % Ring = x
         /\ \A x \in Int : x % Ring \in Dirs
<1>1. Ring \in Nat \ {0} /\ {Target, Aimed, Turn} \cup Errors \subseteq 0..(Ring - 1)
  BY DEF P!PointingAssumption
<1>2. \A x \in 0..(Ring - 1) : x \in Int /\ x % Ring = x
  BY <1>1
<1>3. \A x \in Int : x % Ring \in 0..(Ring - 1)
  BY <1>1
<1>4. QED
  BY <1>1, <1>2, <1>3 DEF Dirs

LEMMA TurnsAround ==
  ASSUME P!PointingAssumption, NEW a \in Int, NEW b \in Int
  PROVE  P!Plus(a, b) \in Dirs /\ P!Minus(a, b) \in Dirs
BY RingTypes DEF P!Plus, P!Minus

\* A slew to the corrected aim points where it should: it misses what the last one missed.
LEMMA Corrects ==
  ASSUME P!PointingAssumption, NEW goal \in Dirs, NEW aim \in Dirs, NEW points \in Dirs
  PROVE  P!Plus(P!Plus(aim, P!Minus(goal, points)), P!Plus(P!Minus(points, aim), 0)) = goal
<1> DEFINE n == Ring
           x == (goal - points) % n
           y == (points - aim) % n
           w == (aim + x) % n
<1>1. n \in Nat \ {0} /\ goal \in Int /\ aim \in Int /\ points \in Int /\ goal % n = goal
  BY RingTypes
<1> HIDE DEF n
<1>2. x \in 0..(n - 1) /\ y \in 0..(n - 1) /\ w \in 0..(n - 1)
  BY <1>1
<1>3. (y + 0) % n = y
  BY <1>1, <1>2
<1>t. /\ aim + x \in Int /\ y \in Int /\ goal - points \in Int /\ aim + y \in Int
      /\ points - aim \in Int /\ aim + goal - points \in Int
  BY <1>1, <1>2
<1>4. (w + y) % n = ((aim + x) + y) % n
  BY <1>1, <1>t, Remainders, Zenon
<1>5. (x + (aim + y)) % n = ((goal - points) + (aim + y)) % n
  BY <1>1, <1>t, Remainders, Zenon
<1>6. (y + (aim + goal - points)) % n = ((points - aim) + (aim + goal - points)) % n
  BY <1>1, <1>t, Remainders, Zenon
<1> HIDE DEF x, y, w
<1>7. /\ (aim + x) + y = x + (aim + y)
      /\ (goal - points) + (aim + y) = y + (aim + goal - points)
      /\ (points - aim) + (aim + goal - points) = goal
  BY <1>1, <1>2
<1>8. (w + ((y + 0) % n)) % n = goal
  BY <1>1, <1>3, <1>4, <1>5, <1>6, <1>7
<1>9. QED
  BY <1>8 DEF P!Plus, P!Minus, n, x, y, w

\* A mount that knows where it points comes to its aim.
LEMMA Arrives ==
  ASSUME P!PointingAssumption, NEW aim \in Dirs, NEW points \in Dirs
  PROVE  P!Plus(aim, P!Plus(P!Minus(points, points), 0)) = aim
<1> DEFINE n == Ring
<1>1. n \in Nat \ {0} /\ aim \in Int /\ points \in Int /\ aim % n = aim
  BY RingTypes
<1> HIDE DEF n
<1>2. (points - points) % n = 0 /\ (0 + 0) % n = 0 /\ aim + 0 = aim
  BY <1>1
<1>3. QED
  BY <1>1, <1>2 DEF P!Plus, P!Minus, n

\* What a frame adds to the axis is what it has moved since the one before.
LEMMA Follows ==
  ASSUME P!PointingAssumption, NEW knob \in Int, NEW axis \in Int, NEW points \in Dirs,
         NEW previous \in Dirs, NEW frame \in Dirs,
         P!Minus(knob, axis) = P!Minus(points, previous)
  PROVE  P!Minus(knob, P!Plus(axis, P!Minus(frame, previous))) = P!Minus(points, frame)
<1> DEFINE n == Ring
           d == (frame - previous) % n
           e == (axis + d) % n
           k == (knob - axis) % n
<1>1. n \in Nat \ {0} /\ points \in Int /\ previous \in Int /\ frame \in Int
  BY RingTypes
<1>2. k = (points - previous) % n
  BY DEF P!Minus, n, k
<1> HIDE DEF n
<1>3. d \in Int /\ e \in Int /\ k \in Int
  BY <1>1
<1>t. /\ axis + d \in Int /\ knob - axis \in Int /\ frame - previous \in Int
      /\ previous - frame \in Int /\ points - previous \in Int
  BY <1>1, <1>3
<1>4. (knob - e) % n = (knob - (axis + d)) % n
  BY <1>1, <1>t, Remainders, Zenon
<1>5. ((knob - axis) - d) % n = ((knob - axis) - (frame - previous)) % n
  BY <1>1, <1>t, Remainders, Zenon
<1>6. (k + (previous - frame)) % n = ((knob - axis) + (previous - frame)) % n
  BY <1>1, <1>t, Remainders, Zenon
<1>7. (k + (previous - frame)) % n = ((points - previous) + (previous - frame)) % n
  <2>1. (((points - previous) % n) + (previous - frame)) % n = ((points - previous) + (previous - frame)) % n
    BY <1>1, <1>t, Remainders, Zenon
  <2>2. QED
    BY <1>2, <2>1
<1> HIDE DEF d, e, k
<1>8. /\ knob - (axis + d) = (knob - axis) - d
      /\ (knob - axis) - (frame - previous) = (knob - axis) + (previous - frame)
      /\ (points - previous) + (previous - frame) = points - frame
  BY <1>1, <1>3
<1>9. (knob - e) % n = (points - frame) % n
  BY <1>4, <1>5, <1>6, <1>7, <1>8
<1>10. QED
  BY <1>9 DEF P!Plus, P!Minus, n, d, e

\* A knob turns what it turns.
LEMMA TurnsBoth ==
  ASSUME P!PointingAssumption, NEW knob \in Int, NEW axis \in Int, NEW points \in Dirs,
         NEW previous \in Dirs, P!Minus(knob, axis) = P!Minus(points, previous)
  PROVE  P!Minus(knob + 1, axis) = P!Minus(P!Plus(points, 1), previous)
<1> DEFINE n == Ring
           k == (knob - axis) % n
           p == (points + 1) % n
<1>1. n \in Nat \ {0} /\ points \in Int /\ previous \in Int
  BY RingTypes
<1>2. k = (points - previous) % n
  BY DEF P!Minus, n, k
<1> HIDE DEF n
<1>t. /\ knob - axis \in Int /\ points - previous \in Int /\ points + 1 \in Int
      /\ -previous \in Int /\ 1 \in Int
  BY <1>1
<1>3. (k + 1) % n = ((knob - axis) + 1) % n
  BY <1>1, <1>t, Remainders, Zenon
<1>4. (k + 1) % n = ((points - previous) + 1) % n
  <2>1. (((points - previous) % n) + 1) % n = ((points - previous) + 1) % n
    BY <1>1, <1>t, Remainders, Zenon
  <2>2. QED
    BY <1>2, <2>1
<1>5. (p + (-previous)) % n = ((points + 1) + (-previous)) % n
  BY <1>1, <1>t, Remainders, Zenon
<1>6. p \in Int
  BY <1>1
<1> HIDE DEF k, p
<1>7. /\ (knob - axis) + 1 = (knob + 1) - axis /\ p + (-previous) = p - previous
      /\ (points - previous) + 1 = (points + 1) + (-previous)
  BY <1>1, <1>6
<1>8. ((knob + 1) - axis) % n = (p - previous) % n
  BY <1>3, <1>4, <1>5, <1>7
<1>9. QED
  BY <1>8 DEF P!Plus, P!Minus, n, p

\* A knob that was not turned has not moved what the frame saw.
LEMMA StandsStill ==
  ASSUME P!PointingAssumption, NEW knob \in Int, NEW points \in Dirs
  PROVE  P!Minus(knob, knob) = P!Minus(points, points)
<1>1. knob - knob = points - points
  BY RingTypes
<1>2. QED
  BY <1>1 DEF P!Minus
----------------------------------------------------------------------------
(* A solving job and its mount *)

Rig == [says : Dirs, points : Dirs, tracking : BOOLEAN]
Seen == [at : {"none", "analysing", "there"}, n : Nat, says : Dirs, said : Dirs, frame : Dirs]
Outcomes == {"none", "running", "succeeded", "failed", "cancelled"}

JobType ==
  [job : {"none", "solve", "center", "align"},
   at : {"idle", "bin", "take", "unbin", "solve", "sync", "slew", "back", "over"},
   rebin : BOOLEAN, sync : BOOLEAN, goal : Dirs, aim : Dirs, says : Dirs, said : Dirs,
   frame : Dirs, tried : Int, solved : Nat, seen : Int, missed : Int, measured : BOOLEAN,
   knob : Int, axis : Int, previous : Dirs, finish : BOOLEAN, outcome : Outcomes, jolts : Nat]

\* The job has begun a frame, and goes on to what its mount does with it.
Framing == {"bin", "take", "unbin", "solve", "sync"}

\* A centring knows its error: but for jolts, the slew after a solved frame comes to the
\* target, so that no more than one frame and one for each jolt have missed it.
Centring(r, m) ==
  /\ r.goal = Target /\ ~r.rebin /\ r.at # "back"
  /\ r.at # "over" => r.outcome = "running"
  /\ r.outcome = "succeeded" => m.tracking /\ m.points = Target
  /\ r.at \in Framing => /\ m.tracking /\ (r.solved <= r.jolts \/ m.points = Target)
                         /\ ~r.sync => m.says = r.aim
  /\ r.at \in {"solve", "sync"} => r.frame = m.points
  /\ r.sync => r.aim = Target
  /\ r.at = "slew" /\ r.solved > 0 =>
       m.tracking /\ P!Plus(r.aim, P!Plus(P!Minus(m.points, m.says), 0)) = Target
  /\ \/ r.solved <= 1 + r.jolts
     \/ r.at = "over" /\ r.solved <= 2 + r.jolts /\ r.frame = Target

\* A polar alignment tracks, and only its knobs move what it sees between slews.
Aligning(r, m) ==
  /\ ~r.rebin /\ ~r.sync /\ m.tracking
  /\ r.at = "slew" => ~r.measured
  /\ r.at = "solve" /\ ~r.measured => r.frame = m.points
  /\ r.measured /\ r.at \notin {"over", "back"} =>
       P!Minus(r.knob, r.axis) = P!Minus(m.points, r.previous)

Working(r, m) ==
  /\ r \in JobType /\ m \in Rig
  /\ (r.at = "idle" <=> r.job = "none") /\ (r.at = "idle" => r.outcome = "none")
  /\ r.at \in {"bin", "unbin"} => r.rebin
  /\ r.at = "sync" => r.sync
  /\ r.at \in Framing /\ m.tracking => r.says = m.says
  /\ r.job = "center" => Centring(r, m)
  /\ r.job = "align" => Aligning(r, m)

PointingInv == Working(pointing, mount) /\ kept \in Seen /\ last \in Seen /\ pointingFaults \in Nat

\* What most steps leave alone.
Alike(r, s) ==
  /\ s.job = r.job /\ s.rebin = r.rebin /\ s.sync = r.sync /\ s.goal = r.goal /\ s.aim = r.aim
  /\ s.frame = r.frame /\ s.solved = r.solved /\ s.jolts = r.jolts /\ s.measured = r.measured
  /\ s.knob = r.knob /\ s.axis = r.axis /\ s.previous = r.previous

LEMMA OverIs ==
  ASSUME NEW r \in JobType, NEW o \in Outcomes
  PROVE  LET s == P!Over(r, o)
         IN s \in JobType /\ s.at = "over" /\ s.outcome = o /\ Alike(r, s)
BY DEF P!Over, JobType, Alike

LEMMA BeginIs ==
  ASSUME NEW r \in JobType, mount \in Rig
  PROVE  LET s == P!Begin(r)
         IN /\ s \in JobType /\ s.at = (IF r.rebin THEN "bin" ELSE "take") /\ s.says = mount.says
            /\ s.outcome = r.outcome /\ Alike(r, s)
BY DEF P!Begin, JobType, Alike, Rig

\* A job that is over.
LEMMA OverWorks ==
  ASSUME NEW r \in JobType, NEW o \in Outcomes, NEW m \in Rig, r.job # "none",
         r.job = "center" =>
           /\ r.goal = Target /\ ~r.rebin /\ (r.sync => r.aim = Target)
           /\ o = "succeeded" => m.tracking /\ m.points = Target
           /\ r.solved <= 1 + r.jolts \/ (r.solved <= 2 + r.jolts /\ r.frame = Target),
         r.job = "align" => ~r.rebin /\ ~r.sync /\ m.tracking
  PROVE  Working(P!Over(r, o), m)
<1> DEFINE s == P!Over(r, o)
<1>1. s \in JobType /\ s.at = "over" /\ s.outcome = o /\ Alike(r, s)
  BY OverIs
<1> HIDE DEF s
<1>2. QED
  BY <1>1 DEF Working, Centring, Aligning, Alike, Framing, s

\* A centring after a frame that solved: m is the mount after a sync, if there was one.
LEMMA CentredWorks ==
  ASSUME P!PointingAssumption, NEW r \in JobType, NEW m \in Rig, r.job = "center",
         r.goal = Target, ~r.rebin, r.outcome = "running", m.tracking,
         r.solved <= r.jolts \/ m.points = Target, r.solved <= 1 + r.jolts, r.frame = m.points,
         IF r.sync THEN r.aim = Target /\ m.says = m.points ELSE m.says = r.aim
  PROVE  Working(P!Centred(r), m)
<1> DEFINE n == r.tried + 1
           k == r.solved + 1
           t == [r EXCEPT !.tried = n, !.solved = k]
<1>k. n \in Int /\ k \in Nat
  BY DEF JobType
<1>e. t = [r EXCEPT !.tried = @ + 1, !.solved = @ + 1]
  BY DEF JobType
<1> HIDE DEF n, k
<1>1. /\ t \in JobType /\ t.at = r.at /\ t.outcome = r.outcome
      /\ t.solved = k /\ t.jolts = r.jolts /\ t.frame = r.frame /\ t.job = r.job
      /\ t.goal = r.goal /\ t.rebin = r.rebin /\ t.sync = r.sync /\ t.aim = r.aim
  BY <1>k DEF JobType
<1>s. t.solved = r.solved + 1
  BY <1>1 DEF k
<1>t. r.solved \in Nat /\ r.jolts \in Nat /\ m.points \in Dirs /\ r.aim \in Dirs
  BY DEF JobType, Rig
<1> DEFINE a == IF r.sync THEN t.aim ELSE P!Corrected(r, r.frame)
<1>c. P!Centred(r) = IF r.frame = r.goal THEN P!Over(t, "succeeded")
                     ELSE IF t.tried = Attempts THEN P!Over(t, "failed")
                     ELSE [t EXCEPT !.at = "slew", !.aim = a]
  BY <1>e DEF P!Centred
<1> HIDE DEF t
<1>2. CASE r.frame = r.goal
  <2>1. /\ t.goal = Target /\ ~t.rebin /\ (t.sync => t.aim = Target) /\ m.points = Target
        /\ t.solved <= 2 + t.jolts /\ t.frame = Target /\ t.job = "center"
    BY <1>1, <1>s, <1>t, <1>2
  <2>2. Working(P!Over(t, "succeeded"), m)
    BY <1>1, <2>1, OverWorks DEF Outcomes
  <2>3. QED
    BY <1>c, <1>2, <2>2
<1>3. CASE r.frame # r.goal /\ t.tried = Attempts
  BY <1>1, <1>s, <1>t, <1>c, <1>3, OverWorks DEF Outcomes
<1>4. CASE r.frame # r.goal /\ t.tried # Attempts
  <2> DEFINE s == [t EXCEPT !.at = "slew", !.aim = a]
  <2>1. a \in Dirs /\ P!Plus(a, P!Plus(P!Minus(m.points, m.says), 0)) = Target /\ (r.sync => a = Target)
    <3>1. Target \in Dirs
      BY RingTypes
    <3>2. CASE r.sync
      BY <1>1, <1>t, <3>1, <3>2, Arrives
    <3>3. CASE ~r.sync
      <4>1. a = P!Plus(r.aim, P!Minus(Target, m.points)) /\ m.says = r.aim
        BY <3>3 DEF P!Corrected
      <4>2. P!Minus(Target, m.points) \in Int /\ r.aim \in Int
        BY <1>t, <3>1, RingTypes, TurnsAround DEF Dirs
      <4>3. a \in Dirs
        BY <4>1, <4>2, TurnsAround
      <4>4. QED
        BY <1>t, <3>1, <3>3, <4>1, <4>3, Corrects
    <3>4. QED
      BY <3>2, <3>3
  <2> HIDE DEF a
  <2>2. /\ s \in JobType /\ s.at = "slew" /\ s.aim = a /\ s.outcome = "running"
        /\ s.solved = r.solved + 1 /\ s.jolts = r.jolts /\ s.job = "center"
        /\ s.goal = Target /\ ~s.rebin /\ s.sync = r.sync
    BY <1>1, <1>s, <2>1 DEF JobType
  <2>3. r.solved <= r.jolts
    BY <1>4
  <2> HIDE DEF s
  <2>4. Working(s, m)
    BY <1>t, <2>1, <2>2, <2>3 DEF Working, Centring, Framing
  <2>5. QED
    BY <1>c, <1>4, <2>4 DEF s
<1>5. QED
  BY <1>2, <1>3, <1>4

LEMMA CentreMissedWorks ==
  ASSUME Working(pointing, mount), pointing.job = "center", pointing.at = "solve"
  PROVE  Working(P!CentreMissed(pointing), mount)
<1> DEFINE t == [pointing EXCEPT !.tried = @ + 1]
<1>1. t \in JobType /\ t.at = "solve" /\ t.outcome = pointing.outcome /\ Alike(pointing, t)
  BY DEF Working, JobType, Alike
<1>c. P!CentreMissed(pointing) = IF t.tried = Attempts THEN P!Over(t, "failed") ELSE P!Begin(t)
  BY DEF P!CentreMissed
<1> HIDE DEF t
<1>m. mount \in Rig
  BY DEF Working
<1>2. CASE t.tried = Attempts
  BY <1>1, <1>c, <1>m, <1>2, OverWorks DEF Working, Centring, Alike, Outcomes
<1>3. CASE t.tried # Attempts
  <2> DEFINE s == P!Begin(t)
  <2>1. s \in JobType /\ s.at = "take" /\ s.says = mount.says /\ s.outcome = t.outcome /\ Alike(t, s)
    BY <1>1, <1>m, BeginIs DEF Working, Centring, Alike
  <2> HIDE DEF s
  <2>2. Working(s, mount)
    BY <1>1, <2>1 DEF Working, Centring, Framing, Alike
  <2>3. QED
    BY <1>c, <1>3, <2>2 DEF s
<1>4. QED
  BY <1>2, <1>3

\* A polar alignment, which goes on to its next frame or back to where it began.
LEMMA AdjustingWorks ==
  ASSUME NEW r \in JobType, mount \in Rig, r.job = "align", ~r.rebin, ~r.sync, mount.tracking,
         r.measured => P!Minus(r.knob, r.axis) = P!Minus(mount.points, r.previous)
  PROVE  Working(P!Adjusting(r), mount)
<1>1. CASE r.finish
  <2> DEFINE s == [r EXCEPT !.at = "back", !.aim = r.goal]
  <2>1. s \in JobType /\ s.at = "back" /\ s.job = "align" /\ ~s.rebin /\ ~s.sync
    BY DEF JobType
  <2> HIDE DEF s
  <2>2. Working(s, mount)
    BY <2>1 DEF Working, Aligning, Framing
  <2>3. QED
    BY <1>1, <2>2 DEF P!Adjusting, s
<1>2. CASE ~r.finish
  <2> DEFINE s == P!Begin(r)
  <2>1. s \in JobType /\ s.at = "take" /\ s.says = mount.says /\ Alike(r, s)
    BY BeginIs
  <2> HIDE DEF s
  <2>2. Working(s, mount)
    BY <2>1 DEF Working, Aligning, Framing, Alike
  <2>3. QED
    BY <1>2, <2>2 DEF P!Adjusting, s
<1>3. QED
  BY <1>1, <1>2

LEMMA AlignedWorks ==
  ASSUME P!PointingAssumption, NEW r \in JobType, Working(r, mount), r.job = "align", r.at = "solve"
  PROVE  Working(P!Aligned(r), mount)
<1>t. /\ mount \in Rig /\ mount.points \in Dirs /\ r.knob \in Int /\ r.axis \in Int
      /\ r.aim \in Dirs /\ r.frame \in Dirs /\ r.previous \in Dirs
      /\ ~r.rebin /\ ~r.sync /\ mount.tracking
  BY DEF Working, Aligning, Rig, JobType
<1> DEFINE n == r.seen + 1
           z == 0
           seen == [r EXCEPT !.seen = n, !.missed = z]
<1>k. n \in Int /\ z \in Int
  BY DEF JobType
<1>e. seen = [r EXCEPT !.seen = @ + 1, !.missed = 0]
  BY DEF JobType
<1>c. P!Aligned(r) =
        IF ~r.measured
        THEN IF seen.seen < 3 THEN [seen EXCEPT !.at = "slew", !.aim = P!Plus(@, Turn)]
             ELSE P!Adjusting([seen EXCEPT !.measured = TRUE, !.axis = r.knob, !.previous = r.frame])
        ELSE P!Adjusting([r EXCEPT !.axis = P!Plus(@, P!Minus(r.frame, r.previous)),
                                   !.previous = r.frame])
  BY <1>e DEF P!Aligned
<1> HIDE DEF n, z
<1>1. seen \in JobType /\ seen.at = r.at /\ Alike(r, seen)
  BY <1>k DEF JobType, Alike
<1> HIDE DEF seen
<1>2. CASE ~r.measured /\ seen.seen < 3
  <2> DEFINE a == P!Plus(seen.aim, Turn)
             s == [seen EXCEPT !.at = "slew", !.aim = a]
  <2>1. a \in Dirs
    BY <1>1, RingTypes, TurnsAround DEF JobType, Dirs
  <2>2. s = [seen EXCEPT !.at = "slew", !.aim = P!Plus(@, Turn)]
    BY <1>1 DEF JobType
  <2> HIDE DEF a
  <2>3. /\ s \in JobType /\ s.at = "slew" /\ s.job = "align" /\ ~s.rebin /\ ~s.sync /\ ~s.measured
    BY <1>1, <1>2, <1>t, <2>1 DEF JobType, Alike
  <2> HIDE DEF s
  <2>4. Working(s, mount)
    BY <1>t, <2>3 DEF Working, Aligning, Framing
  <2>5. QED
    BY <1>c, <1>2, <2>2, <2>4
<1>3. CASE ~r.measured /\ ~(seen.seen < 3)
  <2> DEFINE s == [seen EXCEPT !.measured = TRUE, !.axis = r.knob, !.previous = r.frame]
  <2>1. /\ s \in JobType /\ s.job = "align" /\ ~s.rebin /\ ~s.sync /\ s.knob = r.knob
        /\ s.axis = r.knob /\ s.previous = r.frame
    BY <1>1, <1>t DEF JobType, Alike
  <2> HIDE DEF s
  <2>2. r.frame = mount.points
    BY <1>3 DEF Working, Aligning
  <2>3. P!Minus(s.knob, s.axis) = P!Minus(mount.points, s.previous)
    BY <1>t, <2>1, <2>2, StandsStill
  <2>4. Working(P!Adjusting(s), mount)
    BY <1>t, <2>1, <2>3, AdjustingWorks
  <2>5. QED
    BY <1>c, <1>3, <2>4 DEF s
<1>4. CASE r.measured
  <2> DEFINE a == P!Plus(r.axis, P!Minus(r.frame, r.previous))
             s == [r EXCEPT !.axis = a, !.previous = r.frame]
  <2>1. a \in Int
    BY <1>t, RingTypes, TurnsAround DEF Dirs
  <2>2. s = [r EXCEPT !.axis = P!Plus(@, P!Minus(r.frame, r.previous)), !.previous = r.frame]
    BY DEF JobType
  <2>3. P!Minus(r.knob, a) = P!Minus(mount.points, r.frame)
    BY <1>t, <1>4, Follows DEF Working, Aligning
  <2> HIDE DEF a
  <2>4. /\ s \in JobType /\ s.job = "align" /\ ~s.rebin /\ ~s.sync /\ s.knob = r.knob
        /\ s.axis = a /\ s.previous = r.frame
    BY <1>t, <2>1 DEF JobType
  <2> HIDE DEF s
  <2>5. Working(P!Adjusting(s), mount)
    BY <1>t, <2>3, <2>4, AdjustingWorks
  <2>6. QED
    BY <1>c, <1>4, <2>2, <2>5
<1>5. QED
  BY <1>2, <1>3, <1>4

LEMMA AlignMissedWorks ==
  ASSUME Working(pointing, mount), pointing.job = "align", pointing.at = "solve"
  PROVE  Working(P!AlignMissed(pointing), mount)
<1>t. pointing \in JobType /\ mount \in Rig /\ ~pointing.rebin /\ ~pointing.sync /\ mount.tracking
  BY DEF Working, Aligning
<1>1. CASE pointing.measured
  BY <1>t, <1>1, AdjustingWorks DEF Working, Aligning, P!AlignMissed
<1>2. CASE ~pointing.measured /\ pointing.missed >= Retries
  BY <1>t, <1>2, OverWorks DEF P!AlignMissed, Outcomes
<1>3. CASE ~pointing.measured /\ ~(pointing.missed >= Retries)
  <2> DEFINE t == [pointing EXCEPT !.missed = @ + 1]
             s == P!Begin(t)
  <2>1. t \in JobType /\ Alike(pointing, t)
    BY <1>t DEF JobType, Alike
  <2> HIDE DEF t
  <2>2. s \in JobType /\ s.at = "take" /\ s.says = mount.says /\ Alike(t, s)
    BY <1>t, <2>1, BeginIs DEF Alike
  <2> HIDE DEF s
  <2>3. Working(s, mount)
    BY <1>t, <1>3, <2>1, <2>2 DEF Working, Aligning, Framing, Alike
  <2>4. QED
    BY <1>3, <2>3 DEF P!AlignMissed, s, t
<1>4. QED
  BY <1>1, <1>2, <1>3

USE DEF P!At, P!Idle

LEMMA BinWorks == ASSUME PointingInv, P!Bin PROVE Working(pointing', mount')
<1>1. CASE pointing' = [pointing EXCEPT !.at = "take"]
  <2>1. pointing' \in JobType /\ pointing'.at = "take" /\ pointing'.says = pointing.says
        /\ pointing'.outcome = pointing.outcome /\ Alike(pointing, pointing')
    BY <1>1 DEF PointingInv, Working, JobType, Alike
  <2>2. QED
    BY <2>1 DEF P!Bin, PointingInv, Working, Centring, Aligning, Framing, Alike
<1>2. CASE pointing' = P!Over(pointing, "failed")
  <2>1. Working(P!Over(pointing, "failed"), mount)
    BY OverWorks DEF P!Bin, PointingInv, Working, Centring, Aligning, Outcomes
  <2>2. QED
    BY <1>2, <2>1 DEF P!Bin
<1>3. QED
  BY <1>1, <1>2 DEF P!Bin

LEMMA TakeWorks == ASSUME PointingInv, P!Take PROVE Working(pointing', mount')
<1>1. CASE pointing' = [pointing EXCEPT !.at = IF pointing.rebin THEN "unbin" ELSE "solve",
                                        !.frame = mount.points, !.said = mount.says]
  <2> DEFINE a == IF pointing.rebin THEN "unbin" ELSE "solve"
  <2>1. a \in {"unbin", "solve"} /\ (a = "unbin" <=> pointing.rebin) /\ mount.points \in Dirs
       /\ mount.says \in Dirs
    BY DEF PointingInv, Working, Rig
  <2>2. pointing' = [pointing EXCEPT !.at = a, !.frame = mount.points, !.said = mount.says]
    BY <1>1
  <2> HIDE DEF a
  <2>3. /\ pointing' \in JobType /\ pointing'.at = a /\ pointing'.says = pointing.says
        /\ pointing'.outcome = pointing.outcome /\ pointing'.frame = mount.points
    BY <2>1, <2>2 DEF PointingInv, Working, JobType
  <2>4. /\ pointing'.job = pointing.job /\ pointing'.rebin = pointing.rebin
        /\ pointing'.sync = pointing.sync /\ pointing'.goal = pointing.goal
        /\ pointing'.aim = pointing.aim /\ pointing'.solved = pointing.solved
        /\ pointing'.jolts = pointing.jolts /\ pointing'.measured = pointing.measured
        /\ pointing'.knob = pointing.knob /\ pointing'.axis = pointing.axis
        /\ pointing'.previous = pointing.previous
    BY <2>1, <2>2 DEF PointingInv, Working, JobType
  <2>5. QED
    BY <2>1, <2>3, <2>4 DEF P!Take, PointingInv, Working, Centring, Aligning, Framing
<1>2. CASE pointing.rebin /\ pointing' = [pointing EXCEPT !.at = "unbin", !.outcome = "failed"]
  <2>1. /\ pointing' \in JobType /\ pointing'.at = "unbin" /\ pointing'.says = pointing.says
        /\ Alike(pointing, pointing')
    BY <1>2 DEF PointingInv, Working, JobType, Alike, Outcomes
  <2>2. QED
    BY <1>2, <2>1 DEF P!Take, PointingInv, Working, Centring, Aligning, Framing, Alike
<1>3. CASE pointing' = P!Over(pointing, "failed")
  <2>1. Working(P!Over(pointing, "failed"), mount)
    BY OverWorks DEF P!Take, PointingInv, Working, Centring, Aligning, Outcomes
  <2>2. QED
    BY <1>3, <2>1 DEF P!Take
<1>4. QED
  BY <1>1, <1>2, <1>3 DEF P!Take

LEMMA UnbinWorks == ASSUME PointingInv, P!Unbin PROVE Working(pointing', mount')
<1> DEFINE a == IF pointing.outcome = "running" THEN "solve" ELSE "over"
<1>1. pointing' = [pointing EXCEPT !.at = a] /\ a \in {"solve", "over"} /\ UNCHANGED mount
  BY DEF P!Unbin
<1>2. pointing.rebin /\ pointing.at = "unbin"
  BY DEF P!Unbin, PointingInv, Working
<1> HIDE DEF a
<1>3. /\ pointing' \in JobType /\ pointing'.at = a /\ pointing'.says = pointing.says
      /\ Alike(pointing, pointing')
  BY <1>1 DEF PointingInv, Working, JobType, Alike
<1>4. QED
  BY <1>1, <1>2, <1>3 DEF PointingInv, Working, Centring, Aligning, Framing, Alike

LEMMA SolveWorks ==
  ASSUME P!PointingAssumption, PointingInv, P!Solve
  PROVE  Working(pointing', mount') /\ last' \in Seen
<1>t. pointing \in JobType /\ mount \in Rig /\ pointing.at = "solve" /\ UNCHANGED mount
      /\ pointing.job \in {"solve", "center", "align"}
  BY DEF P!Solve, PointingInv, Working, JobType
<1>l. last' \in Seen
  <2>1. pointing.says \in Dirs /\ pointing.said \in Dirs /\ pointing.frame \in Dirs
    BY <1>t DEF JobType
  <2>n. P!NoFrame \in Seen
    BY RingTypes DEF P!NoFrame, Seen
  <2>2. [P!NoFrame EXCEPT !.at = "there", !.says = pointing.says, !.said = pointing.said,
                          !.frame = pointing.frame] \in Seen
    BY <2>1, <2>n DEF Seen
  <2>3. QED
    BY <2>2 DEF P!Solve, PointingInv
<1>1. CASE pointing.sync /\ pointing' = [pointing EXCEPT !.at = "sync"]
  <2>1. /\ pointing' \in JobType /\ pointing'.at = "sync" /\ pointing'.says = pointing.says
        /\ pointing'.outcome = pointing.outcome /\ Alike(pointing, pointing')
    BY <1>t, <1>1 DEF JobType, Alike
  <2>2. QED
    BY <1>t, <1>l, <1>1, <2>1 DEF PointingInv, Working, Centring, Aligning, Framing, Alike
<1>2. CASE ~pointing.sync /\ pointing' = P!Goes(pointing)
  <2>1. CASE pointing.job = "solve"
    <3>1. Working(P!Over(pointing, "succeeded"), mount)
      BY <1>t, <2>1, OverWorks DEF Outcomes
    <3>2. QED
      BY <1>t, <1>l, <1>2, <2>1, <3>1 DEF P!Goes
  <2>2. CASE pointing.job = "center"
    <3>1. Centring(pointing, mount)
      BY <2>2 DEF PointingInv, Working
    <3>2. Working(P!Centred(pointing), mount)
      BY <1>t, <1>2, <2>2, <3>1, CentredWorks DEF Centring, Framing
    <3>3. QED
      BY <1>t, <1>l, <1>2, <2>2, <3>2 DEF P!Goes
  <2>3. CASE pointing.job = "align"
    BY <1>t, <1>l, <1>2, <2>3, AlignedWorks DEF P!Goes, PointingInv
  <2>4. QED
    BY <1>t, <2>1, <2>2, <2>3
<1>3. CASE pointing' = P!Missed(pointing)
  <2>1. CASE pointing.job = "solve"
    <3>1. Working(P!Over(pointing, "failed"), mount)
      BY <1>t, <2>1, OverWorks DEF Outcomes
    <3>2. QED
      BY <1>t, <1>l, <1>3, <2>1, <3>1 DEF P!Missed
  <2>2. CASE pointing.job = "center"
    BY <1>t, <1>l, <1>3, <2>2, CentreMissedWorks DEF P!Missed, PointingInv
  <2>3. CASE pointing.job = "align"
    BY <1>t, <1>l, <1>3, <2>3, AlignMissedWorks DEF P!Missed, PointingInv
  <2>4. QED
    BY <1>t, <2>1, <2>2, <2>3
<1>4. CASE pointing' = P!Over(pointing, "failed")
  <2>1. Working(P!Over(pointing, "failed"), mount)
    BY <1>t, OverWorks DEF PointingInv, Working, Centring, Aligning, Outcomes
  <2>2. QED
    BY <1>t, <1>l, <1>4, <2>1
<1>5. QED
  BY <1>1, <1>2, <1>3, <1>4 DEF P!Solve

\* A sync, of a solve or a centring: the mount knows where it points if nothing moved it.
LEMMA SyncWorks ==
  ASSUME P!PointingAssumption, PointingInv, P!Sync
  PROVE  Working(pointing', mount') /\ last' \in Seen
<1>t. pointing \in JobType /\ mount \in Rig /\ pointing.at = "sync" /\ pointing.sync
      /\ pointing.job \in {"solve", "center"} /\ pointing.frame \in Dirs
  BY DEF P!Sync, PointingInv, Working, Aligning, JobType
<1>l. last' \in Seen
  <2>1. P!NoFrame \in Seen
    BY RingTypes DEF P!NoFrame, Seen
  <2>2. QED
    BY <2>1 DEF P!Sync, PointingInv
<1>1. CASE /\ mount.tracking /\ mount' = [mount EXCEPT !.says = pointing.frame]
           /\ pointing' = P!Goes(pointing)
  <2>1. /\ mount' \in Rig /\ mount'.says = pointing.frame /\ mount'.points = mount.points
        /\ mount'.tracking
    BY <1>t, <1>1 DEF Rig
  <2>2. CASE pointing.job = "solve"
    <3>1. Working(P!Over(pointing, "succeeded"), mount')
      BY <1>t, <2>1, <2>2, OverWorks DEF Outcomes
    <3>2. QED
      BY <1>t, <1>l, <1>1, <2>2, <3>1 DEF P!Goes
  <2>3. CASE pointing.job = "center"
    <3>1. Centring(pointing, mount)
      BY <2>3 DEF PointingInv, Working
    <3>2. Working(P!Centred(pointing), mount')
      BY <1>t, <2>1, <2>3, <3>1, CentredWorks DEF Centring, Framing
    <3>3. QED
      BY <1>l, <1>1, <2>3, <3>2 DEF P!Goes
  <2>4. QED
    BY <1>t, <2>2, <2>3
<1>2. CASE pointing' = P!Over(pointing, "failed") /\ UNCHANGED mount
  <2>1. Working(P!Over(pointing, "failed"), mount)
    BY <1>t, OverWorks DEF PointingInv, Working, Centring, Aligning, Outcomes
  <2>2. QED
    BY <1>l, <1>2, <2>1
<1>3. QED
  BY <1>1, <1>2 DEF P!Sync

LEMMA SlewedIs ==
  ASSUME P!PointingAssumption, mount \in Rig, NEW aim \in Dirs, NEW jolt \in {0, 1}
  PROVE  LET m == P!Slewed(aim, jolt)
         IN /\ m \in Rig /\ m.says = aim /\ m.tracking
            /\ m.points = P!Plus(aim, P!Plus(P!Minus(mount.points, mount.says), jolt))
<1>1. mount.points \in Int /\ mount.says \in Int /\ aim \in Int /\ jolt \in Int
  BY RingTypes DEF Rig
<1>2. P!Minus(mount.points, mount.says) \in Int
  BY <1>1, RingTypes, TurnsAround
<1>3. P!Plus(P!Minus(mount.points, mount.says), jolt) \in Int
  BY <1>1, <1>2, RingTypes, TurnsAround
<1>4. P!Plus(aim, P!Plus(P!Minus(mount.points, mount.says), jolt)) \in Dirs
  BY <1>1, <1>3, TurnsAround
<1>5. QED
  BY <1>4 DEF P!Slewed, Rig

LEMMA SlewWorks == ASSUME P!PointingAssumption, PointingInv, P!Slew PROVE Working(pointing', mount')
<1>t. pointing \in JobType /\ mount \in Rig /\ pointing.aim \in Dirs /\ pointing.jolts \in Nat
      /\ pointing.solved \in Nat /\ pointing.at \in {"slew", "back"} /\ pointing.job # "none"
      /\ pointingFaults \in Nat
  BY DEF P!Slew, PointingInv, Working, JobType
<1>1. CASE pointing' = P!Over(pointing, "failed") /\ UNCHANGED mount
  <2>1. Working(P!Over(pointing, "failed"), mount)
    BY <1>t, OverWorks DEF PointingInv, Working, Centring, Aligning, Outcomes
  <2>2. QED
    BY <1>1, <2>1
<1>2. ASSUME NEW jolt \in {0, 1}, mount' = P!Slewed(pointing.aim, jolt),
             pointingFaults' = pointingFaults + jolt,
             LET r == [pointing EXCEPT !.jolts = @ + pointingFaults' - pointingFaults]
             IN pointing' = IF P!At("back") THEN P!Over(r, "succeeded")
                            ELSE [r EXCEPT !.at = IF pointing.rebin THEN "bin" ELSE "take",
                                           !.says = pointing.aim]
      PROVE  Working(pointing', mount')
  <2> DEFINE k == pointing.jolts + jolt
             r == [pointing EXCEPT !.jolts = k]
             a == IF pointing.rebin THEN "bin" ELSE "take"
  <2>1. k \in Nat /\ k = pointing.jolts + jolt /\ pointing.jolts + pointingFaults' - pointingFaults = k
    BY <1>t, <1>2
  <2>2. pointing' = IF P!At("back") THEN P!Over(r, "succeeded")
                    ELSE [r EXCEPT !.at = a, !.says = pointing.aim]
    BY <1>t, <1>2, <2>1 DEF JobType
  <2>3. a \in {"bin", "take"} /\ (a = "bin" <=> pointing.rebin)
    OBVIOUS
  <2> HIDE DEF k, a
  <2>4. /\ r \in JobType /\ r.job = pointing.job /\ r.rebin = pointing.rebin /\ r.sync = pointing.sync
        /\ r.goal = pointing.goal /\ r.aim = pointing.aim /\ r.solved = pointing.solved
        /\ r.jolts = k /\ r.measured = pointing.measured /\ r.outcome = pointing.outcome
    BY <1>t, <2>1 DEF JobType
  <2> HIDE DEF r
  <2>5. /\ mount' \in Rig /\ mount'.says = pointing.aim /\ mount'.tracking
        /\ mount'.points = P!Plus(pointing.aim, P!Plus(P!Minus(mount.points, mount.says), jolt))
    BY <1>t, <1>2, SlewedIs
  <2>6. CASE pointing.at = "back"
    <3>1. pointing.job # "center" /\ (pointing.job = "align" => ~pointing.rebin /\ ~pointing.sync)
      BY <2>6 DEF PointingInv, Working, Centring, Aligning
    <3>2. Working(P!Over(r, "succeeded"), mount')
      BY <1>t, <2>4, <2>5, <3>1, OverWorks DEF Outcomes
    <3>3. QED
      BY <2>2, <2>6, <3>2
  <2>7. CASE pointing.at = "slew"
    <3>1. pointing' = [r EXCEPT !.at = a, !.says = pointing.aim]
      BY <2>2, <2>7
    <3>2. /\ pointing' \in JobType /\ pointing'.at = a /\ pointing'.says = pointing.aim
          /\ Alike(r, pointing') /\ pointing'.outcome = r.outcome
      BY <1>t, <2>3, <2>4, <3>1 DEF JobType, Alike
    <3>3. pointing.job = "center" => pointing.solved <= k \/ mount'.points = Target
      BY <1>t, <1>2, <2>1, <2>5, <2>7 DEF PointingInv, Working, Centring
    <3>4. pointing.job = "center" => Centring(pointing', mount')
      BY <1>t, <2>1, <2>3, <2>4, <2>5, <2>7, <3>2, <3>3 DEF PointingInv, Working, Centring, Framing, Alike
    <3>5. pointing.job = "align" => Aligning(pointing', mount')
      BY <2>3, <2>4, <2>5, <2>7, <3>2 DEF PointingInv, Working, Aligning, Framing, Alike
    <3>6. QED
      BY <1>t, <2>3, <2>4, <2>5, <3>2, <3>4, <3>5 DEF PointingInv, Working, Framing, Alike
  <2>8. QED
    BY <1>t, <2>6, <2>7
<1>3. CASE mount' = P!Slewed(pointing.aim, 0) /\ UNCHANGED pointingFaults /\ ~(pointing' = P!Over(pointing, "failed") /\ UNCHANGED mount)
  <2>1. pointingFaults' = pointingFaults + 0
    BY <1>t, <1>3
  <2>2. QED
    BY <1>2, <1>3, <2>1 DEF P!Slew, P!Fault
<1>4. QED
  BY <1>1, <1>2, <1>3 DEF P!Slew, P!Fault

LEMMA NoneIs ==
  ASSUME P!PointingAssumption
  PROVE  /\ P!None \in JobType /\ P!None.job = "none" /\ P!None.at = "idle" /\ P!None.outcome = "none"
         /\ ~P!None.rebin /\ ~P!None.sync /\ ~P!None.measured /\ P!None.solved = 0 /\ P!None.jolts = 0
<1> DEFINE z == 0
<1>1. z \in Dirs /\ z \in Int /\ z \in Nat
  BY RingTypes
<1>2. P!None = [job |-> "none", at |-> "idle", rebin |-> FALSE, sync |-> FALSE, goal |-> z, aim |-> z,
                says |-> z, said |-> z, frame |-> z, tried |-> z, solved |-> z, seen |-> z, missed |-> z,
                measured |-> FALSE, knob |-> z, axis |-> z, previous |-> z, finish |-> FALSE,
                outcome |-> "none", jolts |-> z]
  BY DEF P!None
<1> HIDE DEF z
<1>3. /\ P!None \in JobType /\ P!None.job = "none" /\ P!None.at = "idle" /\ P!None.outcome = "none"
      /\ ~P!None.rebin /\ ~P!None.sync /\ ~P!None.measured /\ P!None.solved = z /\ P!None.jolts = z
  BY <1>1, <1>2 DEF JobType, Outcomes
<1>4. QED
  BY <1>3 DEF z

LEMMA StartSolveWorks ==
  ASSUME P!PointingAssumption, PointingInv, NEW sync \in BOOLEAN, NEW rebin \in BOOLEAN,
         P!StartSolve(sync, rebin)
  PROVE  Working(pointing', mount')
<1> DEFINE t == [P!None EXCEPT !.job = "solve", !.sync = sync, !.rebin = rebin, !.outcome = "running"]
<1>1. t \in JobType /\ t.job = "solve" /\ t.rebin = rebin
  BY NoneIs DEF JobType, Outcomes
<1>2. pointing' = P!Begin(t) /\ mount' = mount /\ mount \in Rig
  BY DEF P!StartSolve, P!Unheld, PointingInv, Working
<1> HIDE DEF t
<1>3. /\ pointing' \in JobType /\ pointing'.at = (IF t.rebin THEN "bin" ELSE "take")
      /\ pointing'.says = mount.says /\ Alike(t, pointing')
  BY <1>1, <1>2, BeginIs
<1>4. QED
  BY <1>1, <1>2, <1>3 DEF Working, Framing, Alike

LEMMA StartCenterWorks ==
  ASSUME P!PointingAssumption, PointingInv, NEW sync \in BOOLEAN, P!StartCenter(sync)
  PROVE  Working(pointing', mount')
<1>1. Target \in Dirs
  BY RingTypes
<1>2. /\ pointing' = [P!None EXCEPT !.job = "center", !.at = "slew", !.sync = sync, !.goal = Target,
                                    !.aim = Target, !.outcome = "running"]
      /\ mount' = mount /\ mount \in Rig
  BY DEF P!StartCenter, P!Unheld, PointingInv, Working
<1>3. /\ pointing' \in JobType /\ pointing'.job = "center" /\ pointing'.at = "slew"
      /\ pointing'.goal = Target /\ pointing'.aim = Target /\ ~pointing'.rebin
      /\ pointing'.outcome = "running" /\ pointing'.solved = P!None.solved
      /\ pointing'.jolts = P!None.jolts
  BY <1>1, <1>2, NoneIs DEF JobType, Outcomes
<1>4. pointing'.solved = 0 /\ pointing'.jolts = 0
  BY <1>3, NoneIs
<1>5. QED
  BY <1>2, <1>3, <1>4 DEF Working, Centring, Framing

LEMMA StartAlignWorks ==
  ASSUME P!PointingAssumption, PointingInv, P!StartAlign
  PROVE  Working(pointing', mount')
<1> DEFINE t == [P!None EXCEPT !.job = "align", !.goal = mount.says, !.aim = mount.says,
                               !.outcome = "running"]
<1>m. mount \in Rig /\ mount.says \in Dirs
  BY DEF PointingInv, Working, Rig
<1>1. t \in JobType /\ t.job = "align" /\ ~t.rebin /\ ~t.sync /\ ~t.measured
  BY <1>m, NoneIs DEF JobType, Outcomes
<1>2. pointing' = P!Begin(t)
  BY DEF P!StartAlign
<1> HIDE DEF t
<1>3. /\ pointing' \in JobType /\ pointing'.at = "take" /\ pointing'.says = mount.says
      /\ Alike(t, pointing')
  BY <1>m, <1>1, <1>2, BeginIs
<1>4. mount' \in Rig /\ mount'.says = mount.says /\ mount'.tracking
  BY <1>m DEF P!StartAlign, Rig
<1>5. QED
  BY <1>1, <1>3, <1>4 DEF Working, Aligning, Framing, Alike

LEMMA FinishWorks == ASSUME PointingInv, P!Finish PROVE Working(pointing', mount')
<1>1. /\ pointing' \in JobType /\ pointing'.at = pointing.at /\ pointing'.says = pointing.says
      /\ Alike(pointing, pointing') /\ pointing'.outcome = pointing.outcome
  BY DEF P!Finish, PointingInv, Working, JobType, Alike
<1>2. QED
  BY <1>1 DEF P!Finish, P!Unheld, PointingInv, Working, Aligning, Framing, Alike

LEMMA KnobTurnedWorks ==
  ASSUME P!PointingAssumption, PointingInv, P!KnobTurned
  PROVE  Working(pointing', mount')
<1>t. /\ pointing \in JobType /\ mount \in Rig /\ pointing.knob \in Int /\ pointing.axis \in Int
      /\ mount.points \in Dirs /\ pointing.previous \in Dirs /\ mount.points \in Int
  BY RingTypes DEF PointingInv, Working, JobType, Rig
<1> DEFINE n == pointing.knob + 1
           p == P!Plus(mount.points, 1)
<1>1. n \in Int /\ p \in Dirs
  BY <1>t, TurnsAround
<1>2. pointing' = [pointing EXCEPT !.knob = n] /\ mount' = [mount EXCEPT !.points = p]
  BY <1>t DEF P!KnobTurned, JobType, Rig
<1>3. P!Minus(n, pointing.axis) = P!Minus(p, pointing.previous)
  BY <1>t, TurnsBoth DEF P!KnobTurned, P!Measuring, PointingInv, Working, Aligning
<1> HIDE DEF n, p
<1>4. /\ pointing' \in JobType /\ pointing'.at = pointing.at /\ pointing'.says = pointing.says
      /\ pointing'.job = pointing.job /\ pointing'.rebin = pointing.rebin
      /\ pointing'.sync = pointing.sync /\ pointing'.measured = pointing.measured
      /\ pointing'.knob = n /\ pointing'.axis = pointing.axis
      /\ pointing'.previous = pointing.previous /\ pointing'.outcome = pointing.outcome
  BY <1>t, <1>1, <1>2 DEF JobType
<1>5. /\ mount' \in Rig /\ mount'.says = mount.says /\ mount'.points = p
      /\ mount'.tracking = mount.tracking
  BY <1>t, <1>1, <1>2 DEF Rig
<1>6. QED
  BY <1>3, <1>4, <1>5 DEF P!KnobTurned, P!Measuring, PointingInv, Working, Aligning, Framing

LEMMA CancelWorks ==
  ASSUME P!PointingAssumption, PointingInv, P!Cancel
  PROVE  Working(pointing', mount')
<1>t. /\ pointing \in JobType /\ mount \in Rig /\ pointing.job # "none" /\ pointing.aim \in Dirs
      /\ pointing.at # "over"
  BY DEF P!Cancel, PointingInv, Working, JobType
<1>1. CASE /\ pointing.at = "take" /\ pointing.rebin
           /\ pointing' = [pointing EXCEPT !.at = "unbin", !.outcome = "cancelled"]
  <2>1. /\ pointing' \in JobType /\ pointing'.at = "unbin" /\ pointing'.says = pointing.says
        /\ Alike(pointing, pointing')
    BY <1>t, <1>1 DEF JobType, Alike, Outcomes
  <2>2. UNCHANGED mount
    BY <1>1 DEF P!Cancel
  <2>3. QED
    BY <1>1, <2>1, <2>2 DEF PointingInv, Working, Centring, Aligning, Framing, Alike
<1>2. CASE pointing' = P!Over(pointing, "cancelled")
  <2>1. mount' \in Rig /\ (mount' = mount \/ mount'.tracking)
    BY <1>t, SlewedIs DEF P!Cancel
  <2>2. Working(P!Over(pointing, "cancelled"), mount')
    BY <1>t, <2>1, OverWorks DEF PointingInv, Working, Centring, Aligning, Outcomes
  <2>3. QED
    BY <1>2, <2>2
<1>3. QED
  BY <1>1, <1>2 DEF P!Cancel

LEMMA DriftWorks ==
  ASSUME P!PointingAssumption, PointingInv, P!Drift
  PROVE  Working(pointing', mount')
<1> DEFINE q == P!Plus(mount.says, 1)
           p == P!Plus(mount.points, 1)
<1>t. mount \in Rig /\ mount.says \in Int /\ mount.points \in Int /\ ~mount.tracking
  BY RingTypes DEF P!Drift, PointingInv, Working, Rig
<1>1. q \in Dirs /\ p \in Dirs
  BY <1>t, TurnsAround
<1>2. mount' = [mount EXCEPT !.says = q, !.points = p]
  BY <1>t DEF P!Drift, Rig
<1> HIDE DEF q, p
<1>3. mount' \in Rig /\ ~mount'.tracking
  BY <1>t, <1>1, <1>2 DEF Rig
<1>4. QED
  BY <1>t, <1>3 DEF P!Drift, PointingInv, Working, Centring, Aligning, Framing

\* While no job runs, the mount may be anywhere.
LEMMA IdleWorks ==
  ASSUME PointingInv, P!Idle, mount' \in Rig, pointing' = pointing
  PROVE  Working(pointing', mount')
BY DEF PointingInv, Working, Framing

\* The user's ways with a mount that no job holds.
LEMMA ByHandWorks ==
  ASSUME P!PointingAssumption, PointingInv,
         \/ P!SyncLast \/ P!SyncByHand \/ P!StopTracking
         \/ \E aim \in {Aimed, Target} : P!Goto(aim)
  PROVE  PointingInv'
<1>t. /\ mount \in Rig /\ last \in Seen /\ last.frame \in Dirs /\ mount.points \in Dirs
      /\ {Aimed, Target} \subseteq Dirs /\ P!NoFrame \in Seen
  BY RingTypes DEF PointingInv, Working, Rig, Seen, P!NoFrame
<1>1. mount' \in Rig
  <2>1. CASE P!SyncLast \/ P!SyncByHand \/ P!StopTracking
    BY <1>t, <2>1 DEF P!SyncLast, P!SyncByHand, P!StopTracking, Rig
  <2>2. CASE \E aim \in {Aimed, Target} : P!Goto(aim)
    BY <1>t, <2>2, SlewedIs DEF P!Goto
  <2>3. QED
    BY <2>1, <2>2
<1>2. UNCHANGED <<kept, pointing, pointingFaults>> /\ (last' = last \/ last' = P!NoFrame) /\ P!Idle
  BY DEF P!SyncLast, P!SyncByHand, P!StopTracking, P!Goto
<1>3. QED
  BY <1>t, <1>1, <1>2, IdleWorks DEF PointingInv

LEMMA KeptWorks ==
  ASSUME P!PointingAssumption, PointingInv, P!Arrive \/ P!Analysed \/ P!KeptSolved
  PROVE  PointingInv'
<1>t. /\ mount.says \in Dirs /\ mount.points \in Dirs /\ kept \in Seen /\ kept.n \in Nat
      /\ kept.n + 1 \in Nat
  BY DEF PointingInv, Working, Rig, Seen
<1>n. P!NoFrame \in Seen
  BY RingTypes DEF P!NoFrame, Seen
<1>1. kept' \in Seen /\ last' \in Seen
  <2>1. CASE P!Arrive
    <3>1. [P!NoFrame EXCEPT !.at = "analysing", !.n = kept.n + 1, !.said = mount.says,
                            !.frame = mount.points] \in Seen
      BY <1>t, <1>n DEF Seen
    <3>2. QED
      BY <2>1, <3>1 DEF P!Arrive, PointingInv
  <2>2. P!Gone \in Seen
    BY <1>t, <1>n DEF P!Gone, Seen
  <2>3. CASE P!Analysed
    <3>1. [kept EXCEPT !.at = "there", !.says = mount.says] \in Seen
      BY <1>t DEF Seen
    <3>2. QED
      BY <2>2, <2>3, <3>1 DEF P!Analysed, PointingInv
  <2>4. CASE P!KeptSolved
    BY <2>2, <2>4 DEF P!KeptSolved, PointingInv
  <2>5. QED
    BY <2>1, <2>3, <2>4
<1>2. UNCHANGED <<mount, pointing, pointingFaults>>
  BY DEF P!Arrive, P!Analysed, P!KeptSolved
<1>3. QED
  BY <1>1, <1>2 DEF PointingInv

LEMMA EndsWorks ==
  ASSUME P!PointingAssumption, PointingInv, P!Ends
  PROVE  Working(pointing', mount')
BY NoneIs DEF P!Ends, PointingInv, Working, Framing

LEMMA PointingStep == ASSUME P!PointingAssumption, PointingInv, P!Next PROVE PointingInv'
<1>1. ASSUME Working(pointing', mount'), UNCHANGED kept, last' = last \/ last' \in Seen,
             pointingFaults' = pointingFaults \/ P!Fault
      PROVE  PointingInv'
  BY <1>1 DEF PointingInv, P!Fault
<1>2. CASE P!Bin
  BY <1>1, <1>2, BinWorks DEF P!Bin
<1>3. CASE P!Take
  BY <1>1, <1>3, TakeWorks DEF P!Take
<1>4. CASE P!Unbin
  BY <1>1, <1>4, UnbinWorks DEF P!Unbin
<1>5. CASE P!Solve
  BY <1>1, <1>5, SolveWorks DEF P!Solve
<1>6. CASE P!Sync
  BY <1>1, <1>6, SyncWorks DEF P!Sync
<1>7. CASE P!Slew
  BY <1>1, <1>7, SlewWorks DEF P!Slew
<1>8. CASE P!Ends
  BY <1>1, <1>8, EndsWorks DEF P!Ends
<1>9. CASE \E sync, rebin \in BOOLEAN : P!StartSolve(sync, rebin)
  BY <1>1, <1>9, StartSolveWorks DEF P!StartSolve, P!Unheld
<1>10. CASE \E sync \in BOOLEAN : P!StartCenter(sync)
  BY <1>1, <1>10, StartCenterWorks DEF P!StartCenter, P!Unheld
<1>11. CASE P!StartAlign
  BY <1>1, <1>11, StartAlignWorks DEF P!StartAlign
<1>12. CASE P!Finish
  BY <1>1, <1>12, FinishWorks DEF P!Finish, P!Unheld
<1>13. CASE P!KnobTurned
  BY <1>1, <1>13, KnobTurnedWorks DEF P!KnobTurned
<1>14. CASE P!Cancel
  BY <1>1, <1>14, CancelWorks DEF P!Cancel
<1>15. CASE P!Drift
  BY <1>1, <1>15, DriftWorks DEF P!Drift
<1>16. QED
  BY <1>2, <1>3, <1>4, <1>5, <1>6, <1>7, <1>8, <1>9, <1>10, <1>11, <1>12, <1>13, <1>14, <1>15,
     ByHandWorks, KeptWorks DEF P!Next, P!Steps

LEMMA PointingInit == ASSUME P!PointingAssumption, P!Init PROVE PointingInv
<1>1. PICK e \in Errors : mount = [says |-> Aimed, points |-> P!Plus(Aimed, e), tracking |-> TRUE]
  BY DEF P!Init
<1>2. Aimed \in Dirs /\ P!Plus(Aimed, e) \in Dirs /\ P!NoFrame \in Seen
  BY RingTypes, TurnsAround DEF P!NoFrame, Seen
<1>3. mount \in Rig
  BY <1>1, <1>2 DEF Rig
<1>4. QED
  BY <1>2, <1>3, NoneIs DEF P!Init, PointingInv, Working, Framing

LEMMA PointingRests == ASSUME PointingInv, UNCHANGED pointingVars PROVE PointingInv'
BY DEF PointingInv, pointingVars

\* Whatever runs, the solving jobs and their mount are as they should be.
LEMMA PointingAlways == Spec => []PointingInv
<1> USE CameraJobsAssumption
<1>1. Init => PointingInv
  BY PointingInit DEF Init
<1>2. PointingInv /\ [Next]_vars => PointingInv'
  BY PointingStep, PointingRests DEF Next, Pointing, Flats, Imaging, Focusing, vars
<1>3. QED
  BY <1>1, <1>2, PTL DEF Spec

\* Two directions that are as far from a third are the same.
LEMMA SameDirection ==
  ASSUME P!PointingAssumption, NEW a \in Dirs, NEW b \in Dirs, NEW c \in Dirs,
         P!Minus(a, c) = P!Minus(b, c)
  PROVE  a = b
<1> DEFINE n == Ring
           x == (a - c) % n
<1>1. /\ n \in Nat \ {0} /\ a \in Int /\ b \in Int /\ c \in Int /\ a % n = a /\ b % n = b
      /\ a - c \in Int /\ b - c \in Int
  BY RingTypes
<1>2. x = (b - c) % n
  BY DEF P!Minus, n, x
<1> HIDE DEF n
<1>3. (x + c) % n = ((a - c) + c) % n
  BY <1>1, Remainders, Zenon
<1>4. (x + c) % n = ((b - c) + c) % n
  <2>1. (((b - c) % n) + c) % n = ((b - c) + c) % n
    BY <1>1, Remainders, Zenon
  <2>2. QED
    BY <1>2, <2>1
<1>5. (a - c) + c = a /\ (b - c) + c = b
  BY <1>1
<1>6. QED
  BY <1>1, <1>3, <1>4, <1>5

\* A step that syncs a mount to what a frame shows.
LEMMA SyncStep ==
  ASSUME P!PointingAssumption, PointingInv, P!Next, P!SyncLast \/ P!At("sync"), mount.tracking,
         mount' # mount,
         P!Unchanged(P!Solution), P!Solution.says = P!Solution.said
  PROVE  mount'.says = mount'.points
<1>t. /\ mount \in Rig /\ mount.says \in Dirs /\ mount.points \in Dirs /\ last.frame \in Dirs
      /\ last \in Seen /\ pointing.frame \in Dirs /\ pointing \in JobType
  BY DEF PointingInv, Working, Rig, JobType, Seen
<1>s. P!Minus(P!Solution.frame, P!Solution.says) = P!Minus(mount.points, mount.says)
  BY DEF P!Unchanged
<1>1. CASE P!SyncLast
  <2>1. mount.says = last.says /\ mount' = [mount EXCEPT !.says = last.frame] /\ P!Solution = last
    BY <1>1 DEF P!SyncLast, P!Solution
  <2>2. last.frame = mount.points
    BY <1>t, <1>s, <2>1, SameDirection
  <2>3. QED
    BY <1>t, <2>1, <2>2 DEF Rig
<1>2. CASE P!At("sync") /\ ~P!SyncLast
  <2>1. P!Solution = pointing /\ pointing.says = mount.says
    BY <1>2 DEF P!Solution, PointingInv, Working, Framing
  <2>2. mount' = [mount EXCEPT !.says = pointing.frame]
    <3>1. CASE P!Sync
      BY <3>1 DEF P!Sync
    <3>2. ~P!KnobTurned
      BY <1>2 DEF P!KnobTurned, P!Measuring, PointingInv, Working, Aligning
    <3>3. ~P!Cancel
      BY <1>2 DEF P!Cancel
    <3>4. ~P!Drift
      BY DEF P!Drift
    <3>5. ~(P!Bin \/ P!Take \/ P!Unbin \/ P!Solve \/ P!Slew \/ P!Ends)
      BY <1>2 DEF P!Bin, P!Take, P!Unbin, P!Solve, P!Slew, P!Ends
    <3>6. ~(P!StartAlign \/ P!Arrive \/ P!SyncByHand \/ P!StopTracking)
      BY <1>2 DEF P!StartAlign, P!Arrive, P!SyncByHand, P!StopTracking
    <3>7. ~P!Finish /\ ~P!Analysed /\ ~P!KeptSolved
      BY DEF P!Finish, P!Analysed, P!KeptSolved, P!Unheld
    <3>8. /\ ~(\E sync, rebin \in BOOLEAN : P!StartSolve(sync, rebin))
          /\ ~(\E sync \in BOOLEAN : P!StartCenter(sync))
          /\ ~(\E aim \in {Aimed, Target} : P!Goto(aim))
      BY <1>2 DEF P!StartSolve, P!StartCenter, P!Goto
    <3>9. QED
      BY <1>2, <3>1, <3>2, <3>3, <3>4, <3>5, <3>6, <3>7, <3>8 DEF P!Next, P!Steps
  <2>3. pointing.frame = mount.points
    BY <1>t, <1>s, <2>1, SameDirection
  <2>4. QED
    BY <1>t, <2>2, <2>3 DEF Rig
<1>3. QED
  BY <1>1, <1>2

\* A sync to a solution, in its job or later, leaves the mount knowing where it points, unless
\* its error has changed since the frame, or the frame's position was read only after the mount
\* had moved on (solve_frame, PointingService.sync).
THEOREM SyncKnows == Spec => SyncIsTrue
<1> USE CameraJobsAssumption
<1> DEFINE Knows == ((P!SyncLast \/ P!At("sync")) /\ mount.tracking /\ mount' # mount
                     /\ P!Unchanged(P!Solution) /\ P!Solution.says = P!Solution.said)
                    => mount'.says = mount'.points
<1>1. PointingInv /\ [Next]_vars => Knows
  <2>1. ASSUME PointingInv, [Next]_vars, mount' # mount
        PROVE  P!Next
    BY <2>1 DEF Next, Pointing, Flats, Imaging, Focusing, vars, pointingVars
  <2>2. QED
    BY <2>1, SyncStep
<1>2. P!SyncIsTrue <=> [][Knows]_(P!vars)
  BY DEF P!SyncIsTrue
<1> HIDE DEF Knows
<1>3. QED
  BY <1>1, <1>2, PointingAlways, PTL DEF Spec, SyncIsTrue

\* A centring that succeeds has centred, and the axis follows the knobs.
LEMMA PointingIsTrue ==
  ASSUME P!PointingAssumption, PointingInv
  PROVE  P!CenteredIsTrue /\ P!AxisFollows
<1>1. P!CenteredIsTrue
  BY DEF PointingInv, Working, Centring, JobType, P!CenteredIsTrue
<1>2. P!AxisFollows
  BY DEF PointingInv, Working, Aligning, P!AxisFollows, P!Measuring
<1>3. QED
  BY <1>1, <1>2
----------------------------------------------------------------------------
(* The search for a panel's exposure *)

\* The limits of the exposure are few enough tens apart for the tries there are, some six
\* decades for MAX_MISSES (a plan's own are under four), and a frame ten times fainter than
\* one that is clipped is not black.
SearchIsLongEnough == Black >= L!Ten - 1 /\ Longest - Shortest <= L!Ten * MaxMisses - 13

\* Not a job with a panel.
Away(r) == "source" \in DOMAIN r /\ r.source # "panel"

States == {"pending", "running", "done", "ended", "failed", "cancelled"}

PanelType ==
  [source : {"panel"}, at : {"configure", "pedestal", "select", "take", "level", "keep", "over"},
   i : DOMAIN Panels, order : {Panels}, done : [DOMAIN Panels -> Int],
   state : [DOMAIN Panels -> States], e : Int, level : Int, misses : Int, trend : Int,
   before : Int, wanted : Int, outcome : Outcomes]

\* So many misses correct an exposure that is off by d.
Near(d, misses) ==
  \/ d = 0
  \/ d > 0 /\ d <= 7 * misses - 6
  \/ d < 0 /\ -d <= 7 * misses - 2

\* The search is never too far from the exposure that the misses left could not find it.
Searching(r) ==
  /\ r.trend = 0
  /\ \A k \in DOMAIN Panels : r.state[k] = "failed" => ~L!Reachable(Panels[k])
  /\ r.at \in {"configure", "pedestal", "select"} => r.misses = 0
  /\ r.at \in {"take", "level", "keep"} /\ L!Reachable(Panels[r.i]) =>
       /\ Shortest <= r.e /\ r.e <= Longest
       /\ Near(r.e + Panels[r.i].panel, MaxMisses - 1 - r.misses)
       /\ r.at # "take" => r.level = r.e + Panels[r.i].panel
  /\ r.at = "keep" => r.level = 0

FlatsInv ==
  /\ flatsFaults \in Nat
  /\ flatsFaults = 0 =>
       sky.odd = 0 /\ (Away(flats) \/ (flats \in PanelType /\ Searching(flats)))

LEMMA PanelTypes ==
  ASSUME L!FlatsAssumption
  PROVE  /\ Len(Panels) \in Nat \ {0} /\ DOMAIN Panels = 1..Len(Panels) /\ 1 \in DOMAIN Panels
         /\ \A k \in DOMAIN Panels : Panels[k].panel \in Int
         /\ Shortest \in Nat /\ Longest \in Nat /\ First \in Nat /\ Shortest < Longest
         /\ MaxMisses \in Nat \ {0} /\ Black \in Nat
<1> DEFINE S == [narrow : BOOLEAN, panel : Int, sky : Int]
<1>1. Panels \in Seq(S) /\ Panels # <<>>
  BY DEF L!FlatsAssumption
<1> HIDE DEF S
<1>2. Len(Panels) \in Nat /\ DOMAIN Panels = 1..Len(Panels) /\ Len(Panels) # 0
  BY <1>1
<1>3. \A k \in DOMAIN Panels : Panels[k] \in S
  BY <1>1
<1>4. QED
  BY <1>2, <1>3 DEF L!FlatsAssumption, S

\* A job that is not with a panel does not become one.
LEMMA AwayEnds == ASSUME NEW r, Away(r), NEW s, NEW e PROVE Away(L!Ends(r, s, e))
BY Zenon DEF Away, L!Ends

LEMMA AwayLoops == ASSUME NEW r, Away(r), NEW e PROVE Away(L!Loop(r, e))
<1>1. Away([r EXCEPT !.at = "take", !.e = L!Clamped(e), !.level = 0, !.wanted = 0])
  BY Zenon DEF Away
<1>2. QED
  BY <1>1, AwayEnds, Zenon DEF L!Loop

LEMMA AwayDecides == ASSUME NEW r, Away(r) PROVE Away(L!Decided(r))
<1>1. Away([r EXCEPT !.at = "wait", !.level = 0])
  BY Zenon DEF Away
<1>2. QED
  BY <1>1, AwayEnds, AwayLoops, Zenon DEF L!Decided

LEMMA AwayStops == ASSUME NEW r, Away(r), NEW o PROVE Away(L!Stopped(r, o))
BY DEF Away, L!Stopped, L!None

USE DEF L!At

LEMMA AwayStep ==
  ASSUME Away(flats), L!Next, flatsFaults \in Nat, flatsFaults' = 0, ~L!Start("panel")
  PROVE  Away(flats')
<1>f. ~L!Fault /\ ~L!Fails
  BY DEF L!Fault, L!Fails
<1>1. CASE L!OpenSky
  BY <1>1, AwayStops, Zenon DEF L!OpenSky, Away
<1>2. CASE L!Prepare
  <2>1. ASSUME NEW from, NEW to, Away(to), L!Step(from, to) PROVE Away(flats')
    BY <1>f, <2>1 DEF L!Step
  <2>2. /\ Away([flats EXCEPT !.at = "untrack"]) /\ Away([flats EXCEPT !.at = "pedestal"])
        /\ Away([flats EXCEPT !.at = "configure", !.order = L!Ordered(Panels)])
        /\ Away([flats EXCEPT !.at = "take", !.e = L!Clamped(@)])
    BY Zenon DEF Away
  <2>3. QED
    BY <1>2, <2>1, <2>2 DEF L!Prepare
<1>3. CASE L!Pedestal
  BY <1>f, <1>3, Zenon DEF L!Pedestal, Away
<1>4. CASE L!Take
  BY <1>f, <1>4, Zenon DEF L!Take, Away
<1>5. CASE L!Level
  <2>1. CASE flats' = [flats EXCEPT !.at = "keep"]
    BY <2>1, Zenon DEF Away
  <2>2. CASE flats' = L!Decided([flats EXCEPT !.misses = IF @ < MaxMisses THEN @ + 1 ELSE @,
                                   !.wanted = L!NextExposure(flats.e, flats.level, flats.trend)])
    <3>1. Away([flats EXCEPT !.misses = IF @ < MaxMisses THEN @ + 1 ELSE @,
                             !.wanted = L!NextExposure(flats.e, flats.level, flats.trend)])
      BY Zenon DEF Away
    <3>2. QED
      BY <2>2, <3>1, AwayDecides
  <2>3. QED
    BY <1>f, <1>5, <2>1, <2>2 DEF L!Level
<1>6. CASE L!Keep
  <2>1. flats' = L!Kept(flats)
    BY <1>f, <1>6 DEF L!Keep
  <2>2. Away(L!Kept(flats))
    <3> DEFINE light == flats.level - flats.e
               trend == IF flats.source = "panel" \/ flats.before = L!NoKept \/ flats.misses > 0
                        THEN 0 ELSE light - flats.before
               wanted == L!NextExposure(flats.e, flats.level, trend)
               s == [flats EXCEPT !.done[flats.i] = @ + 1, !.misses = 0, !.before = light,
                                  !.trend = trend, !.wanted = wanted]
    <3>1. L!Kept(flats) = L!Decided(s)
      BY Zenon DEF L!Kept
    <3> HIDE DEF light, trend, wanted
    <3>2. Away(s)
      BY Zenon DEF Away
    <3>3. QED
      BY <3>1, <3>2, AwayDecides
  <2>3. QED
    BY <2>1, <2>2
<1>7. CASE L!Wait
  BY <1>7, AwayLoops DEF L!Wait
<1>8. CASE L!Over
  BY <1>8 DEF L!Over, L!None, Away
<1>9. CASE L!Cancel
  BY <1>9, AwayStops DEF L!Cancel
<1>10. CASE L!SunMoves \/ L!LightChanges
  BY <1>10 DEF L!SunMoves, L!LightChanges
<1>11. CASE L!Start("sky")
  BY <1>11, Zenon DEF L!Start, L!None, Away
<1>12. QED
  BY <1>1, <1>2, <1>3, <1>4, <1>5, <1>6, <1>7, <1>8, <1>9, <1>10, <1>11 DEF L!Next, L!Steps

\* A filter of the panel ends, as failed only when no exposure reaches it.
LEMMA PanelEnds ==
  ASSUME L!FlatsAssumption, NEW r \in PanelType, r.trend = 0, NEW st \in States, NEW e \in Int,
         \A k \in DOMAIN Panels : r.state[k] = "failed" => ~L!Reachable(Panels[k]),
         st = "failed" => ~L!Reachable(Panels[r.i])
  PROVE  L!Ends(r, st, e) \in PanelType /\ Searching(L!Ends(r, st, e))
<1> DEFINE states == [r.state EXCEPT ![r.i] = st]
           ended == [r EXCEPT !.state = states]
<1>1. /\ r.state \in [DOMAIN Panels -> States] /\ r.i \in DOMAIN Panels /\ r.order = Panels
      /\ r.i \in 1..Len(Panels) /\ Len(Panels) \in Nat
  BY PanelTypes DEF PanelType
<1>2. states \in [DOMAIN Panels -> States]
  BY <1>1
<1>3. \A k \in DOMAIN Panels : states[k] = "failed" => ~L!Reachable(Panels[k])
  BY <1>1
<1>4. ended = [r EXCEPT !.state[r.i] = st]
  BY <1>1 DEF PanelType
<1> HIDE DEF states
<1>5. ended \in PanelType /\ ended.state = states /\ ended.trend = 0 /\ ended.i = r.i
  BY <1>2 DEF PanelType
<1>6. CASE r.i = Len(r.order)
  <2> DEFINE o == IF \A k \in DOMAIN ended.state : ended.state[k] = "failed"
                  THEN "failed" ELSE "succeeded"
             s == [ended EXCEPT !.at = "over", !.outcome = o]
  <2>1. L!Ends(r, st, e) = s
    BY <1>4, <1>6 DEF L!Ends
  <2>2. o = "failed" \/ o = "succeeded"
    BY Zenon
  <2> HIDE DEF ended, o
  <2>3. o \in Outcomes
    BY <2>2 DEF Outcomes
  <2>4. s \in PanelType /\ s.state = states /\ s.trend = 0 /\ s.at = "over"
    BY <1>5, <2>3 DEF PanelType
  <2>5. QED
    BY <1>3, <2>1, <2>4 DEF Searching
<1>7. CASE r.i # Len(r.order)
  <2> DEFINE z == 0
             no == L!NoKept
             next == r.i + 1
             states2 == [states EXCEPT ![next] = "running"]
             s == [ended EXCEPT !.i = next, !.state = states2, !.at = "select", !.e = e,
                                !.level = z, !.wanted = z, !.misses = z, !.trend = z, !.before = no]
  <2>1. next \in DOMAIN Panels
    BY <1>1, <1>7, PanelTypes
  <2>2. L!Ends(r, st, e) = [ended EXCEPT !.i = @ + 1, !.state[r.i + 1] = "running", !.at = "select",
                                         !.e = e, !.level = 0, !.wanted = 0, !.misses = 0,
                                         !.trend = 0, !.before = L!NoKept]
    BY <1>4, <1>7 DEF L!Ends
  <2>3. z \in Int /\ no \in Int /\ z = 0
    BY DEF L!NoKept
  <2> HIDE DEF ended
  <2>4. L!Ends(r, st, e) = s
    BY <1>5, <2>2 DEF PanelType
  <2>5. /\ states2 \in [DOMAIN Panels -> States]
        /\ \A k \in DOMAIN Panels : states2[k] = "failed" => ~L!Reachable(Panels[k])
    <3>1. states2 \in [DOMAIN Panels -> States]
      BY <1>2 DEF States
    <3>2. \A k \in DOMAIN Panels : states2[k] = IF k = next THEN "running" ELSE states[k]
      BY <1>2
    <3> HIDE DEF states2, next
    <3>3. \A k \in DOMAIN Panels : states2[k] = "failed" => states[k] = "failed"
      BY <3>2
    <3>4. QED
      BY <1>3, <3>1, <3>3
  <2> HIDE DEF z, no, next, states2
  <2>6. s \in PanelType /\ s.state = states2 /\ s.trend = z /\ s.at = "select" /\ s.misses = z
    BY <1>5, <2>1, <2>3, <2>5 DEF PanelType
  <2>7. QED
    BY <2>3, <2>4, <2>5, <2>6 DEF Searching
<1>8. QED
  BY <1>6, <1>7

\* The next frame of a filter, unless it has its flats.
LEMMA PanelLoops ==
  ASSUME L!FlatsAssumption, NEW r \in PanelType, r.trend = 0, NEW e \in Int,
         \A k \in DOMAIN Panels : r.state[k] = "failed" => ~L!Reachable(Panels[k]),
         L!Reachable(Panels[r.i]) =>
           Near(L!Clamped(e) + Panels[r.i].panel, MaxMisses - 1 - r.misses)
  PROVE  L!Loop(r, e) \in PanelType /\ Searching(L!Loop(r, e))
<1>1. CASE r.done[r.i] = Count
  <2>1. "done" \in States /\ "done" # "failed"
    BY DEF States
  <2>2. L!Loop(r, e) = L!Ends(r, "done", e)
    BY <1>1 DEF L!Loop
  <2>3. QED
    BY <2>1, <2>2, PanelEnds
<1>2. CASE r.done[r.i] # Count
  <2> DEFINE c == L!Clamped(e)
             z == 0
             s == [r EXCEPT !.at = "take", !.e = c, !.level = z, !.wanted = z]
  <2>1. c \in Int /\ z \in Int /\ Shortest <= c /\ c <= Longest
    BY PanelTypes DEF L!Clamped
  <2>2. L!Loop(r, e) = s
    BY <1>2 DEF L!Loop
  <2> HIDE DEF c, z
  <2>3. /\ s \in PanelType /\ s.state = r.state /\ s.trend = 0 /\ s.at = "take" /\ s.e = c
        /\ s.i = r.i /\ s.misses = r.misses
    BY <2>1 DEF PanelType
  <2> HIDE DEF s
  <2>4. Searching(s)
    BY <2>1, <2>3 DEF Searching, c
  <2>5. QED
    BY <2>2, <2>3, <2>4
<1>3. QED
  BY <1>1, <1>2

\* An exposure that missed, within the limits: the next one is nearer.
LEMMA Nearer ==
  ASSUME L!FlatsAssumption, SearchIsLongEnough, NEW e \in Int, NEW panel \in Int, NEW n \in Int,
         Shortest <= e, e <= Longest, Shortest <= -panel, -panel <= Longest,
         e + panel # 0, Near(e + panel, n)
  PROVE  LET wanted == L!NextExposure(e, e + panel, 0)
         IN /\ n >= 1 /\ wanted \in Int
            /\ Near(L!Clamped(wanted) + panel, n - 1)
            /\ e + panel < 0 => ~(e >= Longest /\ wanted > Longest)
            /\ e + panel > 0 => ~(e <= Shortest /\ wanted < Shortest)
<1>1. Shortest \in Int /\ Longest \in Int /\ Shortest < Longest /\ Black \in Int /\ Black >= 6
  BY PanelTypes DEF SearchIsLongEnough, L!Ten
<1> DEFINE d == e + panel
           wanted == L!NextExposure(e, d, 0)
           c == L!Clamped(wanted)
<1>2. d \in Int /\ d # 0 /\ d = e + panel
  OBVIOUS
<1>3. wanted = IF d >= 2 THEN e - 7 ELSE IF d <= -Black THEN e + 7 ELSE e - d - 0
  BY DEF L!NextExposure, L!Clip, L!Ten
<1>4. c = IF wanted < Shortest THEN Shortest ELSE IF wanted > Longest THEN Longest ELSE wanted
  BY DEF L!Clamped
<1>5. \/ d > 0 /\ d <= 7 * n - 6
      \/ d < 0 /\ -d <= 7 * n - 2
  BY DEF Near
<1> HIDE DEF wanted, c, d
<1>6. wanted \in Int /\ c \in Int
  BY <1>1, <1>2, <1>3, <1>4
<1>7. n >= 1
  BY <1>2, <1>5
<1>8. \/ c + panel = 0
      \/ c + panel > 0 /\ c + panel <= 7 * (n - 1) - 6
      \/ c + panel < 0 /\ -(c + panel) <= 7 * (n - 1) - 2
  <2>1. CASE d >= 2
    BY <1>1, <1>2, <1>3, <1>4, <1>5, <2>1
  <2>2. CASE d <= -Black
    BY <1>1, <1>2, <1>3, <1>4, <1>5, <2>2
  <2>3. CASE d < 2 /\ d > -Black
    BY <1>1, <1>2, <1>3, <1>4, <2>3
  <2>4. QED
    BY <1>1, <1>2, <2>1, <2>2, <2>3
<1>9. /\ d < 0 => ~(e >= Longest /\ wanted > Longest)
      /\ d > 0 => ~(e <= Shortest /\ wanted < Shortest)
  BY <1>1, <1>2, <1>3
<1>10. QED
  BY <1>6, <1>7, <1>8, <1>9 DEF Near, d, wanted, c

\* What a frame that missed leads to.
LEMMA PanelMisses ==
  ASSUME L!FlatsAssumption, SearchIsLongEnough, flats \in PanelType, Searching(flats),
         flats.at = "level", ~L!InBand(flats)
  PROVE  LET r == [flats EXCEPT !.misses = IF @ < MaxMisses THEN @ + 1 ELSE @,
                                !.wanted = L!NextExposure(flats.e, flats.level, flats.trend)]
         IN L!Decided(r) \in PanelType /\ Searching(L!Decided(r))
<1> DEFINE m == IF flats.misses < MaxMisses THEN flats.misses + 1 ELSE flats.misses
           w == L!NextExposure(flats.e, flats.level, flats.trend)
           r == [flats EXCEPT !.misses = m, !.wanted = w]
           f == Panels[flats.i]
<1>t. /\ flats.e \in Int /\ flats.level \in Int /\ flats.trend = 0 /\ flats.misses \in Int
      /\ flats.i \in DOMAIN Panels /\ flats.source = "panel" /\ f.panel \in Int
      /\ MaxMisses \in Nat \ {0} /\ Shortest \in Int /\ Longest \in Int /\ Black \in Int
  BY PanelTypes DEF PanelType, Searching
<1>1. m \in Int /\ w \in Int
  BY <1>t DEF L!NextExposure, L!Ten
<1>2. r = [flats EXCEPT !.misses = IF @ < MaxMisses THEN @ + 1 ELSE @,
                        !.wanted = L!NextExposure(flats.e, flats.level, flats.trend)]
  BY DEF PanelType
<1>3. flats.level # 0
  BY <1>t DEF L!InBand
<1>4. L!Reachable(f) =>
        /\ ~(flats.level < 0 /\ flats.e >= Longest /\ w > Longest)
        /\ ~(flats.level > 0 /\ flats.e <= Shortest /\ w < Shortest)
        /\ ~(m >= MaxMisses) /\ Near(L!Clamped(w) + f.panel, MaxMisses - 1 - m)
  <2> SUFFICES ASSUME L!Reachable(f) PROVE
        /\ ~(flats.level < 0 /\ flats.e >= Longest /\ w > Longest)
        /\ ~(flats.level > 0 /\ flats.e <= Shortest /\ w < Shortest)
        /\ ~(m >= MaxMisses) /\ Near(L!Clamped(w) + f.panel, MaxMisses - 1 - m)
    OBVIOUS
  <2> DEFINE n == MaxMisses - 1 - flats.misses
  <2>1. /\ Shortest <= flats.e /\ flats.e <= Longest /\ flats.level = flats.e + f.panel
        /\ Near(flats.e + f.panel, n)
    BY DEF Searching
  <2>2. Shortest <= -f.panel /\ -f.panel <= Longest
    BY <1>t DEF L!Reachable, L!InLimits
  <2>3. w = L!NextExposure(flats.e, flats.e + f.panel, 0)
    BY <1>t, <2>1
  <2>4. n \in Int
    BY <1>t
  <2> HIDE DEF w, n, f
  <2>5. /\ n >= 1 /\ Near(L!Clamped(w) + f.panel, n - 1)
        /\ flats.e + f.panel < 0 => ~(flats.e >= Longest /\ w > Longest)
        /\ flats.e + f.panel > 0 => ~(flats.e <= Shortest /\ w < Shortest)
    BY <1>t, <1>3, <2>1, <2>2, <2>3, <2>4, Nearer
  <2>6. m = flats.misses + 1 /\ ~(m >= MaxMisses) /\ n - 1 = MaxMisses - 1 - m
    BY <1>t, <2>5 DEF n
  <2>7. QED
    BY <2>1, <2>5, <2>6
<1> HIDE DEF m, w, f
<1>5. /\ r \in PanelType /\ r.trend = 0 /\ r.i = flats.i /\ r.state = flats.state /\ r.misses = m
      /\ r.wanted = w /\ r.e = flats.e /\ r.level = flats.level /\ r.source = "panel"
  BY <1>t, <1>1 DEF PanelType
<1> HIDE DEF r
<1>6. \A k \in DOMAIN Panels : r.state[k] = "failed" => ~L!Reachable(Panels[k])
  BY <1>5 DEF Searching
<1>7. "failed" \in States /\ r.e \in Int
  BY <1>t, <1>5 DEF States
<1>8. CASE L!OutOfReach(r) \/ r.misses >= MaxMisses
  <2>1. ~L!Reachable(Panels[r.i])
    BY <1>4, <1>5, <1>8 DEF L!OutOfReach, f
  <2>2. L!Decided(r) = L!Ends(r, "failed", r.e)
    BY <1>5, <1>8 DEF L!Decided
  <2>3. L!Ends(r, "failed", r.e) \in PanelType /\ Searching(L!Ends(r, "failed", r.e))
    BY <1>5, <1>6, <1>7, <2>1, PanelEnds
  <2>4. QED
    BY <1>2, <2>2, <2>3
<1>9. CASE ~(L!OutOfReach(r) \/ r.misses >= MaxMisses)
  <2>1. L!Decided(r) = L!Loop(r, w)
    BY <1>5, <1>9 DEF L!Decided
  <2>2. L!Reachable(Panels[r.i]) =>
          Near(L!Clamped(w) + Panels[r.i].panel, MaxMisses - 1 - r.misses)
    BY <1>4, <1>5 DEF f
  <2>3. L!Loop(r, w) \in PanelType /\ Searching(L!Loop(r, w))
    BY <1>1, <1>5, <1>6, <2>2, PanelLoops
  <2>4. QED
    BY <1>2, <2>1, <2>3
<1>10. QED
  BY <1>2, <1>8, <1>9

\* A frame in the band is kept, and the next one is as long.
LEMMA PanelKeeps ==
  ASSUME L!FlatsAssumption, SearchIsLongEnough, flats \in PanelType, Searching(flats), flats.at = "keep"
  PROVE  L!Kept(flats) \in PanelType /\ Searching(L!Kept(flats))
<1> DEFINE light == flats.level - flats.e
           done == [flats.done EXCEPT ![flats.i] = @ + 1]
           z == 0
           w == L!NextExposure(flats.e, flats.level, z)
           r == [flats EXCEPT !.done = done, !.misses = z, !.before = light, !.trend = z, !.wanted = w]
           f == Panels[flats.i]
<1>t. /\ flats.e \in Int /\ flats.level = 0 /\ flats.i \in DOMAIN Panels /\ flats.source = "panel"
      /\ f.panel \in Int /\ MaxMisses \in Nat \ {0} /\ flats.done \in [DOMAIN Panels -> Int]
      /\ Shortest \in Int /\ Longest \in Int /\ Black \in Int /\ Black >= 6
  BY PanelTypes DEF PanelType, Searching, SearchIsLongEnough, L!Ten
<1>1. L!Kept(flats) = L!Decided(r)
  BY <1>t DEF L!Kept, PanelType
<1>2. light \in Int /\ z \in Int /\ z = 0 /\ done \in [DOMAIN Panels -> Int]
  BY <1>t
<1>3. w \in Int /\ w = flats.e
  BY <1>t, PanelTypes DEF L!NextExposure, L!Ten, L!Clip
<1> HIDE DEF light, done, z, w, f
<1>4. /\ r \in PanelType /\ r.trend = z /\ r.i = flats.i /\ r.state = flats.state /\ r.misses = z
      /\ r.wanted = w /\ r.level = flats.level /\ r.source = "panel"
  BY <1>2, <1>3 DEF PanelType
<1> HIDE DEF r
<1>5. L!Decided(r) = L!Loop(r, w)
  BY <1>t, <1>2, <1>4 DEF L!Decided, L!OutOfReach
<1>6. \A k \in DOMAIN Panels : r.state[k] = "failed" => ~L!Reachable(Panels[k])
  BY <1>4 DEF Searching
<1>7. L!Reachable(Panels[r.i]) =>
        Near(L!Clamped(w) + Panels[r.i].panel, MaxMisses - 1 - r.misses)
  <2> SUFFICES ASSUME L!Reachable(Panels[r.i])
               PROVE  Near(L!Clamped(w) + Panels[r.i].panel, MaxMisses - 1 - r.misses)
    OBVIOUS
  <2>1. /\ Shortest <= flats.e /\ flats.e <= Longest /\ 0 = flats.e + f.panel
    BY <1>t, <1>4 DEF Searching, f
  <2>2. w = flats.e
    BY <1>3
  <2>3. L!Clamped(w) + f.panel = 0
    BY <1>t, <2>1, <2>2 DEF L!Clamped
  <2>4. QED
    BY <1>4, <2>3 DEF Near, f
<1>8. L!Loop(r, w) \in PanelType /\ Searching(L!Loop(r, w))
  BY <1>2, <1>3, <1>4, <1>6, <1>7, PanelLoops
<1>9. QED
  BY <1>1, <1>5, <1>8

\* A panel's job that is cancelled.
LEMMA PanelStops ==
  ASSUME L!FlatsAssumption, flats \in PanelType, Searching(flats)
  PROVE  LET s == L!Stopped(flats, "cancelled") IN s \in PanelType /\ Searching(s)
<1> DEFINE states == L!Unfinished(flats, "cancelled")
           z == 0
           one == 1
           no == L!NoKept
           s == L!Stopped(flats, "cancelled")
<1>1. /\ states \in [DOMAIN Panels -> States]
      /\ \A k \in DOMAIN Panels : states[k] = "failed" => ~L!Reachable(Panels[k])
  <2>1. flats.state \in [DOMAIN Panels -> States]
    BY DEF PanelType
  <2>2. \A k \in DOMAIN Panels :
          states[k] = IF flats.state[k] \in {"pending", "running"} THEN "cancelled" ELSE flats.state[k]
    BY <2>1 DEF L!Unfinished
  <2>3. states \in [DOMAIN Panels -> States]
    BY <2>1 DEF L!Unfinished, States
  <2>4. QED
    BY <2>2, <2>3 DEF Searching
<1>2. z \in Int /\ z = 0 /\ one \in DOMAIN Panels /\ no \in Int
  BY PanelTypes DEF L!NoKept
<1>3. s = [source |-> flats.source, at |-> "over", i |-> one, order |-> flats.order,
           done |-> flats.done, state |-> states, e |-> z, level |-> z, misses |-> z, trend |-> z,
           before |-> no, wanted |-> z, outcome |-> "cancelled"]
  <2> DEFINE none == [source |-> "none", at |-> "idle", i |-> one, order |-> <<>>, done |-> <<>>,
                      state |-> <<>>, e |-> z, level |-> z, misses |-> z, trend |-> z,
                      before |-> no, wanted |-> z, outcome |-> "none"]
  <2>1. L!None = none
    BY DEF L!None
  <2>2. s = [none EXCEPT !.source = flats.source, !.order = flats.order, !.done = flats.done,
                         !.at = "over", !.state = states, !.outcome = "cancelled"]
    BY <2>1 DEF L!Stopped
  <2> HIDE DEF states, z, one, no, s
  <2>3. QED
    BY <2>2
<1> HIDE DEF states, z, one, no, s
<1>4. s \in PanelType /\ s.state = states /\ s.trend = z /\ s.at = "over"
  BY <1>1, <1>2, <1>3 DEF PanelType, Outcomes
<1>5. QED
  BY <1>1, <1>2, <1>4 DEF Searching, s

LEMMA PanelStarts ==
  ASSUME L!FlatsAssumption, L!Start("panel")
  PROVE  flats' \in PanelType /\ Searching(flats')
<1> DEFINE z == 0
           one == 1
           no == L!NoKept
           done == [k \in DOMAIN Panels |-> 0]
           states == [k \in DOMAIN Panels |-> "pending"]
<1>1. z \in Int /\ z = 0 /\ one \in DOMAIN Panels /\ no \in Int /\ First \in Int
  BY PanelTypes DEF L!NoKept
<1>2. done \in [DOMAIN Panels -> Int] /\ states \in [DOMAIN Panels -> States]
      /\ \A k \in DOMAIN Panels : states[k] # "failed"
  BY DEF States
<1>3. flats' = [source |-> "panel", at |-> "configure", i |-> one, order |-> Panels, done |-> done,
                state |-> states, e |-> First, level |-> z, misses |-> z, trend |-> z,
                before |-> no, wanted |-> z, outcome |-> "running"]
  BY DEF L!Start, L!None
<1> HIDE DEF z, one, no, done, states
<1>4. /\ flats' \in PanelType /\ flats'.state = states /\ flats'.trend = z
      /\ flats'.at = "configure" /\ flats'.misses = z
  BY <1>1, <1>2, <1>3 DEF PanelType, Outcomes
<1>5. QED
  BY <1>1, <1>2, <1>4 DEF Searching

\* What the job with a panel does, while nothing fails.
LEMMA PanelStep ==
  ASSUME L!FlatsAssumption, SearchIsLongEnough, flats \in PanelType, Searching(flats), sky.odd = 0,
         L!Next, flatsFaults = 0, flatsFaults' = 0
  PROVE  Away(flats') \/ (flats' \in PanelType /\ Searching(flats'))
<1>f. ~L!Fault /\ ~L!Fails
  BY DEF L!Fault, L!Fails
<1>t. /\ flats.at \in {"configure", "pedestal", "select", "take", "level", "keep", "over"}
      /\ flats.source = "panel" /\ flats.order = Panels /\ flats.i \in DOMAIN Panels
      /\ flats.e \in Int /\ flats.misses \in Int
  BY DEF PanelType
<1>1. CASE L!Prepare
  <2>1. CASE flats.at = "configure"
    <3>1. flats' = [flats EXCEPT !.at = "pedestal"]
      BY <1>f, <1>1, <2>1 DEF L!Prepare, L!Step
    <3>2. /\ flats' \in PanelType /\ flats'.at = "pedestal" /\ flats'.state = flats.state
          /\ flats'.misses = flats.misses /\ flats'.trend = flats.trend
      BY <3>1 DEF PanelType
    <3>3. QED
      BY <2>1, <3>2 DEF Searching
  <2>2. CASE flats.at = "select"
    <3> DEFINE c == L!Clamped(flats.e)
    <3>1. flats' = [flats EXCEPT !.at = "take", !.e = c]
      BY <1>f, <1>1, <2>2 DEF L!Prepare, L!Step, PanelType
    <3>2. c \in Int /\ Shortest <= c /\ c <= Longest
      BY <1>t, PanelTypes DEF L!Clamped
    <3> HIDE DEF c
    <3>3. /\ flats' \in PanelType /\ flats'.at = "take" /\ flats'.state = flats.state
          /\ flats'.misses = flats.misses /\ flats'.trend = flats.trend /\ flats'.e = c
          /\ flats'.i = flats.i
      BY <3>1, <3>2 DEF PanelType
    <3>4. flats.misses = 0 /\ Panels[flats.i].panel \in Int
      BY <1>t, <2>2, PanelTypes DEF Searching
    <3>5. L!Reachable(Panels[flats.i]) =>
            Near(c + Panels[flats.i].panel, MaxMisses - 1 - flats.misses)
      <4> DEFINE p == Panels[flats.i].panel
      <4> SUFFICES ASSUME L!Reachable(Panels[flats.i])
                   PROVE  Near(c + p, MaxMisses - 1 - flats.misses)
        OBVIOUS
      <4>1. p \in Int /\ Shortest <= -p /\ -p <= Longest
        BY <3>4, PanelTypes DEF L!Reachable, L!InLimits
      <4> HIDE DEF p
      <4>2. /\ Shortest \in Nat /\ Longest \in Nat /\ MaxMisses \in Nat
            /\ Longest - Shortest <= 7 * MaxMisses - 13
        BY PanelTypes DEF SearchIsLongEnough, L!Ten
      <4>3. QED
        BY <3>2, <3>4, <4>1, <4>2 DEF Near
    <3>6. QED
      BY <3>2, <3>3, <3>5 DEF Searching
  <2>3. QED
    BY <1>t, <1>1, <2>1, <2>2 DEF L!Prepare, L!Step
<1>2. CASE L!Pedestal
  <2> DEFINE states == [flats.state EXCEPT ![1] = "running"]
  <2>1. flats' = [flats EXCEPT !.at = "select", !.state = states] /\ flats.at = "pedestal"
    BY <1>f, <1>2 DEF L!Pedestal, PanelType
  <2>2. flats.state \in [DOMAIN Panels -> States]
    BY DEF PanelType
  <2>3. states \in [DOMAIN Panels -> States]
    BY <2>2 DEF States
  <2>4. \A k \in DOMAIN Panels : states[k] = IF k = 1 THEN "running" ELSE flats.state[k]
    BY <2>2
  <2> HIDE DEF states
  <2>5. /\ flats' \in PanelType /\ flats'.at = "select" /\ flats'.state = states
        /\ flats'.misses = flats.misses /\ flats'.trend = flats.trend
    BY <2>1, <2>3 DEF PanelType
  <2>6. \A k \in DOMAIN Panels : states[k] = "failed" => ~L!Reachable(Panels[k])
    BY <2>4 DEF Searching
  <2>7. QED
    BY <2>1, <2>5, <2>6 DEF Searching
<1>3. CASE L!Take
  <2> DEFINE v == flats.e + L!Light(flats.order[flats.i])
  <2>1. flats' = [flats EXCEPT !.at = "level", !.level = v] /\ flats.at = "take"
    BY <1>f, <1>3 DEF L!Take
  <2>2. v = flats.e + Panels[flats.i].panel /\ v \in Int
    BY <1>t, PanelTypes DEF L!Light
  <2> HIDE DEF v
  <2>3. /\ flats' \in PanelType /\ flats'.at = "level" /\ flats'.state = flats.state
        /\ flats'.misses = flats.misses /\ flats'.trend = flats.trend /\ flats'.e = flats.e
        /\ flats'.i = flats.i /\ flats'.level = v
    BY <2>1, <2>2 DEF PanelType
  <2>4. QED
    BY <2>1, <2>2, <2>3 DEF Searching
<1>4. CASE L!Level
  <2>1. CASE L!InBand(flats) /\ flats' = [flats EXCEPT !.at = "keep"]
    <3>1. /\ flats' \in PanelType /\ flats'.at = "keep" /\ flats'.state = flats.state
          /\ flats'.misses = flats.misses /\ flats'.trend = flats.trend /\ flats'.e = flats.e
          /\ flats'.i = flats.i /\ flats'.level = flats.level
      BY <2>1 DEF PanelType
    <3>2. flats.level = 0 /\ flats.at = "level"
      BY <1>t, <1>4, <2>1 DEF L!Level, L!InBand
    <3>3. QED
      BY <3>1, <3>2 DEF Searching
  <2>2. CASE ~L!InBand(flats) /\ flats' # [flats EXCEPT !.at = "keep"]
    BY <1>f, <1>4, <2>2, PanelMisses DEF L!Level
  <2>3. QED
    BY <1>f, <1>4, <2>1, PanelMisses DEF L!Level
<1>5. CASE L!Keep
  BY <1>f, <1>5, PanelKeeps DEF L!Keep
<1>6. CASE L!Over
  BY <1>6 DEF L!Over, L!None, Away
<1>7. CASE L!Cancel
  BY <1>7, PanelStops DEF L!Cancel
<1>8. CASE L!SunMoves \/ L!LightChanges
  BY <1>8 DEF L!SunMoves, L!LightChanges
<1>9. ~L!OpenSky /\ ~L!Wait /\ \A source \in {"panel", "sky"} : ~L!Start(source)
  BY <1>t DEF L!OpenSky, L!Wait, L!Start
<1>10. QED
  BY <1>1, <1>2, <1>3, <1>4, <1>5, <1>6, <1>7, <1>8, <1>9 DEF L!Next, L!Steps

LEMMA FlatsStep == ASSUME L!FlatsAssumption, SearchIsLongEnough, FlatsInv, L!Next PROVE FlatsInv'
<1>1. flatsFaults' = flatsFaults \/ flatsFaults' = flatsFaults + 1
  BY DEF L!Next, L!Steps, L!OpenSky, L!Prepare, L!Step, L!Pedestal, L!Take, L!Level, L!Keep, L!Wait,
         L!Over, L!Cancel, L!SunMoves, L!LightChanges, L!Start, L!Fault, L!Fails
<1>2. CASE flatsFaults' # 0
  BY <1>1, <1>2 DEF FlatsInv
<1>3. CASE flatsFaults' = 0
  <2>1. flatsFaults = 0 /\ flatsFaults \in Nat
    BY <1>1, <1>3 DEF FlatsInv
  <2>2. sky'.odd = 0
    <3>1. ~L!Fault
      BY <1>3, <2>1 DEF L!Fault
    <3>2. CASE L!SunMoves
      <4>1. sky' = [sky EXCEPT !.sun = @ + 1]
        BY <3>2 DEF L!SunMoves
      <4>2. QED
        BY <4>1, <2>1 DEF FlatsInv
    <3>3. CASE ~L!SunMoves
      <4>1. sky' = sky
        BY <3>1, <3>3
           DEF L!Next, L!Steps, L!OpenSky, L!Prepare, L!Step, L!Pedestal, L!Take, L!Level, L!Keep,
               L!Wait, L!Over, L!Cancel, L!LightChanges, L!Start
      <4>2. QED
        BY <2>1, <4>1 DEF FlatsInv
    <3>4. QED
      BY <3>2, <3>3
  <2>3. Away(flats') \/ (flats' \in PanelType /\ Searching(flats'))
    BY <1>3, <2>1, AwayStep, PanelStarts, PanelStep DEF FlatsInv
  <2>4. QED
    BY <1>3, <2>2, <2>3 DEF FlatsInv
<1>4. QED
  BY <1>2, <1>3

LEMMA FlatsInit == ASSUME L!Init PROVE FlatsInv
BY DEF L!Init, L!None, FlatsInv, Away

LEMMA FlatsRest == ASSUME FlatsInv, UNCHANGED flatsVars PROVE FlatsInv'
BY DEF FlatsInv, flatsVars

\* What is true of a search that is never too far.
LEMMA FlatsFind == ASSUME FlatsInv PROVE L!SearchFinds
<1>1. ASSUME flats.source = "panel", flatsFaults = 0
      PROVE  flats \in PanelType /\ Searching(flats)
  BY <1>1 DEF FlatsInv, Away
<1>2. QED
  BY <1>1 DEF L!SearchFinds, Searching, PanelType

\* A centring that succeeds has centred the target, the axis that polar alignment shows
\* follows the knobs, and the search finds the exposure of a steady panel when its tries
\* are enough for its limits (CenteringService._center, PolarAlignmentService._adjust,
\* next_exposure).
THEOREM FindingsAreThere == ASSUME SearchIsLongEnough PROVE Spec => []FoundIsThere
<1> USE CameraJobsAssumption
<1>1. Init => FlatsInv
  BY FlatsInit DEF Init
<1>2. FlatsInv /\ [Next]_vars => FlatsInv'
  BY FlatsStep, FlatsRest DEF Next, Pointing, Flats, Imaging, Focusing, vars
<1>3. FlatsInv /\ PointingInv => FoundIsThere
  BY FlatsFind, PointingIsTrue DEF FoundIsThere
<1>4. QED
  BY <1>1, <1>2, <1>3, PointingAlways, PTL DEF Spec

----------------------------------------------------------------------------
(* The focuser: its motor and the optics behind it *)

Outwards == setup.direction = 1

\* The motor and the optics.
FocuserType(f) ==
  /\ f \in [pos : Int, goal : {f.goal}, optics : Int]
  /\ f.pos - setup.slack <= f.optics /\ f.optics <= f.pos

SetupType == setup \in [direction : {1, -1}, overshoot : Nat, slack : Nat, focus : Int]

\* The slack is taken up at this position, or when the motor comes there in the direction.
Takes(f, pos) ==
  IF Outwards THEN f.optics <= 0 \/ f.optics <= pos - setup.slack
  ELSE f.optics >= Travel - setup.slack \/ f.optics >= pos

\* The motor comes to this position in the direction of the sweep, and from far enough.
ComesTo(f, pos) ==
  \/ setup.slack = 0
  \/ pos = IF Outwards THEN 0 ELSE Travel
  \/ Takes(f, pos) /\ IF Outwards THEN f.pos <= pos ELSE f.pos >= pos

Beyond(pos) == A!Clipped(pos - setup.direction * setup.overshoot)

----------------------------------------------------------------------------
(* Autofocus, and a move by hand: where the job is *)

Framed == [pos : Int, hfr : Int]
Frames == {"first", "expose", "join", "last"}
Spots == Frames \cup {"idle", "send", "moving", "abort", "settle", "over"}

FocusRun(r) ==
  r \in [job : {"none", "focus", "autofocus"}, at : Spots, start : Int, first : Int,
         moves : {r.moves}, then : {"none", "expose", "last", "over"}, queue : Seq(0..Travel),
         taken : Seq(Int), points : SUBSET Framed, measuring : Seq(Framed), left : {r.left},
         problem : {r.problem}, best : {r.best}, outcome : Outcomes, again : BOOLEAN,
         gaveUp : BOOLEAN, turning : BOOLEAN]

\* Where the last of the moves leads.
Aim(r) ==
  IF r.then = "expose" THEN Head(r.queue)
  ELSE IF r.outcome = "running" THEN r.best ELSE r.start

\* The job is under way to its aim, or waits to be.
Going(r) == r.at \in {"send", "moving"} \/ (r.at = "settle" /\ r.again)

GoingInv(r) ==
  /\ Len(r.moves) \in {1, 2}
  /\ r.moves = <<Aim(r)>> \/ r.moves = <<r.moves[1], Aim(r)>>
  /\ r.then # "none"
  /\ r.then = "expose" => r.queue # <<>>
  /\ r.then = "over" => r.outcome # "running" \/ r.job = "focus"
  /\ r.then # "over" => r.outcome = "running" /\ r.job = "autofocus"
  /\ r.outcome # "running" => r.job = "autofocus"

\* Where the job is tells what it has done, and where the focuser is.
PlaceInv(r, f) ==
  /\ Going(r) => GoingInv(r)
  /\ r.at # "idle" => r.job # "none"
  /\ r.at \in Frames => r.outcome = "running" /\ r.job = "autofocus"
  /\ r.at \in {"abort", "settle"} => r.outcome # "running" /\ r.job = "autofocus"
  /\ r.at = "abort" => ~r.again
  /\ r.at \notin {"idle", "over"} => r.outcome \in {"running", "failed", "cancelled"}
  /\ r.at \in {"expose", "last"} => f.goal = A!NoGoal
  /\ r.at = "expose" => r.queue # <<>> /\ f.pos = Head(r.queue) /\ r.then = "expose"
  /\ r.at = "join" => r.then = "expose"
  /\ r.at = "last" => f.pos = r.best
  /\ r.at = "over" /\ ~r.gaveUp =>
       f.goal = A!NoGoal /\ f.pos = IF r.outcome = "succeeded" THEN r.best ELSE r.start

----------------------------------------------------------------------------
(* The sweep: where the slack is taken up *)

\* The job takes the frames of a sweep.
Sweeps(r) ==
  /\ r.job = "autofocus" /\ r.outcome = "running"
  /\ r.at \in {"send", "moving", "expose", "join"} /\ r.then = "expose"

\* The slack is taken up before the first frame of the sweep.
FirstOf(r) == IF r.taken # <<>> THEN Head(r.taken) ELSE Head(r.queue)
Sound(r) ==
  /\ setup.overshoot >= setup.slack /\ ~r.turning
  /\ (r.start - FirstOf(r)) * setup.direction > 0

TruePoint(p) == p.hfr # A!Unseen => (A!RoomFor(p.pos) => p.hfr = A!Hfr(A!Settled(p.pos)))

SweepInv(r, f) ==
  /\ r.taken # <<>> => Sweeps(r)
  /\ r.at = "first" =>
       r.taken = <<>> /\ r.points = {} /\ r.measuring = <<>> /\ (~r.turning => f.pos = r.start)
  /\ r.job = "autofocus" /\ r.outcome = "running" /\ ~r.turning /\ f.goal # A!NoGoal =>
       r.at = "moving" /\ f.goal = r.moves[1]
  /\ r.at = "join" => r.taken # <<>>
  /\ Sweeps(r) /\ Sound(r) =>
       /\ r.at \in {"send", "moving"} =>
            IF Len(r.moves) = 1 THEN ComesTo(f, Head(r.queue)) ELSE r.moves[1] = Beyond(Head(r.queue))
       /\ r.at \in {"expose", "join"} => Takes(f, f.pos)
       /\ \A p \in r.points : TruePoint(p)
       /\ \A i \in 1..Len(r.measuring) : TruePoint(r.measuring[i])

FocusInv ==
  /\ SetupType /\ FocuserType(focuser) /\ FocusRun(focusing)
  /\ PlaceInv(focusing, focuser) /\ SweepInv(focusing, focuser)

FocusUpTo(r, f) == FocusRun(r) /\ PlaceInv(r, f) /\ SweepInv(r, f)

----------------------------------------------------------------------------
(* Approaches *)

LEMMA ApproachIs ==
  ASSUME NEW current, NEW target
  PROVE  \/ A!Approach(current, target) = <<target>>
         \/ A!Approach(current, target) = <<Beyond(target), target>>
BY DEF A!Approach, Beyond

\* From a place where the slack is taken up, every approach takes it up.
LEMMA ApproachComes ==
  ASSUME SetupType, FocuserType(focuser), NEW target \in 0..Travel, Travel \in Nat,
         setup.overshoot >= setup.slack,
         Takes(focuser, focuser.pos) \/ (focuser.pos - target) * setup.direction > 0,
         A!Approach(focuser.pos, target) = <<target>>
  PROVE  ComesTo(focuser, target)
<1> USE DEF SetupType, FocuserType, ComesTo, Takes, Outwards
<1>1. CASE setup.overshoot <= 0
  BY <1>1
<1>2. CASE target = focuser.pos
  BY <1>2
<1>3. CASE (target - focuser.pos) * setup.direction > 0
  BY <1>3
<1>4. CASE Beyond(target) = target /\ setup.overshoot > 0
  BY <1>4 DEF Beyond, A!Clipped
<1>5. CASE ~(setup.overshoot <= 0 \/ target = focuser.pos \/ (target - focuser.pos) * setup.direction > 0
             \/ Beyond(target) = target)
  BY <1>5 DEF Beyond, A!Approach
<1>6. QED
  BY <1>1, <1>2, <1>3, <1>4, <1>5

\* From beyond, the motor comes to its target with the slack taken up.
LEMMA BeyondArrives ==
  ASSUME SetupType, FocuserType(focuser), NEW target \in 0..Travel, Travel \in Nat,
         setup.overshoot >= setup.slack, focuser.pos = Beyond(target)
  PROVE  ComesTo(focuser, target)
BY DEF SetupType, FocuserType, ComesTo, Takes, Outwards, Beyond, A!Clipped

\* Where the motor has arrived, the slack is taken up.
LEMMA Arrived ==
  ASSUME SetupType, FocuserType(focuser), Travel \in Nat, ComesTo(focuser, focuser.pos)
  PROVE  Takes(focuser, focuser.pos)
BY DEF SetupType, FocuserType, ComesTo, Takes, Outwards

\* There the frames see what the direction alone tells.
LEMMA SlackTaken ==
  ASSUME SetupType, FocuserType(focuser), Travel \in Nat, Takes(focuser, focuser.pos),
         A!RoomFor(focuser.pos)
  PROVE  focuser.optics = A!Settled(focuser.pos)
BY DEF SetupType, FocuserType, Takes, Outwards, A!RoomFor, A!Settled, A!Outward

LEMMA HfrType ==
  ASSUME SetupType, NEW o \in Int PROVE A!Hfr(o) \in Int /\ A!Hfr(o) # A!Unseen
BY DEF SetupType, A!Hfr, A!Distance, A!Unseen

LEMMA MotorKeeps ==
  ASSUME SetupType, FocuserType(focuser), FocusRun(focusing), Travel \in Nat,
         PlaceInv(focusing, focuser), SweepInv(focusing, focuser), A!MotorTurns
  PROVE  FocuserType(focuser)' /\ PlaceInv(focusing, focuser)' /\ SweepInv(focusing, focuser)'
<1>1. /\ focuser.goal # A!NoGoal /\ UNCHANGED <<setup, focusing, focusFaults>>
      /\ focuser'.optics = A!Follow(focuser.optics, focuser'.pos)
      /\ focuser' \in [pos : Int, goal : {focuser'.goal}, optics : Int]
      /\ focuser'.goal = IF focuser'.pos = focuser.goal THEN A!NoGoal ELSE focuser.goal
      /\ focuser'.pos = focuser.pos + (IF focuser.goal > focuser.pos THEN 1
                               ELSE IF focuser.goal < focuser.pos THEN -1 ELSE 0)
  BY DEF A!MotorTurns, SetupType, FocuserType, A!Follow
<1>2. FocuserType(focuser)'
  BY <1>1 DEF FocuserType, SetupType, A!Follow
<1>3. PlaceInv(focusing, focuser)'
  BY <1>1 DEF PlaceInv
<1>4. SweepInv(focusing, focuser)'
  <2>1. ASSUME Sweeps(focusing), Sound(focusing) PROVE focusing.at = "moving" /\ focuser.goal = focusing.moves[1]
    BY <1>1, <2>1 DEF SweepInv, Sweeps, Sound
  <2>2. ASSUME Sweeps(focusing), Sound(focusing), Len(focusing.moves) = 1
        PROVE  ComesTo(focuser, Head(focusing.queue))'
    <3>1. ComesTo(focuser, Head(focusing.queue)) /\ focuser.goal = Head(focusing.queue) /\ Head(focusing.queue) \in Int
      <4>1. focusing.at = "moving" /\ focusing.moves[1] = Head(focusing.queue) /\ focusing.queue # <<>>
        <5>1. GoingInv(focusing) /\ focusing.then = "expose"
          BY <2>1, <2>2 DEF PlaceInv, Going, Sweeps
        <5>2. Aim(focusing) = Head(focusing.queue) /\ focusing.queue # <<>> /\ focusing.at = "moving"
          BY <2>1, <2>2, <5>1 DEF GoingInv, Aim
        <5>3. focusing.moves = <<Aim(focusing)>>
          BY <2>2, <5>1 DEF GoingInv
        <5>4. QED
          BY <5>2, <5>3
      <4>2. QED
        BY <2>1, <2>2, <4>1 DEF SweepInv, FocusRun
    <3>2. QED
      BY <1>1, <3>1 DEF ComesTo, Takes, Outwards, A!Follow, SetupType, FocuserType
  <2>3. ~(focusing.at = "first" /\ ~focusing.turning)
    BY <1>1 DEF SweepInv, PlaceInv, Frames
  <2>4. QED
    BY <1>1, <2>1, <2>2, <2>3 DEF SweepInv, Sweeps, Sound, FirstOf, TruePoint, Beyond, A!Clipped,
       A!RoomFor, A!Settled, A!Hfr, A!Distance, A!Outward
<1>5. QED
  BY <1>2, <1>3, <1>4

\* A sweep is within the travel, and has a first position.
LEMMA SweepPositionsType ==
  ASSUME A!AutofocusAssumption, SetupType, NEW centre \in Int
  PROVE  A!SweepPositions(centre) \in Seq(0..Travel) /\ A!SweepPositions(centre) # <<>>
<1> DEFINE width == Stride * (Points - 1)
           half == width \div 2
           low == IF centre - half > Travel - width THEN Travel - width
                  ELSE IF centre < half THEN 0 ELSE centre - half
           positions == [i \in 1..Points |-> low + (i - 1) * Stride]
<1>1. Travel \in Nat /\ Stride \in Nat \ {0} /\ Points \in Nat \ {0} /\ width <= Travel
  BY DEF A!AutofocusAssumption
<1>2. width \in Nat
  BY <1>1
<1>3. half \in Nat
  BY <1>2
<1>4. low \in Int /\ 0 <= low /\ low + width <= Travel
  <2> HIDE DEF width, half
  <2>1. QED
    BY <1>1, <1>2, <1>3
<1>5. ASSUME NEW i \in 1..Points PROVE low + (i - 1) * Stride \in 0..Travel
  <2> HIDE DEF low, half
  <2>1. (i - 1) * Stride \in Nat /\ (i - 1) * Stride <= width
    BY <1>1, <1>5
  <2>2. QED
    BY <1>1, <1>2, <1>4, <2>1
<1>6. positions \in [1..Points -> 0..Travel]
  <2> HIDE DEF low
  <2>1. QED
    BY <1>5
<1> HIDE DEF positions
<1>7. positions \in Seq(0..Travel) /\ Len(positions) = Points /\ positions # <<>>
  BY <1>1, <1>6
<1>8. A!Reverse(positions) \in Seq(0..Travel) /\ A!Reverse(positions) # <<>>
  <2>1. A!Reverse(positions) \in [1..Points -> 0..Travel]
    BY <1>1, <1>6, <1>7 DEF A!Reverse
  <2>2. QED
    BY <1>1, <2>1
<1>9. A!SweepPositions(centre) \in {positions, A!Reverse(positions)}
  BY DEF A!SweepPositions, positions, low, half, width
<1>10. QED
  BY <1>7, <1>8, <1>9

\* What is true of the job and the focuser says nothing else of them.
LEMMA Unmoved ==
  ASSUME SetupType, UNCHANGED setup, FocuserType(focuser'), FocusUpTo(focusing', focuser')
  PROVE  FocusInv'
BY DEF FocusInv, FocusUpTo, SetupType, FocuserType, FocusRun, PlaceInv, SweepInv, Sweeps, Sound,
  FirstOf, Going, GoingInv, Aim, ComesTo, Takes, Outwards, Beyond, TruePoint, A!Clipped,
  A!RoomFor, A!Settled, A!Hfr, A!Distance, A!Outward

----------------------------------------------------------------------------
(* The steps of the focuser's jobs *)

LEMMA FailedHolds ==
  ASSUME FocusRun(focusing), PlaceInv(focusing, focuser), SweepInv(focusing, focuser),
         focusing.at \notin {"idle", "over"}, NEW why \in {"failed", "cancelled"}, NEW f
  PROVE  FocusUpTo(A!Failed(focusing, why), f)
<1> DEFINE r == A!Failed(focusing, why)
<1>1. CASE focusing.job = "focus" \/ focusing.outcome # "running"
  <2>1. r = [focusing EXCEPT !.at = "over", !.gaveUp = TRUE,
                        !.outcome = IF @ = "running" THEN why ELSE @]
    BY <1>1 DEF A!Failed
  <2>2. FocusRun(r)
    BY <2>1 DEF FocusRun, Spots, Outcomes
  <2>3. r.at = "over" /\ r.gaveUp /\ r.outcome # "running" /\ r.taken = <<>> /\ r.job # "none"
    BY <1>1, <2>1 DEF FocusRun, PlaceInv, SweepInv, Sweeps
  <2>4. QED
    BY <2>2, <2>3 DEF FocusUpTo, PlaceInv, SweepInv, Sweeps, Going, Frames
<1>2. CASE ~(focusing.job = "focus" \/ focusing.outcome # "running")
  <2> DEFINE l == [side \in {A!Inward, A!Outward} |-> 0]
  <2>1. r = [job |-> focusing.job, at |-> "abort", start |-> focusing.start, first |-> A!Unseen, moves |-> <<>>,
             then |-> "none", queue |-> <<>>, taken |-> <<>>, points |-> {}, measuring |-> <<>>,
             left |-> l, problem |-> "none", best |-> 0, outcome |-> why, again |-> FALSE,
             gaveUp |-> FALSE, turning |-> FALSE]
    BY <1>2 DEF A!Failed, A!None
  <2> HIDE DEF l, r
  <2>a. focusing.job \in {"none", "focus", "autofocus"} /\ focusing.start \in Int
    BY DEF FocusRun
  <2>2. FocusRun(r) /\ r.at = "abort" /\ r.outcome = why /\ r.job = focusing.job /\ r.taken = <<>> /\ ~r.again
    BY <2>1, <2>a DEF FocusRun, Spots, Outcomes, A!Unseen
  <2>3. r.job = "autofocus"
    BY <1>2, <2>2, <2>a DEF PlaceInv
  <2>4. QED
    BY <2>2, <2>3 DEF r, FocusUpTo, PlaceInv, SweepInv, Sweeps, Going, Frames
<1>3. QED
  BY <1>1, <1>2

\* What is true of the frames taken so far, before the next position is gone to.
MayGo(r, ahead) ==
  /\ r.job = "autofocus" /\ r.outcome = "running"
  /\ ~r.turning => focuser.goal = A!NoGoal
  /\ Sound([r EXCEPT !.queue = ahead]) =>
       /\ Takes(focuser, focuser.pos) \/ (focuser.pos - Head(ahead)) * setup.direction > 0
       /\ \A p \in r.points : TruePoint(p)
       /\ \A i \in 1..Len(r.measuring) : TruePoint(r.measuring[i])

LEMMA SweepingHolds ==
  ASSUME SetupType, FocuserType(focuser), Travel \in Nat, NEW r, FocusRun(r),
         NEW ahead \in Seq(0..Travel), ahead # <<>>, MayGo(r, ahead)
  PROVE  FocusUpTo(A!Sweeping(r, ahead), focuser)
<1> DEFINE s == A!Sweeping(r, ahead)
           moves == A!Approach(focuser.pos, Head(ahead))
<1>1. s = [r EXCEPT !.queue = ahead, !.at = "send", !.moves = moves, !.then = "expose", !.again = FALSE]
  BY DEF A!Sweeping, A!To, FocusRun
<1>2. FocusRun(s) /\ s.at = "send" /\ s.then = "expose" /\ s.queue = ahead /\ s.moves = moves
      /\ s.job = "autofocus" /\ s.outcome = "running" /\ s.taken = r.taken /\ s.start = r.start
      /\ s.turning = r.turning /\ s.points = r.points /\ s.measuring = r.measuring
  BY <1>1 DEF FocusRun, Spots, MayGo
<1> HIDE DEF s
<1>3. /\ Len(moves) \in {1, 2}
      /\ moves = <<Head(ahead)>> \/ moves = <<Beyond(Head(ahead)), Head(ahead)>>
      /\ Len(moves) = 1 => moves = <<Head(ahead)>>
      /\ Len(moves) # 1 => moves = <<Beyond(Head(ahead)), Head(ahead)>>
  <2> DEFINE h == Head(ahead)
             b == Beyond(h)
  <2>1. moves = <<h>> \/ moves = <<b, h>>
    BY ApproachIs
  <2> HIDE DEF moves, b, h
  <2>2. /\ Len(moves) \in {1, 2} /\ (moves = <<h>> \/ moves = <<b, h>>)
        /\ Len(moves) = 1 => moves = <<h>>
        /\ Len(moves) # 1 => moves = <<b, h>>
    <3>1. Len(<<h>>) = 1 /\ Len(<<b, h>>) = 2
      OBVIOUS
    <3>2. CASE moves = <<h>>
      BY <3>1, <3>2
    <3>3. CASE moves = <<b, h>>
      BY <3>1, <3>3
    <3>4. QED
      BY <2>1, <3>2, <3>3
  <2>3. QED
    BY <2>2 DEF b, h
<1> HIDE DEF moves
<1>4. PlaceInv(s, focuser)
  <2>1. GoingInv(s)
    BY <1>2, <1>3 DEF GoingInv, Aim
  <2>2. QED
    BY <1>2, <2>1 DEF PlaceInv, Frames
<1>5. SweepInv(s, focuser)
  <2>1. ASSUME Sound(s)
        PROVE  /\ IF Len(s.moves) = 1 THEN ComesTo(focuser, Head(ahead))
                  ELSE s.moves[1] = Beyond(Head(ahead))
               /\ \A p \in s.points : TruePoint(p)
               /\ \A i \in 1..Len(s.measuring) : TruePoint(s.measuring[i])
    <3>1. Sound([r EXCEPT !.queue = ahead])
      BY <1>2, <2>1 DEF Sound, FirstOf, FocusRun
    <3>2. Takes(focuser, focuser.pos) \/ (focuser.pos - Head(ahead)) * setup.direction > 0
      BY <3>1 DEF MayGo
    <3>3. Head(ahead) \in 0..Travel
      OBVIOUS
    <3>4. CASE Len(moves) = 1
      <4>1. ComesTo(focuser, Head(ahead))
        BY <1>3, <2>1, <3>2, <3>3, <3>4, ApproachComes DEF Sound, moves
      <4>2. QED
        BY <1>2, <3>1, <3>4, <4>1 DEF MayGo
    <3>5. CASE Len(moves) # 1
      BY <1>2, <1>3, <3>1, <3>5 DEF MayGo
    <3>6. QED
      BY <3>4, <3>5
  <2>2. ~s.turning => focuser.goal = A!NoGoal
    BY <1>2 DEF MayGo
  <2>3. QED
    BY <1>2, <2>1, <2>2 DEF SweepInv, Sweeps
<1>6. QED
  BY <1>2, <1>4, <1>5 DEF FocusUpTo, s

LEMMA FirstFrameKeeps ==
  ASSUME A!AutofocusAssumption, FocusInv, A!FirstFrame PROVE FocusInv'
<1>1. Travel \in Nat
  BY DEF A!AutofocusAssumption
<1>2. UNCHANGED <<setup, focuser>> /\ focusing.at = "first"
  BY DEF A!FirstFrame, A!At
<1>3. FocusUpTo(focusing', focuser)
  <2>1. CASE focusing' = A!Failed(focusing, "failed")
    BY <1>2, <2>1, FailedHolds DEF FocusInv
  <2>2. CASE focusing' = A!Sweeping([focusing EXCEPT !.first = A!Hfr(focuser.optics)],
                               A!SweepPositions(focusing.start))
    <3> DEFINE r == [focusing EXCEPT !.first = A!Hfr(focuser.optics)]
               ahead == A!SweepPositions(focusing.start)
    <3>1. A!Hfr(focuser.optics) \in Int
      BY HfrType DEF FocusInv, FocuserType
    <3>2. FocusRun(r)
      BY <3>1 DEF FocusInv, FocusRun
    <3>3. ahead \in Seq(0..Travel) /\ ahead # <<>>
      BY SweepPositionsType DEF FocusInv, FocusRun
    <3>4. MayGo(r, ahead)
      BY <1>2, <3>3 DEF FocusInv, FocusRun, PlaceInv, SweepInv, Frames, MayGo, Sound, FirstOf
    <3> HIDE DEF r, ahead
    <3>5. FocusUpTo(A!Sweeping(r, ahead), focuser)
      BY <1>1, <3>2, <3>3, <3>4, SweepingHolds DEF FocusInv
    <3>6. QED
      BY <2>2, <3>5 DEF r, ahead
  <2>3. QED
    BY <2>1, <2>2 DEF A!FirstFrame
<1>4. QED
  BY <1>2, <1>3, Unmoved DEF FocusInv

\* What is told of a failure changes nothing else.
LEMMA ProblemHolds ==
  ASSUME NEW r, NEW f, FocusUpTo(r, f), NEW why PROVE FocusUpTo([r EXCEPT !.problem = why], f)
<1> DEFINE s == [r EXCEPT !.problem = why]
<1>1. FocusRun(s)
  BY DEF FocusUpTo, FocusRun
<1>2. /\ s.job = r.job /\ s.at = r.at /\ s.start = r.start /\ s.moves = r.moves /\ s.then = r.then
      /\ s.queue = r.queue /\ s.taken = r.taken /\ s.points = r.points /\ s.measuring = r.measuring
      /\ s.best = r.best /\ s.outcome = r.outcome /\ s.again = r.again /\ s.gaveUp = r.gaveUp
      /\ s.turning = r.turning
  BY DEF FocusUpTo, FocusRun
<1> HIDE DEF s
<1>3. PlaceInv(s, f)
  BY <1>2 DEF FocusUpTo, PlaceInv, Going, GoingInv, Aim
<1>4. SweepInv(s, f)
  BY <1>2 DEF FocusUpTo, SweepInv, Sweeps, Sound, FirstOf
<1>5. QED
  BY <1>1, <1>3, <1>4 DEF FocusUpTo, s

LEMMA Listed ==
  ASSUME NEW S, NEW n \in Nat \ {0}, NEW f \in [1..n -> S] PROVE f \in Seq(S) /\ f # <<>>
<1>1. f \in Seq(S) /\ Len(f) = n
  OBVIOUS
<1>2. QED
  BY <1>1

LEMMA FirstAndRest ==
  ASSUME NEW S, NEW s \in Seq(S), s # <<>>
  PROVE  /\ Head(s) \in S /\ Head(s) = s[1] /\ Tail(s) \in Seq(S) /\ Len(s) \in Nat /\ Len(s) >= 1
         /\ Len(Tail(s)) = Len(s) - 1
         /\ \A i \in 1..Len(Tail(s)) : Tail(s)[i] = s[i + 1]
OBVIOUS

LEMMA Appended ==
  ASSUME NEW s \in Seq(Int), NEW x \in Int
  PROVE  /\ Append(s, x) \in Seq(Int) /\ Append(s, x) # <<>> /\ Len(s) \in Nat
         /\ Len(Append(s, x)) = Len(s) + 1
         /\ \A i \in 1..Len(s) : Append(s, x)[i] = s[i]
         /\ Append(s, x)[Len(s) + 1] = x
         /\ s # <<>> => Head(Append(s, x)) = Head(s)
         /\ s = <<>> => Head(Append(s, x)) = x
<1>1. /\ Append(s, x) \in Seq(Int) /\ Append(s, x) # <<>> /\ Len(s) \in Nat
      /\ Len(Append(s, x)) = Len(s) + 1
      /\ \A i \in 1..Len(s) : Append(s, x)[i] = s[i]
      /\ Append(s, x)[Len(s) + 1] = x
  OBVIOUS
<1>2. Head(Append(s, x)) = Append(s, x)[1]
  BY <1>1
<1>3. ASSUME s # <<>> PROVE Head(s) = s[1] /\ Len(s) >= 1
  BY <1>3
<1>4. QED
  BY <1>1, <1>2, <1>3

LEMMA StoppedIs ==
  ASSUME FocuserType(focuser)
  PROVE  /\ FocuserType(A!Stopped) /\ A!Stopped.pos = focuser.pos /\ A!Stopped.optics = focuser.optics
         /\ A!Stopped.goal = A!NoGoal
BY DEF FocuserType, A!Stopped

LEMMA StartMoveKeeps ==
  ASSUME A!AutofocusAssumption, FocusInv, NEW target \in Targets, A!StartMove(target) PROVE FocusInv'
<1> DEFINE l == [side \in {A!Inward, A!Outward} |-> 0]
<1>1. focusing' = [job |-> "focus", at |-> "send", start |-> 0, first |-> A!Unseen, moves |-> <<target>>,
              then |-> "over", queue |-> <<>>, taken |-> <<>>, points |-> {}, measuring |-> <<>>,
              left |-> l, problem |-> "none", best |-> target, outcome |-> "running", again |-> FALSE,
              gaveUp |-> FALSE, turning |-> FALSE]
  BY DEF A!StartMove, A!None, A!To
<1> HIDE DEF l
<1>2. FocusRun(focusing')
  BY <1>1 DEF FocusRun, Spots, Outcomes, A!Unseen
<1>3. PlaceInv(focusing', focuser)
  BY <1>1 DEF PlaceInv, Going, GoingInv, Aim, Frames
<1>4. SweepInv(focusing', focuser)
  BY <1>1 DEF SweepInv, Sweeps
<1>5. QED
  BY <1>2, <1>3, <1>4, Unmoved DEF A!StartMove, FocusInv, FocusUpTo

LEMMA StartAutofocusKeeps ==
  ASSUME FocusInv, A!StartAutofocus PROVE FocusInv'
<1> DEFINE l == [side \in {A!Inward, A!Outward} |-> Extension]
           Begun(t) == [job |-> "autofocus", at |-> "first", start |-> focuser.pos, first |-> A!Unseen,
              moves |-> <<>>, then |-> "none", queue |-> <<>>, taken |-> <<>>, points |-> {},
              measuring |-> <<>>, left |-> l, problem |-> "none", best |-> 0, outcome |-> "running",
              again |-> FALSE, gaveUp |-> FALSE, turning |-> t]
<1>1. focusing' = Begun(focuser.goal # A!NoGoal)
  BY DEF A!StartAutofocus, A!None
<1> HIDE DEF l
<1>2. PICK t \in BOOLEAN : focusing' = Begun(t) /\ (~t => focuser.goal = A!NoGoal)
  <2>1. CASE focuser.goal = A!NoGoal
    BY <1>1, <2>1
  <2>2. CASE focuser.goal # A!NoGoal
    BY <1>1, <2>2
  <2>3. QED
    BY <2>1, <2>2
<1>3. FocusRun(focusing')
  <2>1. focuser.pos \in Int
    BY DEF FocusInv, FocuserType
  <2>2. QED
    BY <1>2, <2>1 DEF FocusRun, Spots, Frames, Outcomes, A!Unseen
<1>4. PlaceInv(focusing', focuser)
  BY <1>2 DEF PlaceInv, Going, Frames
<1>5. SweepInv(focusing', focuser)
  BY <1>2 DEF SweepInv, Sweeps
<1>6. QED
  BY <1>3, <1>4, <1>5, Unmoved DEF A!StartAutofocus, FocusInv, FocusUpTo

LEMMA IdleHolds == ASSUME NEW f PROVE FocusUpTo(A!None, f)
<1> DEFINE l == [side \in {A!Inward, A!Outward} |-> 0]
<1>1. A!None = [job |-> "none", at |-> "idle", start |-> 0, first |-> A!Unseen,
         moves |-> <<>>, then |-> "none", queue |-> <<>>, taken |-> <<>>,
         points |-> {}, measuring |-> <<>>, left |-> l,
         problem |-> "none", best |-> 0, outcome |-> "none", again |-> FALSE, gaveUp |-> FALSE,
         turning |-> FALSE]
  BY DEF A!None
<1> HIDE DEF l
<1>2. FocusRun(A!None)
  BY <1>1 DEF FocusRun, Spots, Outcomes, A!Unseen
<1>3. QED
  BY <1>1, <1>2 DEF FocusUpTo, PlaceInv, SweepInv, Sweeps, Going, Frames

LEMMA OverKeeps == ASSUME FocusInv, A!Over PROVE FocusInv'
BY IdleHolds, Unmoved DEF A!Over, FocusInv

LEMMA CancelKeeps == ASSUME FocusInv, A!Cancel PROVE FocusInv'
<1>1. focusing.at \notin {"idle", "over"} /\ focusing' = A!Failed(focusing, "cancelled")
  BY DEF A!Cancel, A!Busy
<1>2. FocuserType(focuser')
  BY StoppedIs DEF A!Cancel, FocusInv
<1>3. FocusUpTo(focusing', focuser')
  BY <1>1, FailedHolds DEF FocusInv
<1>4. QED
  BY <1>2, <1>3, Unmoved DEF A!Cancel, FocusInv

LEMMA AbortPressedKeeps == ASSUME FocusInv, A!AbortPressed PROVE FocusInv'
<1>1. focuser' = A!Stopped /\ UNCHANGED setup /\ focuser.goal # A!NoGoal
  BY DEF A!AbortPressed
<1>2. FocuserType(focuser')
  BY <1>1, StoppedIs DEF FocusInv
<1>3. CASE A!Busy
  <2>1. FocusUpTo(focusing', focuser')
    BY <1>3, FailedHolds DEF FocusInv, A!AbortPressed, A!Busy
  <2>2. QED
    BY <1>1, <1>2, <2>1, Unmoved DEF FocusInv
<1>4. CASE ~A!Busy
  <2>1. focusing' = focusing /\ focusing.at \in {"idle", "over"}
    BY <1>4 DEF A!AbortPressed, A!Busy
  <2>2. PlaceInv(focusing, focuser') /\ SweepInv(focusing, focuser')
    BY <1>1, <2>1, StoppedIs DEF FocusInv, PlaceInv, SweepInv, Sweeps, Going, Frames
  <2>3. QED
    BY <1>1, <1>2, <2>1, <2>2, Unmoved DEF FocusInv, FocusUpTo
<1>5. QED
  BY <1>3, <1>4

LEMMA MotorTurnsKeeps ==
  ASSUME A!AutofocusAssumption, FocusInv, A!MotorTurns PROVE FocusInv'
<1>1. Travel \in Nat /\ UNCHANGED <<setup, focusing>>
  BY DEF A!AutofocusAssumption, A!MotorTurns
<1>2. QED
  BY <1>1, MotorKeeps DEF FocusInv, SetupType, FocusRun

\* A refused move of autofocus on its way back is tried once more.
LEMMA RefusedHolds ==
  ASSUME FocusInv, focusing.at \in {"send", "moving"}, NEW f PROVE FocusUpTo(A!Refused, f)
<1>1. CASE A!Restoring /\ ~focusing.again
  <2>1. A!Refused = [focusing EXCEPT !.at = "settle", !.again = TRUE]
    BY <1>1 DEF A!Refused
  <2>2. FocusRun(A!Refused)
    BY <2>1 DEF FocusInv, FocusRun, Spots
  <2>3. focusing.outcome # "running" /\ focusing.taken = <<>>
    BY <1>1 DEF A!Restoring, FocusInv, SweepInv, Sweeps
  <2>4. GoingInv(focusing) /\ focusing.job = "autofocus"
    BY <2>3 DEF FocusInv, PlaceInv, Going, GoingInv
  <2>5. QED
    BY <2>1, <2>2, <2>3, <2>4 DEF FocusUpTo, FocusInv, FocusRun, PlaceInv, SweepInv, Sweeps, Going, GoingInv, Aim, Frames
<1>2. CASE ~(A!Restoring /\ ~focusing.again)
  BY <1>2, FailedHolds DEF A!Refused, FocusInv
<1>3. QED
  BY <1>1, <1>2

LEMMA MoveFailsKeeps == ASSUME FocusInv, A!MoveFails PROVE FocusInv'
<1>1. FocuserType(focuser') /\ UNCHANGED setup /\ focusing' = A!Refused /\ focusing.at = "moving"
  BY StoppedIs DEF A!MoveFails, A!At, FocusInv
<1>2. QED
  BY <1>1, RefusedHolds, Unmoved DEF FocusInv

LEMMA SendMoveKeeps == ASSUME FocusInv, A!SendMove PROVE FocusInv'
<1>1. focusing.at = "send" /\ UNCHANGED setup
  BY DEF A!SendMove, A!At
<1>2. CASE focusing' = A!Refused /\ focuser' = focuser
  BY <1>1, <1>2, RefusedHolds, Unmoved DEF FocusInv
<1>3. CASE focusing' = A!Failed(focusing, "failed") /\ focuser' = focuser
  BY <1>1, <1>3, FailedHolds, Unmoved DEF FocusInv
<1>4. CASE /\ focuser.goal = A!NoGoal /\ focusing' = [focusing EXCEPT !.at = "moving"]
           /\ focuser' = [focuser EXCEPT !.goal = Head(focusing.moves)]
  <2>1. FocusRun(focusing') /\ FocuserType(focuser')
    BY <1>4 DEF FocusInv, FocusRun, FocuserType, Spots
  <2>2. GoingInv(focusing)
    BY <1>1 DEF FocusInv, PlaceInv, Going
  <2>3. PlaceInv(focusing', focuser')
    BY <1>1, <1>4, <2>2 DEF FocusInv, FocusRun, PlaceInv, Going, GoingInv, Aim, Frames
  <2>4. SweepInv(focusing', focuser')
    <3>1. Head(focusing.moves) = focusing.moves[1]
      BY <2>2 DEF GoingInv
    <3>2. focuser'.goal = focusing.moves[1] /\ focuser'.pos = focuser.pos /\ focuser'.optics = focuser.optics
      BY <1>4, <3>1 DEF FocusInv, FocuserType
    <3>3. QED
      BY <1>1, <1>4, <3>2 DEF FocusInv, FocusRun, SweepInv, Sweeps, Sound, FirstOf, ComesTo, Takes
  <2>5. QED
    BY <1>1, <2>1, <2>3, <2>4, Unmoved DEF FocusInv, FocusUpTo
<1>5. QED
  BY <1>2, <1>3, <1>4 DEF A!SendMove

\* A sequence of two without its first.
LEMMA TailOfTwo == ASSUME NEW a, NEW b PROVE Tail(<<a, b>>) = <<b>> /\ Head(<<a, b>>) = a /\ Len(<<a, b>>) = 2
OBVIOUS

LEMMA OneOrTwo ==
  ASSUME NEW r, GoingInv(r)
  PROVE  \/ Len(r.moves) = 1 /\ r.moves = <<Aim(r)>> /\ Head(r.moves) = Aim(r) /\ r.moves[1] = Aim(r)
         \/ Len(r.moves) = 2 /\ Tail(r.moves) = <<Aim(r)>> /\ Head(r.moves) = r.moves[1]
<1> DEFINE m == r.moves
           a == Aim(r)
           b == m[1]
<1>1. m = <<a>> \/ m = <<b, a>>
  BY DEF GoingInv
<1>2. ASSUME NEW x, NEW y PROVE Len(<<x>>) = 1 /\ <<x>>[1] = x /\ Head(<<x>>) = x
  OBVIOUS
<1> HIDE DEF m, a
<1>3. CASE m = <<a>>
  BY <1>2, <1>3 DEF m, a
<1>4. CASE m = <<b, a>>
  <2> HIDE DEF b
  <2>1. Tail(m) = <<a>> /\ Head(m) = b /\ Len(m) = 2
    BY <1>4, TailOfTwo
  <2>2. QED
    BY <2>1 DEF m, a, b
<1>5. QED
  BY <1>1, <1>3, <1>4

LEMMA MoveEndsKeeps == ASSUME A!AutofocusAssumption, FocusInv, A!MoveEnds PROVE FocusInv'
<1>1. /\ focusing.at = "moving" /\ UNCHANGED <<setup, focuser>> /\ focuser.goal = A!NoGoal
      /\ focuser.pos = Head(focusing.moves) /\ Travel \in Nat
  BY DEF A!MoveEnds, A!At, A!AutofocusAssumption
<1>2. GoingInv(focusing)
  BY <1>1 DEF FocusInv, PlaceInv, Going
<1>a. \/ /\ Len(focusing.moves) = 1 /\ focusing.moves = <<Aim(focusing)>>
         /\ Head(focusing.moves) = Aim(focusing) /\ focusing.moves[1] = Aim(focusing)
      \/ /\ Len(focusing.moves) = 2 /\ Tail(focusing.moves) = <<Aim(focusing)>> /\ Head(focusing.moves) = focusing.moves[1]
  BY <1>2, OneOrTwo, Zenon
<1>3. CASE Len(focusing.moves) > 1
  <2>1. Len(focusing.moves) = 2 /\ Tail(focusing.moves) = <<Aim(focusing)>> /\ Head(focusing.moves) = focusing.moves[1]
    <3>1. CASE Len(focusing.moves) = 1
      BY <1>3, <3>1
    <3>2. QED
      BY <1>a, <3>1, Zenon
  <2>2. focusing' = [focusing EXCEPT !.at = "send", !.moves = <<Aim(focusing)>>, !.then = focusing.then, !.again = FALSE]
    BY <1>3, <2>1 DEF A!MoveEnds, A!To
  <2>3. FocusRun(focusing')
    BY <2>2 DEF FocusInv, FocusRun, Spots
  <2>4. Len(focusing'.moves) = 1 /\ focusing'.moves = <<Aim(focusing)>> /\ focusing'.at = "send"
        /\ focusing'.then = focusing.then /\ focusing'.outcome = focusing.outcome /\ focusing'.queue = focusing.queue
        /\ focusing'.job = focusing.job /\ focusing'.best = focusing.best /\ focusing'.start = focusing.start
        /\ focusing'.taken = focusing.taken /\ focusing'.turning = focusing.turning /\ focusing'.points = focusing.points
        /\ focusing'.measuring = focusing.measuring
    BY <2>2 DEF FocusInv, FocusRun
  <2>5. PlaceInv(focusing', focuser)
    <3>1. Aim(focusing') = Aim(focusing)
      BY <2>4 DEF Aim
    <3>2. GoingInv(focusing')
      BY <1>2, <2>4, <3>1 DEF GoingInv
    <3>3. QED
      BY <1>1, <2>4, <3>2 DEF FocusInv, PlaceInv, Frames
  <2>6. ASSUME Sweeps(focusing'), Sound(focusing') PROVE ComesTo(focuser, Head(focusing.queue))
    <3>1. Sweeps(focusing) /\ Sound(focusing)
      BY <1>1, <2>4, <2>6 DEF Sweeps, Sound, FirstOf
    <3>2. focuser.pos = Beyond(Head(focusing.queue))
      BY <1>1, <1>3, <2>1, <3>1 DEF FocusInv, SweepInv
    <3>3. Head(focusing.queue) \in 0..Travel
      <4>1. focusing.queue \in Seq(0..Travel) /\ focusing.queue # <<>>
        BY <1>2, <3>1 DEF FocusInv, FocusRun, GoingInv, Sweeps
      <4>2. QED
        BY <4>1, HeadTailProperties
    <3>4. QED
      BY <1>1, <3>1, <3>2, <3>3, BeyondArrives DEF FocusInv, Sound
  <2>7. SweepInv(focusing', focuser)
    BY <1>1, <2>4, <2>6 DEF FocusInv, SweepInv, Sweeps, Sound, FirstOf
  <2>8. QED
    BY <1>1, <2>3, <2>5, <2>7, Unmoved DEF FocusInv, FocusUpTo
<1>4. CASE ~(Len(focusing.moves) > 1)
  <2>1. Len(focusing.moves) = 1 /\ focuser.pos = Aim(focusing)
    BY <1>1, <1>4, <1>a
  <2>2. PICK o \in {focusing.outcome, "succeeded"} :
          /\ focusing' = [focusing EXCEPT !.at = focusing.then, !.moves = <<>>, !.outcome = o]
          /\ o = "succeeded" <=> focusing.then = "over" /\ focusing.outcome = "running"
          /\ o = focusing.outcome \/ o = "succeeded"
    <3>1. focusing' = [focusing EXCEPT !.at = focusing.then, !.moves = <<>>,
                     !.outcome = IF focusing.then = "over" /\ ~A!Restoring THEN "succeeded" ELSE @]
      BY <1>4 DEF A!MoveEnds
    <3>2. focusing.outcome # "succeeded"
      BY <1>1 DEF FocusInv, PlaceInv
    <3>3. CASE focusing.then = "over" /\ focusing.outcome = "running"
      BY <3>1, <3>2, <3>3 DEF A!Restoring
    <3>4. CASE ~(focusing.then = "over" /\ focusing.outcome = "running")
      BY <3>1, <3>2, <3>4 DEF A!Restoring
    <3>5. QED
      BY <3>3, <3>4
  <2>3. focusing' = [focusing EXCEPT !.at = focusing.then, !.moves = <<>>, !.outcome = o]
    BY <2>2
  <2>4. FocusRun(focusing')
    BY <1>2, <2>2, <2>3 DEF FocusInv, FocusRun, Spots, Frames, Outcomes, GoingInv
  <2>5. PlaceInv(focusing', focuser)
    BY <1>1, <1>2, <2>1, <2>2, <2>3 DEF FocusInv, FocusRun, PlaceInv, Going, GoingInv, Aim, Frames
  <2>6. ASSUME Sweeps(focusing'), Sound(focusing') PROVE Sweeps(focusing) /\ Sound(focusing) /\ Takes(focuser, focuser.pos)
    <3>1. Sweeps(focusing) /\ Sound(focusing)
      BY <1>1, <2>2, <2>3, <2>6 DEF FocusInv, FocusRun, Sweeps, Sound, FirstOf
    <3>2. ComesTo(focuser, focuser.pos)
      BY <1>1, <2>1, <3>1 DEF FocusInv, SweepInv, Aim, Sweeps
    <3>3. QED
      BY <1>1, <3>1, <3>2, Arrived DEF FocusInv
  <2>7. SweepInv(focusing', focuser)
    BY <1>1, <1>2, <2>2, <2>3, <2>6 DEF FocusInv, FocusRun, SweepInv, Sweeps, GoingInv
  <2>8. QED
    BY <1>1, <2>4, <2>5, <2>7, Unmoved DEF FocusInv, FocusUpTo
<1>5. QED
  BY <1>3, <1>4

LEMMA AbortKeeps == ASSUME FocusInv, A!Abort PROVE FocusInv'
<1>1. focusing.at = "abort" /\ UNCHANGED setup /\ FocuserType(focuser')
  BY StoppedIs DEF A!Abort, A!At, FocusInv
<1>2. CASE focusing' = A!Failed(focusing, "failed")
  BY <1>1, <1>2, FailedHolds, Unmoved DEF FocusInv
<1>3. CASE focusing' = [focusing EXCEPT !.at = "settle"]
  <2>1. FocusRun(focusing')
    BY <1>3 DEF FocusInv, FocusRun, Spots
  <2>2. focusing.outcome # "running" /\ focusing.job = "autofocus" /\ focusing.taken = <<>> /\ ~focusing.again
    BY <1>1 DEF FocusInv, PlaceInv, SweepInv, Sweeps
  <2>3. QED
    BY <1>1, <1>3, <2>1, <2>2, Unmoved DEF FocusInv, FocusUpTo, FocusRun, PlaceInv, SweepInv, Sweeps, Going, Frames
<1>4. QED
  BY <1>2, <1>3 DEF A!Abort

LEMMA SettleKeeps == ASSUME FocusInv, A!Settle PROVE FocusInv'
<1>1. focusing.at = "settle" /\ UNCHANGED <<setup, focuser>>
  BY DEF A!Settle, A!At
<1>2. focusing.outcome # "running" /\ focusing.job = "autofocus" /\ focusing.taken = <<>>
  BY <1>1 DEF FocusInv, PlaceInv, SweepInv, Sweeps
<1>3. CASE focusing.again
  <2>1. focusing' = [focusing EXCEPT !.at = "send"]
    BY <1>3 DEF A!Settle
  <2>2. FocusRun(focusing')
    BY <2>1 DEF FocusInv, FocusRun, Spots
  <2>3. GoingInv(focusing)
    BY <1>1, <1>3 DEF FocusInv, PlaceInv, Going
  <2>4. PlaceInv(focusing', focuser)
    BY <1>1, <1>2, <2>1, <2>3 DEF FocusInv, FocusRun, PlaceInv, Going, GoingInv, Aim, Frames
  <2>5. SweepInv(focusing', focuser)
    BY <1>2, <2>1 DEF FocusInv, FocusRun, SweepInv, Sweeps
  <2>6. QED
    BY <1>1, <2>2, <2>4, <2>5, Unmoved DEF FocusInv, FocusUpTo
<1>4. CASE ~focusing.again
  <2> DEFINE moves == A!Approach(focuser.pos, focusing.start)
  <2>1. focusing' = [focusing EXCEPT !.at = "send", !.moves = moves, !.then = "over", !.again = FALSE]
    BY <1>4 DEF A!Settle, A!To
  <2>2. PICK b : moves = <<focusing.start>> \/ moves = <<b, focusing.start>>
    BY ApproachIs
  <2> HIDE DEF moves
  <2>3. /\ Len(moves) \in {1, 2}
        /\ moves = <<focusing.start>> \/ moves = <<moves[1], focusing.start>>
    <3>1. Len(<<focusing.start>>) = 1 /\ Len(<<b, focusing.start>>) = 2 /\ <<b, focusing.start>>[1] = b
      OBVIOUS
    <3>2. CASE moves = <<focusing.start>>
      BY <3>1, <3>2
    <3>3. CASE moves = <<b, focusing.start>>
      BY <3>1, <3>3
    <3>4. QED
      BY <2>2, <3>2, <3>3
  <2>4. FocusRun(focusing')
    BY <2>1 DEF FocusInv, FocusRun, Spots
  <2>5. focusing'.moves = moves /\ focusing'.at = "send" /\ focusing'.then = "over" /\ focusing'.start = focusing.start
        /\ focusing'.outcome = focusing.outcome /\ focusing'.job = focusing.job /\ focusing'.taken = focusing.taken
    BY <2>1 DEF FocusInv, FocusRun
  <2>6. GoingInv(focusing')
    BY <1>2, <2>3, <2>5 DEF GoingInv, Aim
  <2>7. PlaceInv(focusing', focuser)
    BY <1>1, <1>2, <2>5, <2>6 DEF FocusInv, PlaceInv, Frames
  <2>8. SweepInv(focusing', focuser)
    BY <1>2, <2>5 DEF SweepInv, Sweeps
  <2>9. QED
    BY <1>1, <2>4, <2>7, <2>8, Unmoved DEF FocusInv, FocusUpTo
<1>5. QED
  BY <1>3, <1>4 DEF FocusInv, FocusRun

LEMMA LastFrameKeeps == ASSUME FocusInv, A!LastFrame PROVE FocusInv'
<1>1. focusing.at = "last" /\ UNCHANGED <<setup, focuser>>
  BY DEF A!LastFrame, A!At
<1>2. CASE focusing' = A!Failed(focusing, "failed")
  BY <1>1, <1>2, FailedHolds, Unmoved DEF FocusInv
<1>3. CASE focusing' = [A!Failed(focusing, "failed") EXCEPT !.problem = "worse"]
  BY <1>1, <1>3, FailedHolds, ProblemHolds, Unmoved DEF FocusInv
<1>4. CASE focusing' = [focusing EXCEPT !.at = "over", !.outcome = "succeeded"]
  <2>1. FocusRun(focusing')
    BY <1>4 DEF FocusInv, FocusRun, Spots, Outcomes
  <2>2. focusing.taken = <<>> /\ focusing.job = "autofocus" /\ focuser.goal = A!NoGoal /\ focuser.pos = focusing.best
    BY <1>1 DEF FocusInv, PlaceInv, SweepInv, Sweeps, Frames
  <2>3. PlaceInv(focusing', focuser)
    BY <1>4, <2>2 DEF FocusInv, FocusRun, PlaceInv, Going, Frames
  <2>4. SweepInv(focusing', focuser)
    BY <1>4, <2>2 DEF FocusInv, FocusRun, SweepInv, Sweeps
  <2>5. QED
    BY <1>1, <2>1, <2>3, <2>4, Unmoved DEF FocusInv, FocusUpTo
<1>5. QED
  BY <1>2, <1>3, <1>4 DEF A!LastFrame

LEMMA MeasuredKeeps == ASSUME FocusInv, A!Measured PROVE FocusInv'
<1> DEFINE m == Head(focusing.measuring)
<1>1. focusing.measuring \in Seq(Framed) /\ focusing.measuring # <<>> /\ UNCHANGED <<setup, focuser>>
  BY DEF A!Measured, FocusInv, FocusRun
<1>2. m \in Framed /\ m = focusing.measuring[1] /\ Len(focusing.measuring) \in Nat \ {0}
      /\ Tail(focusing.measuring) \in Seq(Framed) /\ Len(Tail(focusing.measuring)) = Len(focusing.measuring) - 1
      /\ \A i \in 1..Len(Tail(focusing.measuring)) : Tail(focusing.measuring)[i] = focusing.measuring[i + 1]
  BY <1>1
<1>3. PICK h \in {m.hfr, A!Unseen} :
        focusing' = [focusing EXCEPT !.measuring = Tail(@), !.points = @ \cup {[pos |-> m.pos, hfr |-> h]}]
  BY DEF A!Measured
<1> HIDE DEF m
<1> DEFINE p == [pos |-> m.pos, hfr |-> h]
<1>4. p \in Framed
  BY <1>2 DEF Framed, A!Unseen
<1>5. FocusRun(focusing')
  BY <1>2, <1>3, <1>4 DEF FocusInv, FocusRun
<1>6. PlaceInv(focusing', focuser)
  BY <1>3 DEF FocusInv, FocusRun, PlaceInv, Going, GoingInv, Aim
<1>7. TruePoint(m) => TruePoint(p)
  BY <1>3 DEF TruePoint
<1> HIDE DEF p
<1>8. /\ focusing'.points = focusing.points \cup {p} /\ focusing'.measuring = Tail(focusing.measuring)
      /\ focusing'.job = focusing.job /\ focusing'.outcome = focusing.outcome /\ focusing'.at = focusing.at /\ focusing'.then = focusing.then
      /\ focusing'.taken = focusing.taken /\ focusing'.queue = focusing.queue /\ focusing'.turning = focusing.turning
      /\ focusing'.start = focusing.start /\ focusing'.moves = focusing.moves
  BY <1>3 DEF FocusInv, FocusRun, p
<1>9. focusing.at # "first"
  BY <1>1 DEF FocusInv, SweepInv
<1>10. ASSUME Sweeps(focusing'), Sound(focusing')
       PROVE  /\ \A q \in focusing'.points : TruePoint(q)
              /\ \A i \in 1..Len(focusing'.measuring) : TruePoint(focusing'.measuring[i])
  <2>1. Sweeps(focusing) /\ Sound(focusing)
    BY <1>8, <1>10 DEF Sweeps, Sound, FirstOf
  <2>2. /\ \A q \in focusing.points : TruePoint(q)
        /\ \A i \in 1..Len(focusing.measuring) : TruePoint(focusing.measuring[i])
    BY <2>1 DEF FocusInv, SweepInv
  <2>3. TruePoint(m)
    BY <1>2, <2>2
  <2>4. \A i \in 1..Len(Tail(focusing.measuring)) : TruePoint(focusing.measuring[i + 1])
    BY <1>2, <2>2
  <2>5. QED
    BY <1>2, <1>7, <1>8, <2>2, <2>3, <2>4
<1>11. SweepInv(focusing', focuser)
  BY <1>8, <1>9, <1>10 DEF FocusInv, SweepInv, Sweeps, Sound, FirstOf
<1>12. QED
  BY <1>1, <1>5, <1>6, <1>11, Unmoved DEF FocusInv, FocusUpTo

\* A frame, and what the next position finds.
LEMMA ExposeKeeps == ASSUME A!AutofocusAssumption, FocusInv, A!Expose PROVE FocusInv'
<1>1. focusing.at = "expose" /\ UNCHANGED <<setup, focuser>> /\ Travel \in Nat
  BY DEF A!Expose, A!At, A!AutofocusAssumption
<1>2. CASE focusing' = A!Failed(focusing, "failed")
  BY <1>1, <1>2, FailedHolds, Unmoved DEF FocusInv
<1> DEFINE pos == Head(focusing.queue)
           m == [pos |-> pos, hfr |-> A!Hfr(focuser.optics)]
           r == [focusing EXCEPT !.taken = Append(@, pos), !.queue = Tail(@), !.measuring = Append(@, m)]
<1>3. CASE focusing' = IF r.queue = <<>> THEN [r EXCEPT !.at = "join"] ELSE A!Sweeping(r, r.queue)
  <2>1. /\ focusing.queue \in Seq(0..Travel) /\ focusing.queue # <<>> /\ focuser.pos = pos /\ focusing.then = "expose"
        /\ focusing.job = "autofocus" /\ focusing.outcome = "running" /\ focuser.goal = A!NoGoal
        /\ focusing.taken \in Seq(Int) /\ focusing.measuring \in Seq(Framed)
    BY <1>1 DEF FocusInv, PlaceInv, FocusRun, Frames
  <2>2. pos \in 0..Travel /\ Tail(focusing.queue) \in Seq(0..Travel)
    BY <2>1, FirstAndRest
  <2>3. m \in Framed /\ m.pos = pos /\ m.hfr = A!Hfr(focuser.optics)
    <3>1. A!Hfr(focuser.optics) \in Int
      BY HfrType DEF FocusInv, FocuserType
    <3>2. QED
      BY <1>1, <2>2, <3>1 DEF Framed
  <2> HIDE DEF m
  <2>4. /\ Append(focusing.taken, pos) \in Seq(Int) /\ Append(focusing.taken, pos) # <<>>
        /\ Head(Append(focusing.taken, pos)) = IF focusing.taken # <<>> THEN Head(focusing.taken) ELSE pos
    <3>1. pos \in Int
      BY <1>1, <2>2
    <3>2. focusing.taken \in Seq(Int)
      BY <2>1
    <3> HIDE DEF pos
    <3>3. /\ Append(focusing.taken, pos) \in Seq(Int) /\ Append(focusing.taken, pos) # <<>>
          /\ focusing.taken # <<>> => Head(Append(focusing.taken, pos)) = Head(focusing.taken)
          /\ focusing.taken = <<>> => Head(Append(focusing.taken, pos)) = pos
      BY <3>1, <3>2, Appended
    <3>4. QED
      BY <3>3
  <2>5. /\ Append(focusing.measuring, m) \in Seq(Framed)
        /\ Len(Append(focusing.measuring, m)) = Len(focusing.measuring) + 1 /\ Len(focusing.measuring) \in Nat
        /\ \A i \in 1..Len(focusing.measuring) : Append(focusing.measuring, m)[i] = focusing.measuring[i]
        /\ Append(focusing.measuring, m)[Len(focusing.measuring) + 1] = m
    BY <2>1, <2>3
  <2>6. FocusRun(r)
    BY <2>2, <2>4, <2>5 DEF FocusInv, FocusRun
  <2>7. /\ r.taken = Append(focusing.taken, pos) /\ r.queue = Tail(focusing.queue) /\ r.points = focusing.points
        /\ r.measuring = Append(focusing.measuring, m) /\ r.turning = focusing.turning /\ r.start = focusing.start
        /\ r.job = focusing.job /\ r.outcome = focusing.outcome /\ r.then = focusing.then
    BY DEF FocusInv, FocusRun
  <2> HIDE DEF r
  <2>8. ASSUME NEW s, s.taken = r.taken, s.turning = r.turning, s.start = r.start, Sound(s)
        PROVE  /\ Takes(focuser, focuser.pos)
               /\ \A p \in r.points : TruePoint(p)
               /\ \A i \in 1..Len(r.measuring) : TruePoint(r.measuring[i])
    <3>1. Sound(focusing)
      BY <2>4, <2>7, <2>8 DEF Sound, FirstOf
    <3>2. /\ Takes(focuser, focuser.pos)
          /\ \A p \in focusing.points : TruePoint(p)
          /\ \A i \in 1..Len(focusing.measuring) : TruePoint(focusing.measuring[i])
      BY <1>1, <2>1, <3>1 DEF FocusInv, SweepInv, Sweeps
    <3>3. A!RoomFor(focuser.pos) => focuser.optics = A!Settled(focuser.pos)
      BY <1>1, <3>2, SlackTaken DEF FocusInv
    <3>4. TruePoint(m)
      BY <2>1, <2>3, <3>3 DEF TruePoint
    <3>5. ASSUME NEW i \in 1..Len(r.measuring) PROVE TruePoint(r.measuring[i])
      <4>1. i \in 1..Len(focusing.measuring) \/ i = Len(focusing.measuring) + 1
        BY <2>5, <2>7, <3>5
      <4>2. QED
        BY <2>5, <2>7, <3>2, <3>4, <4>1
    <3>6. QED
      BY <2>7, <3>2, <3>5
  <2>9. CASE r.queue = <<>>
    <3>1. focusing' = [r EXCEPT !.at = "join"]
      BY <1>3, <2>9
    <3>2. FocusRun(focusing')
      BY <2>6, <3>1 DEF FocusRun, Spots, Frames
    <3>3. /\ focusing'.at = "join" /\ focusing'.taken = r.taken /\ focusing'.turning = r.turning /\ focusing'.start = r.start
          /\ focusing'.points = r.points /\ focusing'.measuring = r.measuring /\ focusing'.job = r.job
          /\ focusing'.outcome = r.outcome /\ focusing'.then = r.then
      BY <2>6, <3>1 DEF FocusRun
    <3>4. PlaceInv(focusing', focuser)
      BY <2>1, <2>7, <3>3 DEF PlaceInv, Going, Frames
    <3>5. SweepInv(focusing', focuser)
      BY <2>1, <2>4, <2>7, <2>8, <3>3 DEF SweepInv, Sweeps
    <3>6. QED
      BY <1>1, <3>2, <3>4, <3>5, Unmoved DEF FocusInv, FocusUpTo
  <2>10. CASE r.queue # <<>>
    <3>1. focusing' = A!Sweeping(r, r.queue)
      BY <1>3, <2>10
    <3>2. MayGo(r, r.queue)
      <4> DEFINE s == [r EXCEPT !.queue = r.queue]
      <4>1. s.taken = r.taken /\ s.turning = r.turning /\ s.start = r.start
        BY <2>6 DEF FocusRun
      <4> HIDE DEF s
      <4>2. ASSUME Sound(s)
            PROVE  /\ Takes(focuser, focuser.pos)
                   /\ \A p \in r.points : TruePoint(p)
                   /\ \A i \in 1..Len(r.measuring) : TruePoint(r.measuring[i])
        BY <2>8, <4>1, <4>2
      <4>3. QED
        BY <2>1, <2>7, <4>2 DEF MayGo, s
    <3>3. r.queue \in Seq(0..Travel)
      BY <2>2, <2>7
    <3>4. FocusUpTo(A!Sweeping(r, r.queue), focuser)
      BY <1>1, <2>6, <2>10, <3>2, <3>3, SweepingHolds DEF FocusInv
    <3>5. QED
      BY <1>1, <3>1, <3>4, Unmoved DEF FocusInv
  <2>11. QED
    BY <2>9, <2>10
<1>4. QED
  BY <1>2, <1>3 DEF A!Expose

\* What becomes of a sweep.
LEMMA VerdictsAre ==
  ASSUME NEW open, NEW v \in A!Verdicts(open)
  PROVE  v.as = "problem" \/ (v.as = "extend" /\ v.n \in open) \/ v.as = "fit"
BY DEF A!Verdicts

\* The position an extension adds.
LEMMA AddedIs == ASSUME NEW x, NEW S, S = {x} \cap (0..Travel), S # {}
  PROVE  A!SetToSeq(S) \in Seq(0..Travel) /\ A!SetToSeq(S) # <<>>
<1>1. S = {x} /\ x \in 0..Travel
  OBVIOUS
<1>2. A!Cardinality(S) = 1
  <2>1. A!Cardinality(S) = Cardinality(S)
    BY DEF A!Cardinality, Cardinality
  <2>2. QED
    BY <1>1, <2>1, FS_Singleton
<1>3. [i \in 1..1 |-> x] \in [1..A!Cardinality(S) -> S] /\ A!IsInjective([i \in 1..1 |-> x])
  BY <1>1, <1>2 DEF A!IsInjective
<1>4. A!SetToSeq(S) \in [1..A!Cardinality(S) -> S]
  <2> DEFINE Order(f) == f \in [1..A!Cardinality(S) -> S] /\ A!IsInjective(f)
  <2>1. \E f : Order(f)
    BY <1>3
  <2>2. Order(CHOOSE f : Order(f))
    BY <2>1
  <2>3. A!SetToSeq(S) = CHOOSE f : Order(f)
    BY DEF A!SetToSeq
  <2>4. QED
    BY <2>2, <2>3
<1>5. A!SetToSeq(S) \in [1..1 -> 0..Travel]
  BY <1>1, <1>2, <1>4
<1>6. QED
  BY <1>5, Listed, 1 \in Nat \ {0}

LEMMA AssessKeeps == ASSUME A!AutofocusAssumption, FocusInv, A!Assess PROVE FocusInv'
<1>1. focusing.at = "join" /\ UNCHANGED <<setup, focuser>> /\ Travel \in Nat
  BY DEF A!Assess, A!At, A!AutofocusAssumption
<1>2. focusing.job = "autofocus" /\ focusing.outcome = "running" /\ focusing.then = "expose" /\ focusing.taken # <<>>
  BY <1>1 DEF FocusInv, PlaceInv, SweepInv, Frames
<1>3. ~focusing.turning => focuser.goal = A!NoGoal
  BY <1>1, <1>2 DEF FocusInv, SweepInv
<1> DEFINE open == {side \in {A!Inward, A!Outward} : focusing.left[side] > 0 /\ A!Added(side) # {}}
<1>4. PICK verdict \in A!Verdicts(open) :
       focusing' = CASE verdict.as = "problem" -> [A!Failed(focusing, "failed") EXCEPT !.problem = verdict.why]
                [] verdict.as = "extend" ->
                     A!Sweeping([focusing EXCEPT !.left[verdict.n] = @ - 1], A!SetToSeq(A!Added(verdict.n)))
                [] verdict.as = "fit" ->
                     A!To([focusing EXCEPT !.best = verdict.n, !.points = {}, !.taken = <<>>],
                          A!Approach(focuser.pos, verdict.n), "last")
  BY DEF A!Assess
<1>5. verdict.as = "problem" \/ (verdict.as = "extend" /\ verdict.n \in open) \/ verdict.as = "fit"
  BY VerdictsAre
<1>6. CASE verdict.as = "problem"
  <2>1. focusing' = [A!Failed(focusing, "failed") EXCEPT !.problem = verdict.why]
    BY <1>4, <1>6
  <2>2. FocusUpTo(focusing', focuser)
    BY <1>1, <2>1, FailedHolds, ProblemHolds DEF FocusInv
  <2>3. QED
    BY <1>1, <2>2, Unmoved DEF FocusInv
<1>7. CASE verdict.as = "extend" /\ verdict.n \in open
  <2> DEFINE ahead == A!SetToSeq(A!Added(verdict.n))
             r == [focusing EXCEPT !.left[verdict.n] = @ - 1]
  <2>1. focusing' = A!Sweeping(r, ahead)
    BY <1>4, <1>7
  <2>2. ahead \in Seq(0..Travel) /\ ahead # <<>>
    <3>1. PICK x : A!Added(verdict.n) = {x} \cap (0..Travel)
      BY DEF A!Added
    <3>2. QED
      BY <1>7, <3>1, AddedIs
  <2>3. FocusRun(r)
    BY DEF FocusInv, FocusRun
  <2>4. /\ r.job = focusing.job /\ r.outcome = focusing.outcome /\ r.turning = focusing.turning /\ r.start = focusing.start
        /\ r.taken = focusing.taken /\ r.points = focusing.points /\ r.measuring = focusing.measuring
    BY DEF FocusInv, FocusRun
  <2> HIDE DEF r, ahead
  <2>5. MayGo(r, ahead)
    <3> DEFINE s == [r EXCEPT !.queue = ahead]
    <3>1. s.taken = focusing.taken /\ s.turning = focusing.turning /\ s.start = focusing.start
      BY <2>3, <2>4 DEF FocusRun
    <3> HIDE DEF s
    <3>2. ASSUME Sound(s)
          PROVE  /\ Takes(focuser, focuser.pos)
                 /\ \A p \in focusing.points : TruePoint(p)
                 /\ \A i \in 1..Len(focusing.measuring) : TruePoint(focusing.measuring[i])
      <4>1. Sound(focusing) /\ Sweeps(focusing)
        BY <1>1, <1>2, <3>1, <3>2 DEF Sound, FirstOf, Sweeps
      <4>2. QED
        BY <1>1, <4>1 DEF FocusInv, SweepInv
    <3>3. QED
      BY <1>2, <1>3, <2>4, <3>2 DEF MayGo, s
  <2>6. FocusUpTo(focusing', focuser)
    BY <1>1, <2>1, <2>2, <2>3, <2>5, SweepingHolds DEF FocusInv
  <2>7. QED
    BY <1>1, <2>6, Unmoved DEF FocusInv
<1>8. CASE verdict.as = "fit"
  <2> DEFINE moves == A!Approach(focuser.pos, verdict.n)
             n == verdict.n
  <2>1. focusing' = [focusing EXCEPT !.best = n, !.points = {}, !.taken = <<>>, !.at = "send",
                           !.moves = moves, !.then = "last", !.again = FALSE]
    BY <1>4, <1>8 DEF A!To
  <2>2. PICK b : moves = <<n>> \/ moves = <<b, n>>
    BY ApproachIs
  <2> HIDE DEF moves, n
  <2>3. Len(moves) \in {1, 2} /\ (moves = <<n>> \/ moves = <<moves[1], n>>)
    <3>1. Len(<<n>>) = 1 /\ Len(<<b, n>>) = 2 /\ <<b, n>>[1] = b
      OBVIOUS
    <3>2. CASE moves = <<n>>
      BY <3>1, <3>2
    <3>3. CASE moves = <<b, n>>
      BY <3>1, <3>3
    <3>4. QED
      BY <2>2, <3>2, <3>3
  <2>4. FocusRun(focusing')
    <3>1. FocusRun(focusing) /\ {} \in SUBSET Framed /\ <<>> \in Seq(Int)
      BY DEF FocusInv
    <3> DEFINE Typed(m, k) ==
          [job : {"none", "focus", "autofocus"}, at : Spots, start : Int, first : Int,
           moves : {m}, then : {"none", "expose", "last", "over"}, queue : Seq(0..Travel),
           taken : Seq(Int), points : SUBSET Framed, measuring : Seq(Framed), left : {focusing.left},
           problem : {focusing.problem}, best : {k}, outcome : Outcomes, again : BOOLEAN,
           gaveUp : BOOLEAN, turning : BOOLEAN]
    <3>2. focusing \in Typed(focusing.moves, focusing.best)
      BY <3>1 DEF FocusRun
    <3>3. focusing' \in Typed(moves, n)
      BY <2>1, <3>1, <3>2 DEF Spots
    <3>4. QED
      BY <3>3 DEF FocusRun
  <2>5. focusing'.moves = moves /\ focusing'.at = "send" /\ focusing'.then = "last" /\ focusing'.best = n
        /\ focusing'.outcome = focusing.outcome /\ focusing'.job = focusing.job /\ focusing'.taken = <<>> /\ focusing'.turning = focusing.turning
    BY <2>1 DEF FocusInv, FocusRun
  <2>6. GoingInv(focusing')
    BY <1>2, <2>3, <2>5 DEF GoingInv, Aim
  <2>7. PlaceInv(focusing', focuser)
    BY <1>2, <2>5, <2>6 DEF PlaceInv, Frames
  <2>8. SweepInv(focusing', focuser)
    BY <1>3, <2>5 DEF SweepInv, Sweeps
  <2>9. QED
    BY <1>1, <2>4, <2>7, <2>8, Unmoved DEF FocusInv, FocusUpTo
<1>9. QED
  BY <1>5, <1>6, <1>7, <1>8

LEMMA FocusInit == ASSUME A!AutofocusAssumption, A!Init PROVE FocusInv
<1>1. SetupType
  BY DEF A!Init, A!AutofocusAssumption, SetupType
<1>2. PICK p \in {0, Travel, Travel \div 2} :
        focuser \in [pos : {p}, goal : {A!NoGoal}, optics : {p, p - setup.slack}]
  BY DEF A!Init
<1>3. p \in Int
  BY DEF A!AutofocusAssumption
<1>4. FocuserType(focuser)
  BY <1>1, <1>2, <1>3 DEF FocuserType, SetupType
<1>5. QED
  BY <1>1, <1>4, IdleHolds DEF A!Init, FocusInv, FocusUpTo

LEMMA FocusStep == ASSUME A!AutofocusAssumption, FocusInv, A!Next PROVE FocusInv'
<1>1. CASE \/ \E target \in Targets : A!StartMove(target)
           \/ A!StartAutofocus \/ A!Cancel \/ A!AbortPressed \/ A!MotorTurns \/ A!MoveFails
  BY <1>1, StartMoveKeeps, StartAutofocusKeeps, CancelKeeps, AbortPressedKeeps, MotorTurnsKeeps, MoveFailsKeeps
<1>2. CASE A!Steps
  BY <1>2, FirstFrameKeeps, SendMoveKeeps, MoveEndsKeeps, ExposeKeeps, MeasuredKeeps, AssessKeeps,
     LastFrameKeeps, AbortKeeps, SettleKeeps, OverKeeps DEF A!Steps
<1>3. QED
  BY <1>1, <1>2 DEF A!Next

LEMMA FocusRests == ASSUME FocusInv, UNCHANGED focusVars PROVE FocusInv'
BY Unmoved DEF focusVars, FocusInv, FocusUpTo

LEMMA FocusAlways == Spec => []FocusInv
<1> USE CameraJobsAssumption
<1>1. Init => FocusInv
  BY FocusInit DEF Init
<1>2. FocusInv /\ [Next]_vars => FocusInv'
  BY FocusStep, FocusRests DEF Next, Pointing, Flats, Imaging, Focusing, vars
<1>3. QED
  BY <1>1, <1>2, PTL DEF Spec

\* Every point of a sweep was measured where its position puts the optics, whatever the slack,
\* when the overshoot takes it up: sweep.py's approach, and extensions on either side.
THEOREM PointsAreThere == Spec => []PointsAreTrue
<1>1. FocusInv => PointsAreTrue
  <2> SUFFICES ASSUME FocusInv, setup.overshoot >= setup.slack, focusing.taken # <<>>, ~focusing.turning,
                      (focusing.start - Head(focusing.taken)) * setup.direction > 0,
                      NEW p \in A!Seen(focusing.points), A!RoomFor(p.pos)
               PROVE  p.hfr = A!Hfr(A!Settled(p.pos))
    BY DEF PointsAreTrue, A!PointsAreTrue
  <2>1. Sweeps(focusing) /\ Sound(focusing)
    BY DEF FocusInv, SweepInv, Sound, FirstOf
  <2>2. QED
    BY <2>1 DEF FocusInv, SweepInv, TruePoint, A!Seen
<1>2. QED
  BY <1>1, FocusAlways, PTL

\* An autofocus that ends leaves the focuser at rest at the best focus, or where it started
\* (AutofocusService._restore), whatever fails, is refused or is cancelled on its way, unless
\* the way back failed too.
THEOREM FocuserComesBack == Spec => ComesBack
<1>1. FocusInv => (A!At("over") /\ ~focusing.gaveUp =>
        /\ focuser.goal = A!NoGoal
        /\ focuser.pos = IF focusing.outcome = "succeeded" THEN focusing.best ELSE focusing.start)
  BY DEF FocusInv, PlaceInv, A!At
<1>2. QED
  BY <1>1, FocusAlways, PTL DEF ComesBack, A!ComesBack
=============================================================================
