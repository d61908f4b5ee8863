------------------------------ MODULE Autofocus ------------------------------
(***************************************************************************)
(* The focuser and its two jobs (nocs.focus.autofocus, focus.sweep,         *)
(* focus.service, devices.focuser): a move, and autofocus, which sweeps the *)
(* focuser over a range of positions with a frame at each, finds the best   *)
(* one and goes there, or goes back to where it started.                    *)
(*                                                                          *)
(* The motor turns one step at a time.  What the frames see is the optics,  *)
(* which follow the motor with a slack in the gears: the sweep reaches      *)
(* every position the same way to take it up.  Frames are measured while    *)
(* the next ones are taken.  The HFR is a V of the optics' distance from    *)
(* focus; the curve fitted to it is left out, its best position is that of  *)
(* the lowest point, or the fit is a bad one.                               *)
(***************************************************************************)
EXTENDS Integers, FiniteSets, SequencesExt

CONSTANTS
  Travel,      \* positions are 0..Travel
  Step, Points, Extension,   \* AutofocusOptions
  Setups,      \* direction, overshoot; slack of the gears; optics in focus
  Targets,     \* the moves asked for by hand
  CanAbort,    \* does the driver stop a move?
  MaxFaults    \* bound: frames, moves and commands that fail, and waits that time out

\* Assumed in CameraJobs.
AutofocusAssumption ==
  /\ Setups \subseteq [direction : {1, -1}, overshoot : Nat, slack : Nat, focus : Int]
  /\ Targets \subseteq 0..Travel
  /\ {Step, Points} \subseteq Nat \ {0} /\ Step * (Points - 1) <= Travel
  /\ {Travel, Extension, MaxFaults} \subseteq Nat

Outward == 1
Inward == -1
NoGoal == -1
Unseen == -1    \* the HFR of a frame without stars

VARIABLES
  setup,     \* of these, the one in use
  focuser,   \* the motor: its position and where it goes; the optics
  run,       \* the job that holds the focuser, and _Run; gaveUp and turning are for the properties
  faults

vars == <<setup, focuser, run, faults>>

None == [job |-> "none", at |-> "idle", start |-> 0, first |-> Unseen,
         moves |-> <<>>, then |-> "none", queue |-> <<>>, taken |-> <<>>,
         points |-> {}, measuring |-> <<>>, left |-> [side \in {Inward, Outward} |-> 0],
         problem |-> "none", best |-> 0, outcome |-> "none", again |-> FALSE, gaveUp |-> FALSE, turning |-> FALSE]

Init ==
  /\ setup \in Setups
  /\ \E p \in {0, Travel \div 2, Travel} :
       focuser \in [pos : {p}, goal : {NoGoal}, optics : {p, p - setup.slack}]
  /\ run = None /\ faults = 0

Fault == faults < MaxFaults /\ faults' = faults + 1

----------------------------------------------------------------------------
(* The focuser *)

Clipped(p) == IF p < 0 THEN 0 ELSE IF p > Travel THEN Travel ELSE p

\* The optics follow when the slack is taken up.
Follow(optics, pos) ==
  IF optics > pos THEN pos
  ELSE IF optics < pos - setup.slack THEN pos - setup.slack ELSE optics

Distance(a, b) == IF a > b THEN a - b ELSE b - a
Hfr(optics) == 1 + Distance(optics, setup.focus)

MotorTurns ==
  /\ focuser.goal # NoGoal
  /\ LET pos == focuser.pos + (IF focuser.goal > focuser.pos THEN 1
                               ELSE IF focuser.goal < focuser.pos THEN -1 ELSE 0)
     IN focuser' = [pos |-> pos, goal |-> IF pos = focuser.goal THEN NoGoal ELSE focuser.goal,
                    optics |-> Follow(focuser.optics, pos)]
  /\ UNCHANGED <<setup, run, faults>>

----------------------------------------------------------------------------
(* The sweep *)

\* (Mutant) Every position is gone to directly.
Approach_Direct(current, target) == <<target>>

\* approach: the moves that reach target in the direction.
Approach(current, target) ==
  LET beyond == Clipped(target - setup.direction * setup.overshoot) IN
  IF setup.overshoot <= 0 \/ target = current \/ (target - current) * setup.direction > 0
     \/ beyond = target
  THEN <<target>> ELSE <<beyond, target>>

\* sweep_positions, in the order they are taken.
SweepPositions(centre) ==
  LET width == Step * (Points - 1)
      low == IF centre - width \div 2 > Travel - width THEN Travel - width
             ELSE IF centre < width \div 2 THEN 0 ELSE centre - width \div 2
      positions == [i \in 1..Points |-> low + (i - 1) * Step]
  IN IF setup.direction = Outward THEN positions ELSE Reverse(positions)

\* extension: the position added on one side, if the focuser reaches it.
Added(side) ==
  LET edge == IF side = Outward THEN CHOOSE p \in ToSet(run.taken) : \A q \in ToSet(run.taken) : p >= q
              ELSE CHOOSE p \in ToSet(run.taken) : \A q \in ToSet(run.taken) : p <= q
  IN {edge + side * Step} \cap 0..Travel

Seen(points) == {p \in points : p.hfr # Unseen}
ByPosition(points) ==
  [i \in 1..Cardinality(points) |->
     CHOOSE p \in points : Cardinality({q \in points : q.pos < p.pos}) = i - 1]
HfrsOf(points) == [i \in DOMAIN points |-> points[i].hfr]

\* plateau: how many points at the start of a sequence of HFRs are one while the next ones
\* change; 0 for none.
Plateau(hfrs) ==
  LET n == Len(hfrs)
      same == {k \in 1..n : \A i \in 1..k : 100 * Distance(hfrs[i], hfrs[1]) <= 8 * hfrs[1]}
      count == Cardinality(same)
      last == IF count + 3 > n THEN n ELSE count + 3
      beyond == FoldSet(LAMBDA i, sum : sum + Distance(hfrs[i], hfrs[i + 1]), 0, count..(last - 1))
  IN IF n <= 3 \/ count < 3 \/ count > n - 2
        \/ 4 * Distance(hfrs[count], hfrs[1]) * (last - count) >= beyond * (count - 1)
     THEN 0 ELSE count

\* assess: what becomes of the run.  Points come sorted by position.
Verdicts(open) ==
  LET usable == ByPosition(Seen(run.points))
      hfrs == HfrsOf(usable)
      low == CHOOSE h \in ToSet(hfrs) : \A g \in ToSet(hfrs) : h <= g
      high == CHOOSE h \in ToSet(hfrs) : \A g \in ToSet(hfrs) : h >= g
      lowest == CHOOSE i \in DOMAIN hfrs : hfrs[i] = low /\ \A j \in 1..(i - 1) : hfrs[j] # low
      Is(as, why, n) == {[as |-> as, why |-> why, n |-> n]}
      Fails(why) == Is("problem", why, 0)
      Turned(side, count) == IF count >= 2 THEN {}
                             ELSE IF side \in open THEN Is("extend", "none", side)
                             ELSE Fails("not_turning")
      unturned == IF Turned(Inward, lowest - 1) # {} THEN Turned(Inward, lowest - 1)
                  ELSE Turned(Outward, Len(usable) - lowest)
  IN IF Len(usable) < 5 THEN Fails("too_few_stars")
     ELSE IF 10 * high >= 12 * low /\ Plateau(hfrs) > 0 THEN Fails("backlash")
     ELSE IF 10 * high < 12 * low THEN Fails("flat")
     ELSE IF unturned # {} THEN unturned
     ELSE Is("fit", "none", usable[lowest].pos) \cup Fails("bad_fit")

----------------------------------------------------------------------------
(* The jobs: the steps of one task *)

At(s) == run.at = s
Restoring == run.outcome # "running"
Stopped == [focuser EXCEPT !.goal = NoGoal]

\* The moves to a target, and what comes after them.
To(r, moves, next) == [r EXCEPT !.at = "send", !.moves = moves, !.then = next, !.again = FALSE]

\* (Mutant) A cancelled run goes back at once, without stopping the motor first.
Failed_GoesAtOnce(r, why) ==
  IF r.job = "focus" \/ r.outcome # "running"
  THEN [r EXCEPT !.at = "over", !.outcome = IF @ = "running" THEN why ELSE @]
  ELSE [None EXCEPT !.job = r.job, !.at = "send", !.start = r.start, !.outcome = why,
                    !.moves = <<r.start>>, !.then = "over", !.again = TRUE, !.gaveUp = FALSE]

\* (Mutant) A way back that fails or is cancelled begins again.
Failed_BeginsAgain(r, why) ==
  IF r.job = "focus"
  THEN [r EXCEPT !.at = "over", !.gaveUp = TRUE, !.outcome = why]
  ELSE [None EXCEPT !.job = r.job, !.at = "abort", !.start = r.start, !.outcome = why]

\* What the task does next when it fails with an error, or is cancelled: autofocus takes the
\* focuser back, unless that is what failed; a move just ends.  The points, from here on only
\* shown and recorded, are left out.
Failed(r, why) ==
  IF r.job = "focus" \/ r.outcome # "running"
  THEN [r EXCEPT !.at = "over", !.gaveUp = TRUE, !.outcome = IF @ = "running" THEN why ELSE @]
  ELSE [None EXCEPT !.job = r.job, !.at = "abort", !.start = r.start, !.outcome = why]

\* FocuserService._start and AutofocusService.run.
StartMove(target) ==
  /\ At("idle")
  /\ run' = To([None EXCEPT !.job = "focus", !.outcome = "running", !.best = target], <<target>>, "over")
  /\ UNCHANGED <<setup, focuser, faults>>

StartAutofocus ==
  /\ At("idle")
  /\ run' = [None EXCEPT !.job = "autofocus", !.at = "first", !.start = focuser.pos,
                         !.turning = focuser.goal # NoGoal, !.outcome = "running", !.left = [side \in {Inward, Outward} |-> Extension]]
  /\ UNCHANGED <<setup, focuser, faults>>

\* The positions of a sweep are gone to one by one, in this order.
Sweeping(r, queue) ==
  To([r EXCEPT !.queue = queue], Approach(focuser.pos, Head(queue)), "expose")

\* The frame at the start; too few stars end the run.
FirstFrame ==
  /\ At("first")
  /\ \/ run' = Sweeping([run EXCEPT !.first = Hfr(focuser.optics)], SweepPositions(run.start))
        /\ UNCHANGED faults
     \/ Fault /\ run' = Failed(run, "failed")
  /\ UNCHANGED <<setup, focuser>>

\* A move that fails with a DeviceError; on the way back that is met once.
Refused == IF Restoring /\ ~run.again THEN [run EXCEPT !.at = "settle", !.again = TRUE]
           ELSE Failed(run, "failed")

\* Focuser.move_to: refused while the motor still turns, or indiserver cannot be reached.
SendMove ==
  /\ At("send")
  /\ \/ /\ focuser.goal = NoGoal
        /\ focuser' = [focuser EXCEPT !.goal = Head(run.moves)] /\ run' = [run EXCEPT !.at = "moving"]
        /\ UNCHANGED faults
     \/ focuser.goal # NoGoal /\ run' = Refused /\ UNCHANGED <<focuser, faults>>
     \/ Fault /\ run' = Failed(run, "failed") /\ UNCHANGED focuser
  /\ UNCHANGED setup

MoveEnds ==
  /\ At("moving") /\ focuser.goal = NoGoal /\ focuser.pos = Head(run.moves)
  /\ run' = IF Len(run.moves) > 1 THEN To(run, Tail(run.moves), run.then)
            ELSE [run EXCEPT !.at = run.then, !.moves = <<>>,
                             !.outcome = IF run.then = "over" /\ ~Restoring THEN "succeeded" ELSE @]
  /\ UNCHANGED <<setup, focuser, faults>>

\* The driver reports an error, or does not answer in time; the motor may turn on.
MoveFails ==
  /\ At("moving") /\ Fault
  /\ focuser' \in {Stopped, focuser}
  /\ run' = Refused
  /\ UNCHANGED setup

\* A frame of the sweep: it is measured while the next one is taken.
Expose ==
  /\ At("expose")
  /\ \/ LET pos == Head(run.queue)
            r == [run EXCEPT !.taken = Append(@, pos), !.queue = Tail(@),
                             !.measuring = Append(@, [pos |-> pos, hfr |-> Hfr(focuser.optics)])]
        IN /\ run' = IF r.queue = <<>> THEN [r EXCEPT !.at = "join"] ELSE Sweeping(r, r.queue)
           /\ UNCHANGED faults
     \/ Fault /\ run' = Failed(run, "failed")
  /\ UNCHANGED <<setup, focuser>>

\* finish: a frame that cannot be measured is a point without stars.  The worker measures one
\* frame at a time.
Measured ==
  /\ run.measuring # <<>>
  /\ LET m == Head(run.measuring)
         Point(hfr) == run' = [run EXCEPT !.measuring = Tail(@),
                                         !.points = @ \cup {[pos |-> m.pos, hfr |-> hfr]}]
     IN \/ Point(m.hfr) /\ UNCHANGED faults
        \/ Fault /\ Point(Unseen)
  /\ UNCHANGED <<setup, focuser>>

\* All are measured: the sweep is judged.
Assess ==
  /\ At("join") /\ run.measuring = <<>>
  /\ LET open == {side \in {Inward, Outward} : run.left[side] > 0 /\ Added(side) # {}} IN
     \E verdict \in Verdicts(open) :
       run' = CASE verdict.as = "problem" -> [Failed(run, "failed") EXCEPT !.problem = verdict.why]
                [] verdict.as = "extend" ->
                     Sweeping([run EXCEPT !.left[verdict.n] = @ - 1], SetToSeq(Added(verdict.n)))
                [] verdict.as = "fit" ->
                     To([run EXCEPT !.best = verdict.n, !.points = {}, !.taken = <<>>],
                        Approach(focuser.pos, verdict.n), "last")
  /\ UNCHANGED <<setup, focuser, faults>>

\* The frame at the best focus may not be worse than the first one.
LastFrame ==
  /\ At("last")
  /\ \/ /\ run' = IF 10 * Hfr(focuser.optics) > 11 * run.first
                  THEN [Failed(run, "failed") EXCEPT !.problem = "worse"]
                  ELSE [run EXCEPT !.at = "over", !.outcome = "succeeded"]
        /\ UNCHANGED faults
     \/ Fault /\ run' = Failed(run, "failed")
  /\ UNCHANGED <<setup, focuser>>

----------------------------------------------------------------------------
(* Back to the start: _restore *)

Abort ==
  /\ At("abort")
  /\ \/ run' = [run EXCEPT !.at = "settle"] /\ focuser' = (IF CanAbort THEN Stopped ELSE focuser)
        /\ UNCHANGED faults
     \/ CanAbort /\ Fault /\ run' = Failed(run, "failed") /\ UNCHANGED focuser
  /\ UNCHANGED setup

\* _settle: the motor has stopped, or is not waited for any longer.
Settle ==
  /\ At("settle")
  /\ \/ focuser.goal = NoGoal /\ UNCHANGED faults
     \/ focuser.goal # NoGoal /\ Fault
  /\ run' = IF run.again THEN [run EXCEPT !.at = "send"]
            ELSE To(run, Approach(focuser.pos, run.start), "over")
  /\ UNCHANGED <<setup, focuser>>

----------------------------------------------------------------------------
(* Cancelling: JobManager.cancel, and FocuserService.abort, which also stops the motor *)

Busy == run.at \notin {"idle", "over"}

\* A cancelled move stops the motor; a cancelled autofocus goes back.
Cancel ==
  /\ Busy
  /\ run' = Failed(run, "cancelled")
  /\ \/ focuser' = (IF run.job = "focus" /\ CanAbort THEN Stopped ELSE focuser) /\ UNCHANGED faults
     \/ run.job = "focus" /\ CanAbort /\ Fault /\ UNCHANGED focuser
  /\ UNCHANGED setup

AbortPressed ==
  /\ CanAbort /\ focuser.goal # NoGoal
  /\ focuser' = Stopped
  /\ run' = IF Busy THEN Failed(run, "cancelled") ELSE run
  /\ UNCHANGED <<setup, faults>>

Over ==
  /\ At("over")
  /\ run' = None
  /\ UNCHANGED <<setup, focuser, faults>>

Steps == \/ FirstFrame \/ SendMove \/ MoveEnds \/ Expose \/ Measured \/ Assess \/ LastFrame
         \/ Abort \/ Settle \/ Over

Next ==
  \/ \E target \in Targets : StartMove(target)
  \/ StartAutofocus \/ Cancel \/ AbortPressed
  \/ MotorTurns \/ MoveFails \/ Steps

Spec == Init /\ [][Next]_vars

\* The motor turns, and the job's steps end.
FairSpec == Spec /\ WF_vars(MotorTurns) /\ WF_vars(Steps)

----------------------------------------------------------------------------

Positions == 0..Travel

TypeOK ==
  /\ setup \in Setups
  /\ focuser.pos \in Positions /\ focuser.goal \in Positions \cup {NoGoal}
  /\ focuser.optics \in (focuser.pos - setup.slack)..focuser.pos
  /\ run.job \in {"none", "focus", "autofocus"}
  /\ run.at \in {"idle", "first", "send", "moving", "expose", "join", "last", "abort", "settle", "over"}
  /\ run.outcome \in {"none", "running", "succeeded", "failed", "cancelled"}
  /\ ToSet(run.moves) \cup ToSet(run.queue) \cup ToSet(run.taken) \subseteq Positions
  /\ \A side \in {Inward, Outward} : run.left[side] \in 0..Extension

\* An autofocus that ends leaves the focuser, at rest, at the focus it found or, when it failed
\* or was cancelled, where it started, unless the way back was cancelled or the driver failed it
\* there too (autofocus.py:15); and a move that ends by itself ends where it was to go.
ComesBack ==
  [][ At("over") /\ ~run.gaveUp =>
        /\ focuser.goal = NoGoal
        /\ focuser.pos = IF run.outcome = "succeeded" THEN run.best ELSE run.start ]_run

\* With an overshoot that takes up the slack, room for it, and a motor at rest at first, every point of a sweep was
\* measured with the optics where its position puts them when it is reached in the
\* direction: points added on either side later fall on the same curve (sweep.py:3).
Settled(pos) ==
  IF setup.direction = Outward THEN pos - setup.slack ELSE pos
RoomFor(pos) ==
  IF setup.direction = Outward THEN pos >= setup.slack ELSE pos <= Travel - setup.slack

PointsAreTrue ==
  (/\ setup.overshoot >= setup.slack /\ run.taken # <<>>
   /\ ~run.turning /\ (run.start - Head(run.taken)) * setup.direction > 0)
  => \A p \in Seen(run.points) : RoomFor(p.pos) => p.hfr = Hfr(Settled(p.pos))

\* Every job on the focuser ends: it stops waiting for a motor that does not answer, extends a
\* sweep a bounded number of times and meets a refusal once (autofocus.py:351, 488).
RunEnds == ~At("idle") ~> At("idle")

\* A disagreement with sweep.py:220 ("The first points, in the order taken, keep the same HFR
\* while the focuser's position changes"): no sweep whose first points in the order they were
\* taken are a plateau is fitted.
InOrder == LET sorted == ByPosition(Seen(run.points)) IN
           IF setup.direction = Outward THEN sorted ELSE Reverse(sorted)
BacklashSeen ==
  [][ At("join") /\ run'.then = "last" => Plateau(HfrsOf(InOrder)) = 0 ]_run
=============================================================================
