-------------------------------- MODULE Imaging --------------------------------
(***************************************************************************)
(* A run images one target (Runner in nocs.sequence.runner, ADR 0032, 0033):*)
(* it points the mount, then takes the frames of a plan row by row, with    *)
(* the filter, the meridian flip, dithers and focusing between frames,      *)
(* policies for what fails, pauses in which the user has the rig, and the   *)
(* guard that keeps the mount from tracking into its pier.                  *)
(*                                                                          *)
(* Time is the target's hour angle, in steps much longer than the polls of  *)
(* the waits and of the guard: they come before the next step.  Commands    *)
(* that race each other and the end of the session are SequenceControl's.   *)
(***************************************************************************)
EXTENDS Integers, Sequences

CONSTANTS
  Rows,       \* the plan's rows: filter, count, length of a frame
  Batch,      \* ExposurePlan.batch, rotating
  Every,      \* DitherTrigger.every
  Policies,   \* recovery policies a sequence may have, by kind of failure
  Before, Last, \* steps to the meridian at the start; from here on time is not told apart
  After,      \* FlipTrigger.after
  Margin,     \* GUARD_MARGIN
  MaxFaults, MaxHands  \* bounds: failures; what the user does

Filters == {Rows[i].filter : i \in DOMAIN Rows}
Always == 99  \* retries: None

\* Assumed in CameraJobs.
ImagingAssumption ==
  /\ Rows \in Seq([filter : STRING \ {"none"}, count : Nat, length : Nat \ {0}])
  /\ Policies \subseteq [{"solve", "device", "flip", "guiding", "focus", "clouds"} ->
        [retries : Nat, wait : Nat, then : {"skip", "skip_target", "end", "pause"}]]
  /\ {Batch, Every} \subseteq Nat \ {0} /\ {Before, After, Margin} \subseteq Nat
  /\ After + Margin < Last

VARIABLES
  sky,     \* the hour angle; whether dawn, the end of the conditions, has come
  mount,   \* on the target; on the side of the pier it had before the meridian; tracking
  wheel,   \* the filter in the wheel
  cp,      \* the checkpoint: the plan's progress, the triggers' memory, where it pointed
  run,     \* the runner
  policy,  \* Sequence.recovery
  bounds   \* faults and acts of the user so far; what they excuse

vars == <<sky, mount, wheel, cp, run, policy, bounds>>

\* Where a slew to the target leaves the mount now.
Side == IF sky.ha >= 0 THEN "after" ELSE "before"
There(side) == [on |-> TRUE, side |-> side, tracking |-> "on"]

Init ==
  /\ sky \in [ha : -Before..0, dawn : {FALSE}]
  /\ mount = [on |-> FALSE, side |-> Side, tracking |-> "off"]
  /\ wheel \in Filters
  /\ cp = [done |-> [i \in DOMAIN Rows |-> 0], row |-> 0, inBatch |-> 0, sinceDither |-> 0,
           focused |-> "none", pointed |-> "no"]
  /\ run = [at |-> "step", step |-> "center", left |-> 1, tries |-> 0, slewed |-> FALSE,
            before |-> Side, filter |-> "none", then |-> "none", asked |-> FALSE,
            flipping |-> FALSE, guarded |-> FALSE]
  /\ policy \in Policies
  /\ bounds = [faults |-> 0, hands |-> 0, lapsed |-> FALSE, late |-> FALSE]

At(a) == run.at = a
Doing(s) == At("step") /\ run.step = s
Lapses(lapsed) ==
  /\ bounds.faults < MaxFaults
  /\ bounds' = [bounds EXCEPT !.faults = @ + 1, !.lapsed = @ \/ lapsed]
Fault == Lapses(FALSE)
Hand(lapsed) ==
  /\ bounds.hands < MaxHands
  /\ bounds' = [bounds EXCEPT !.hands = @ + 1, !.lapsed = @ \/ lapsed]

----------------------------------------------------------------------------
(* What comes next *)

Modulo(i) == i % Len(Rows)

\* (Mutant) The search begins at the row whose batch is over.
NextRow_Again ==
  LET todo == {i \in DOMAIN Rows : cp.done[i] < Rows[i].count}
      first == IF cp.row = 0 THEN 1 ELSE cp.row
  IN IF todo = {} THEN 0
     ELSE IF cp.row \in todo /\ cp.inBatch < Batch THEN cp.row
     ELSE CHOOSE i \in todo : \A j \in todo : Modulo(i - first) <= Modulo(j - first)

\* next_row: the row whose batch is not over, or the first left after it; 0 for none.
NextRow ==
  LET todo == {i \in DOMAIN Rows : cp.done[i] < Rows[i].count} IN
  IF todo = {} THEN 0
  ELSE IF cp.row \in todo /\ cp.inBatch < Batch THEN cp.row
  ELSE CHOOSE i \in todo : \A j \in todo : Modulo(i - 1 - cp.row) <= Modulo(j - 1 - cp.row)

\* count_frame, and what the triggers count.
CountFrame(i) ==
  [cp EXCEPT !.done[i] = @ + 1, !.sinceDither = @ + 1, !.row = i,
             !.inBatch = IF cp.row # i \/ @ >= Batch THEN 1 ELSE @ + 1]

\* A frame begun now would end past the flip point of a target pointed east.
PastFlip(row) == cp.pointed = "east" /\ sky.ha + row.length > After

\* What _plan does for the next frame: its filter, the flip or the wait for it, the other
\* triggers, and the frame.
Due ==
  LET row == Rows[NextRow] IN
  IF row.filter # run.filter THEN "filter"
  ELSE IF PastFlip(row) THEN IF sky.ha < 0 THEN "meridian" ELSE "flip"
  ELSE IF cp.sinceDither >= Every THEN "dither"
  ELSE IF row.filter # cp.focused THEN "focus"
  ELSE "frame"

Length(step) == IF step = "frame" THEN Rows[NextRow].length ELSE 1

Ends(how) == run' = [run EXCEPT !.at = how, !.flipping = FALSE]
Tries(step, tries) ==
  [run EXCEPT !.at = "step", !.step = step, !.left = Length(step), !.tries = tries,
              !.slewed = FALSE, !.before = mount.side]

PlanDone ==
  /\ At("safe") /\ NextRow = 0
  /\ Ends("over")
  /\ UNCHANGED <<sky, mount, wheel, cp, policy, bounds>>

\* The safe point before a frame, and what follows at once.
SafePoint ==
  /\ At("safe") /\ NextRow # 0 /\ ~run.asked
  /\ IF sky.dawn THEN Ends("over") /\ UNCHANGED cp
     ELSE IF Due = "meridian"
     THEN run' = [run EXCEPT !.at = "meridian", !.left = 1] /\ UNCHANGED cp
     ELSE /\ run' = [Tries(Due, 0) EXCEPT !.flipping = Due = "flip"]
          /\ cp' = IF Due = "dither" THEN [cp EXCEPT !.sinceDither = 0] ELSE cp
  /\ UNCHANGED <<sky, mount, wheel, policy, bounds>>

\* The safe points of a wait: dawn ends it, and its end goes on.
WaitOver ==
  /\ At("wait") /\ ~run.asked /\ (sky.dawn \/ run.left = 0)
  /\ IF sky.dawn THEN Ends("over") ELSE run' = Tries(run.step, run.tries)
  /\ UNCHANGED <<sky, mount, wheel, cp, policy, bounds>>

MeridianOver ==
  /\ At("meridian") /\ ~run.asked /\ (sky.dawn \/ run.left = 0)
  /\ IF sky.dawn THEN Ends("over") ELSE run' = [run EXCEPT !.at = "safe"]
  /\ UNCHANGED <<sky, mount, wheel, cp, policy, bounds>>

----------------------------------------------------------------------------
(* Steps *)

\* A policy gives the step up.  A skipped autofocus counts for its trigger.
Skips ==
  IF run.step \in {"frame", "filter"} THEN Ends("over") /\ UNCHANGED cp
  ELSE /\ Ends("safe")
       /\ cp' = IF run.step = "focus" THEN [cp EXCEPT !.focused = run.filter] ELSE cp

\* _attempt when a step fails.
Fails(kind) ==
  LET p == policy[kind] IN
  IF p.retries = Always \/ run.tries < p.retries
  THEN /\ run' = [run EXCEPT !.at = "wait", !.left = p.wait, !.tries = @ + 1]
       /\ UNCHANGED cp
  ELSE \/ p.then = "skip" /\ Skips
       \/ p.then \in {"skip_target", "end"} /\ Ends("over") /\ UNCHANGED cp
       \/ /\ p.then = "pause"
          /\ run' = [run EXCEPT !.at = "paused", !.then = "wait", !.left = 0, !.tries = 0]
          /\ UNCHANGED cp

\* The mount arrives; it may stay on its side of the pier (and tracks again, with a guard
\* that acts once), or fail to go.
Slew ==
  /\ run.step \in {"center", "flip"} /\ At("step") /\ ~run.slewed
  /\ \/ mount' = There(Side) /\ run' = [run EXCEPT !.slewed = TRUE] /\ UNCHANGED <<cp, bounds>>
     \/ /\ run.step = "flip" /\ Lapses(run.guarded) /\ mount' = There(mount.side)
        /\ run' = [run EXCEPT !.slewed = TRUE] /\ UNCHANGED cp
     \/ Fault /\ mount' = [mount EXCEPT !.on = FALSE] /\ Fails("device")
  /\ UNCHANGED <<sky, wheel, policy>>

NotSolved ==
  /\ run.step \in {"center", "flip"} /\ At("step") /\ run.slewed
  /\ Fault /\ Fails("solve")
  /\ UNCHANGED <<sky, mount, wheel, policy>>

Pointed ==
  /\ run' = [run EXCEPT !.at = "safe", !.flipping = FALSE, !.guarded = FALSE]
  /\ cp' = [cp EXCEPT !.pointed = IF sky.ha < 0 THEN "east" ELSE "west"]

\* (Mutant) The side of the pier after a flip is not looked at.
PointingEnds_Unseen ==
  /\ run.step \in {"center", "flip"} /\ At("step") /\ run.slewed
  /\ Pointed
  /\ bounds' = [bounds EXCEPT !.late = @ \/ (run.step = "center" /\ mount.side # Side)]
  /\ UNCHANGED <<sky, mount, wheel, policy>>

\* The mount points at the target.  A flip looks at the side of the pier it came to.
PointingEnds ==
  /\ run.step \in {"center", "flip"} /\ At("step") /\ run.slewed
  /\ IF run.step = "flip" /\ mount.side = run.before
     THEN Fails("flip") /\ UNCHANGED bounds
     ELSE /\ Pointed
          /\ bounds' = [bounds EXCEPT !.late = @ \/ mount.side # Side]
  /\ UNCHANGED <<sky, mount, wheel, policy>>

FilterEnds ==
  /\ Doing("filter")
  /\ LET filter == Rows[NextRow].filter IN
     \/ wheel' = filter /\ run' = [run EXCEPT !.at = "safe", !.filter = filter]
        /\ UNCHANGED <<cp, bounds>>
     \/ Fault /\ wheel' \in Filters /\ Fails("device")
  /\ UNCHANGED <<sky, mount, policy>>

DitherEnds ==
  /\ Doing("dither")
  /\ \/ Ends("safe") /\ UNCHANGED <<cp, bounds>>
     \/ Fault /\ Fails("guiding")
  /\ UNCHANGED <<sky, mount, wheel, policy>>

\* (Mutant) What was focused is not remembered.
FocusEnds_Forgets ==
  /\ Doing("focus")
  /\ \/ Ends("safe") /\ UNCHANGED <<cp, bounds>>
     \/ Fault /\ Fails("focus")
  /\ UNCHANGED <<sky, mount, wheel, policy>>

FocusEnds ==
  /\ Doing("focus")
  /\ \/ Ends("safe") /\ cp' = [cp EXCEPT !.focused = run.filter] /\ UNCHANGED bounds
     \/ Fault /\ Fails("focus")
  /\ UNCHANGED <<sky, mount, wheel, policy>>

\* A frame that shows clouds, or lost its guide star, does not count.
FrameEnds ==
  /\ Doing("frame") /\ run.left = 0
  /\ \/ Ends("safe") /\ cp' = CountFrame(NextRow) /\ UNCHANGED bounds
     \/ Fault /\ \E kind \in {"clouds", "guiding", "device"} : Fails(kind)
  /\ UNCHANGED <<sky, mount, wheel, policy>>

----------------------------------------------------------------------------
(* Pauses *)

\* Runner.pause: at the next safe point, or by dropping the step at once.
Pause ==
  /\ run.at \in {"step", "wait", "meridian"} /\ ~run.asked
  /\ Hand(FALSE)
  /\ run' = [run EXCEPT !.asked = TRUE]
  /\ UNCHANGED <<sky, mount, wheel, cp, policy>>

Paused ==
  /\ run.at \in {"safe", "wait", "meridian"} /\ run.asked /\ NextRow # 0
  /\ run' = [run EXCEPT !.at = "paused", !.then = run.at]
  /\ UNCHANGED <<sky, mount, wheel, cp, policy, bounds>>

\* A frame is chosen again; another step is tried again.  A slew is aborted on its way.
PauseNow ==
  /\ At("step") /\ ~run.asked
  /\ Hand(FALSE)
  /\ run' = [run EXCEPT !.at = "paused", !.asked = TRUE, !.left = 0, !.tries = 0,
                        !.then = IF run.step = "frame" THEN "safe" ELSE "wait"]
  /\ IF run.step \in {"center", "flip"} /\ ~run.slewed
     THEN \E t \in {"on", "off"} : mount' = [mount EXCEPT !.on = FALSE, !.tracking = t]
     ELSE UNCHANGED mount
  /\ UNCHANGED <<sky, wheel, cp, policy>>

\* The user has the rig: turns the wheel, goes to the target, has the mount track again.
Uses ==
  /\ At("paused")
  /\ \/ Hand(FALSE) /\ wheel' \in Filters \ {wheel} /\ UNCHANGED mount
     \/ Hand(FALSE) /\ mount' = There(Side) /\ UNCHANGED wheel
     \/ /\ mount.on /\ mount.tracking # "on" /\ Hand(TRUE)
        /\ mount' = [mount EXCEPT !.tracking = "on"] /\ UNCHANGED wheel
  /\ UNCHANGED <<sky, cp, run, policy>>

\* (Mutant) The wheel is trusted after a pause.
Resume_Trusts ==
  /\ At("paused")
  /\ run' = [run EXCEPT !.at = run.then, !.then = "none", !.asked = FALSE]
  /\ UNCHANGED <<sky, mount, wheel, cp, policy, bounds>>

\* Someone may have used the rig meanwhile: the filter is not known.
Resume ==
  /\ At("paused")
  /\ run' = [run EXCEPT !.at = run.then, !.then = "none", !.asked = FALSE, !.filter = "none"]
  /\ UNCHANGED <<sky, mount, wheel, cp, policy, bounds>>

----------------------------------------------------------------------------
(* The guard, and time *)

GuardDue ==
  /\ ~At("over") /\ ~run.flipping /\ ~run.guarded
  /\ cp.pointed = "east" /\ sky.ha > After + Margin

\* _guard: once per pointing, whether tracking stops or not.
Guard ==
  /\ GuardDue
  /\ run' = [run EXCEPT !.guarded = TRUE]
  /\ \/ mount' = [mount EXCEPT !.tracking = "guard"] /\ UNCHANGED bounds
     \/ Lapses(TRUE) /\ UNCHANGED mount
  /\ UNCHANGED <<sky, wheel, cp, policy>>

\* Time passes while the run waits for something; steps end in time.
Tick ==
  /\ ~GuardDue
  /\ At("paused") \/ (run.at \in {"step", "wait", "meridian"} /\ run.left > 0)
  /\ sky.ha < Last \/ run.left > 0
  /\ sky' = [sky EXCEPT !.ha = IF @ < Last THEN @ + 1 ELSE @]
  /\ run' = [run EXCEPT !.left = IF @ > 0 /\ ~At("paused") THEN @ - 1 ELSE @]
  /\ UNCHANGED <<mount, wheel, cp, policy, bounds>>

Dawn ==
  /\ ~sky.dawn /\ ~At("over")
  /\ sky' = [sky EXCEPT !.dawn = TRUE]
  /\ UNCHANGED <<mount, wheel, cp, run, policy, bounds>>

Steps == \/ PlanDone \/ SafePoint \/ WaitOver \/ MeridianOver \/ Slew \/ NotSolved \/ PointingEnds
         \/ FilterEnds \/ DitherEnds \/ FocusEnds \/ FrameEnds \/ Paused \/ Guard

Next == Steps \/ Tick \/ Dawn \/ Pause \/ PauseNow \/ Uses \/ Resume

Spec == Init /\ [][Next]_vars

\* Steps end, and time passes.
FairSpec == Spec /\ WF_vars(Steps) /\ WF_vars(Tick)

----------------------------------------------------------------------------
(* Properties *)

TypeOK ==
  /\ sky \in [ha : -Before..Last, dawn : BOOLEAN]
  /\ mount \in [on : BOOLEAN, side : {"before", "after"}, tracking : {"on", "off", "guard"}]
  /\ wheel \in Filters
  /\ cp.pointed \in {"no", "east", "west"} /\ cp.focused \in Filters \cup {"none"}
  /\ run.at \in {"safe", "step", "wait", "meridian", "paused", "over"}
  /\ run.filter \in Filters \cup {"none"}

BeginsFrame == run'.at = "step" /\ run'.step = "frame" /\ ~At("step")

\* A frame is begun in the dark.  One that is not tried again is begun through its row's
\* filter, whoever turned the wheel in a pause, ends before the flip point unless the
\* mount has flipped, and never follows a stop of the guard (ADR 0033, "Resuming flips
\* first").
FramesAreRight ==
  [][BeginsFrame =>
       /\ ~sky.dawn
       /\ At("safe") => /\ wheel = Rows[NextRow].filter /\ mount.tracking # "guard"
                        /\ cp.pointed = "east" => sky.ha + Rows[NextRow].length <= After]_vars

\* Rows take turns: of two that have frames left, neither is more than a batch ahead; and
\* a plan never takes more than its frames.
RowsTakeTurns ==
  /\ \A i \in DOMAIN Rows : cp.done[i] <= Rows[i].count
  /\ \A i, j \in DOMAIN Rows :
       cp.done[i] < Rows[i].count /\ cp.done[j] < Rows[j].count => cp.done[i] - cp.done[j] <= Batch

\* The mount tracks the target, unflipped, far past the point where it should flip.
Endangered ==
  /\ mount.on /\ mount.side = "before" /\ mount.tracking = "on" /\ ~At("over")
  /\ sky.ha > After + Margin

\* The guard keeps the mount from its pier, unless it failed or the user had the mount
\* track on, for a target that was noted as pointed before the meridian, while no flip is
\* under way.
GuardHolds ==
  Endangered => GuardDue \/ bounds.lapsed \/ bounds.late \/ cp.pointed = "no" \/ run.flipping

\* A run never goes round in circles between two frames: it ends, or waits for its user.
Rests == run.at \in {"paused", "over"}
RunsOn == []<>Rests

\* Disagreements.  runner.py:741: "paused included: a mount tracking into its
\* pier is what must never happen".  A flip that is paused counts as under way for the guard; a
\* centring that crosses the meridian is noted as pointed west; one that is paused after
\* its slew is not noted at all.
NeverIntoThePier == Endangered => GuardDue \/ bounds.lapsed

\* model.py:386: "Before each frame: a frame that would end past the flip point waits for
\* it, or flips first": one that is tried again does not.
FlipsFirst ==
  [][BeginsFrame /\ cp.pointed = "east" => sky.ha + Rows[NextRow].length <= After]_vars

\* runner.py:112: "the wheel already holds its filter".
WheelHolds == [][BeginsFrame => wheel = Rows[NextRow].filter]_vars

\* rig.py:498, "the mount is still on the ... side": not when an earlier try, or the user,
\* flipped it.
StillMeansBefore ==
  At("step") /\ run.step = "flip" /\ run.slewed /\ mount.side = run.before => mount.side = "before"
=============================================================================
