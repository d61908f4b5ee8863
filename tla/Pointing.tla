------------------------------- MODULE Pointing -------------------------------
(***************************************************************************)
(* Plate solving at work (nocs.pointing.solve, pointing.center,             *)
(* align.service, and what they ask of mount.service): a frame is taken and *)
(* solved, and tells the mount where it points; centring goes to a target   *)
(* and corrects until a frame lands there; polar alignment measures the RA  *)
(* axis with three frames and then follows the user's turns of the knobs.   *)
(* Each is one job holding the camera and the mount.                        *)
(*                                                                          *)
(* Directions are a ring, for RA: 0..Ring-1; Dec, horizons and the geometry *)
(* of the axis are left out, a knob's turn moves what the camera sees by as *)
(* much.  The mount says where it points, and is off by an error that a     *)
(* sync removes and a slew may change (a jolt, a flip).                     *)
(***************************************************************************)
EXTENDS Integers, Sequences

CONSTANTS
  Ring, Target, Aimed,
  Errors,      \* of the mount at first
  Attempts,    \* CenterOptions.attempts
  Retries,     \* RETRIES
  Turn,        \* PolarOptions.step
  MaxTurns,    \* bound: turns of a knob in a polar alignment
  MaxKept,     \* bound: frames on their way behind the preview
  MaxFaults    \* bound: what fails to solve, is refused, jolted or drifts

\* Assumed in CameraJobs.
PointingAssumption ==
  /\ Ring \in Nat \ {0} /\ {Target, Aimed, Turn} \cup Errors \subseteq 0..(Ring - 1)
  /\ Attempts \in Nat \ {0} /\ Retries \in Nat /\ {MaxTurns, MaxKept, MaxFaults} \subseteq Nat

VARIABLES
  mount,     \* where it says it points and where it does, J2000; is it tracking?
  binning,   \* of the camera: 1, or 2 for a job's frame
  kept,      \* a frame on its way behind the preview, and then solved by a job without locks
  last,      \* PointingService._last, unless the mount is synced to it
  run,       \* the job that holds the camera and the mount
  faults

vars == <<mount, binning, kept, last, run, faults>>

None == [job |-> "none", at |-> "idle", rebin |-> FALSE, sync |-> FALSE, goal |-> 0, aim |-> 0,
         says |-> 0, said |-> 0, frame |-> 0, tried |-> 0, solved |-> 0, seen |-> 0, missed |-> 0,
         measured |-> FALSE, knob |-> 0, axis |-> 0, previous |-> 0, finish |-> FALSE,
         outcome |-> "none", jolts |-> 0]
NoFrame == [at |-> "none", n |-> 0, says |-> 0, said |-> 0, frame |-> 0]

Plus(a, b) == (a + b) % Ring
Minus(a, b) == (a - b) % Ring

Init ==
  /\ \E e \in Errors : mount = [says |-> Aimed, points |-> Plus(Aimed, e), tracking |-> TRUE]
  /\ binning = 1 /\ kept = NoFrame /\ last = NoFrame /\ run = None /\ faults = 0

Fault == faults < MaxFaults /\ faults' = faults + 1
At(s) == run.at = s
Idle == At("idle")

----------------------------------------------------------------------------
(* Solving a frame: solve_frame *)

Over(r, outcome) == [r EXCEPT !.at = "over", !.outcome = outcome]

\* The job's next frame.  The mount's position is read first, and the camera binned.
Begin(r) == [r EXCEPT !.at = IF r.rebin THEN "bin" ELSE "take", !.says = mount.says]

Bin ==
  /\ At("bin")
  /\ \/ binning' = 2 /\ run' = [run EXCEPT !.at = "take"] /\ UNCHANGED faults
     \/ Fault /\ run' = Over(run, "failed") /\ UNCHANGED binning
  /\ UNCHANGED <<mount, kept, last>>

\* take: the frame sees where the mount points, which then says (said) where that is.
Take ==
  /\ At("take")
  /\ \/ /\ run' = [run EXCEPT !.at = IF run.rebin THEN "unbin" ELSE "solve",
                              !.frame = mount.points, !.said = mount.says]
        /\ UNCHANGED faults
     \/ /\ Fault
        /\ run' = IF run.rebin THEN [run EXCEPT !.at = "unbin", !.outcome = "failed"]
                  ELSE Over(run, "failed")
  /\ UNCHANGED <<mount, binning, kept, last>>

\* _restore_binning: an error is only logged.
Unbin ==
  /\ At("unbin")
  /\ \/ binning' = 1 /\ UNCHANGED faults
     \/ Fault /\ UNCHANGED binning
  /\ run' = IF run.outcome = "running" THEN [run EXCEPT !.at = "solve"]
            ELSE [run EXCEPT !.at = "over"]
  /\ UNCHANGED <<mount, kept, last>>

----------------------------------------------------------------------------
(* What each job does with a frame *)

\* (Mutant) The aim is corrected from the target instead of from the last aim.
Corrected_FromTarget(r, frame) == Plus(r.goal, Minus(r.goal, frame))

\* _corrected: the last aim, moved by what the frame missed the target by.
Corrected(r, frame) == Plus(r.aim, Minus(r.goal, frame))

\* CenteringService._center, after a frame that solved, and one that did not.
Centred(r) ==
  LET tried == [r EXCEPT !.tried = @ + 1, !.solved = @ + 1] IN
  IF r.frame = r.goal THEN Over(tried, "succeeded")
  ELSE IF tried.tried = Attempts THEN Over(tried, "failed")
  ELSE [tried EXCEPT !.at = "slew", !.aim = IF r.sync THEN @ ELSE Corrected(r, r.frame)]

CentreMissed(r) ==
  LET tried == [r EXCEPT !.tried = @ + 1] IN
  IF tried.tried = Attempts THEN Over(tried, "failed") ELSE Begin(tried)

\* (Mutant) Finishing is not looked at.
Adjusting_GoesOn(r) == Begin(r)

\* PolarAlignmentService._adjust's loop: finish is looked at between frames.
Adjusting(r) ==
  IF r.finish THEN [r EXCEPT !.at = "back", !.aim = r.goal] ELSE Begin(r)

\* _measure: three points, each after a turn of the axis; and _adjust: each frame, compared with
\* the one before, tells how far the knobs were turned.
Aligned(r) ==
  IF ~r.measured
  THEN LET seen == [r EXCEPT !.seen = @ + 1, !.missed = 0] IN
       IF seen.seen < 3 THEN [seen EXCEPT !.at = "slew", !.aim = Plus(@, Turn)]
       ELSE Adjusting([seen EXCEPT !.measured = TRUE, !.axis = r.knob, !.previous = r.frame])
  ELSE Adjusting([r EXCEPT !.axis = Plus(@, Minus(r.frame, r.previous)), !.previous = r.frame])


AlignMissed(r) ==
  IF r.measured THEN Adjusting(r)
  ELSE IF r.missed >= Retries THEN Over(r, "failed")
  ELSE Begin([r EXCEPT !.missed = @ + 1])

Goes(r) == CASE r.job = "solve" -> Over(r, "succeeded")
             [] r.job = "center" -> Centred(r)
             [] r.job = "align" -> Aligned(r)

Missed(r) == CASE r.job = "solve" -> Over(r, "failed")
               [] r.job = "center" -> CentreMissed(r)
               [] r.job = "align" -> AlignMissed(r)

\* The frame is measured and solved; a solver that cannot work at all ends the job (FATAL).
Solve ==
  /\ At("solve")
  /\ \/ /\ last' = [NoFrame EXCEPT !.at = "there", !.says = run.says, !.said = run.said,
                                      !.frame = run.frame]
        /\ run' = IF run.sync THEN [run EXCEPT !.at = "sync"] ELSE Goes(run)
        /\ UNCHANGED faults
     \/ Fault /\ run' \in {Missed(run), Over(run, "failed")} /\ UNCHANGED last
  /\ UNCHANGED <<mount, binning, kept>>

\* MountService.sync: refused unless the mount tracks.
Sync ==
  /\ At("sync")
  /\ \/ /\ mount.tracking
        /\ mount' = [mount EXCEPT !.says = run.frame]
        /\ last' = IF last.frame = run.frame /\ last.says = run.says THEN NoFrame ELSE last
        /\ run' = Goes(run) /\ UNCHANGED faults
     \/ ~mount.tracking /\ run' = Over(run, "failed") /\ UNCHANGED <<mount, last, faults>>
     \/ Fault /\ run' = Over(run, "failed") /\ UNCHANGED <<mount, last>>
  /\ UNCHANGED <<binning, kept>>

\* MountService.slew and settle: the mount arrives, tracking, maybe jolted.
Slewed(aim, jolt) ==
  [says |-> aim, points |-> Plus(aim, Plus(Minus(mount.points, mount.says), jolt)), tracking |-> TRUE]

Slew ==
  /\ run.at \in {"slew", "back"}
  /\ \/ /\ \/ mount' = Slewed(run.aim, 0) /\ UNCHANGED faults
           \/ Fault /\ mount' = Slewed(run.aim, 1)
        /\ LET r == [run EXCEPT !.jolts = @ + faults' - faults]
           IN run' = IF At("back") THEN Over(r, "succeeded")
                     ELSE [r EXCEPT !.at = IF run.rebin THEN "bin" ELSE "take", !.says = run.aim]
     \/ Fault /\ run' = Over(run, "failed") /\ UNCHANGED mount
  /\ UNCHANGED <<binning, kept, last>>

Ends ==
  /\ At("over")
  /\ run' = None
  /\ UNCHANGED <<mount, binning, kept, last, faults>>

----------------------------------------------------------------------------
(* The user *)

Unheld == UNCHANGED <<mount, binning, kept, last, faults>>

StartSolve(sync, rebin) ==
  /\ Idle
  /\ run' = Begin([None EXCEPT !.job = "solve", !.sync = sync, !.rebin = rebin, !.outcome = "running"])
  /\ Unheld

StartCenter(sync) ==
  /\ Idle
  /\ run' = [None EXCEPT !.job = "center", !.at = "slew", !.sync = sync, !.goal = Target,
                         !.aim = Target, !.outcome = "running"]
  /\ Unheld

\* Polar alignment begins where the mount is, and switches tracking on.
StartAlign ==
  /\ Idle
  /\ run' = Begin([None EXCEPT !.job = "align", !.goal = mount.says, !.aim = mount.says,
                               !.outcome = "running"])
  /\ mount' = [mount EXCEPT !.tracking = TRUE]
  /\ UNCHANGED <<binning, kept, last, faults>>

Finish ==
  /\ run.job = "align" /\ run.outcome = "running" /\ run.measured /\ ~run.finish
  /\ run' = [run EXCEPT !.finish = TRUE]
  /\ Unheld

Measuring == run.job = "align" /\ run.at \notin {"over", "back"}
KnobTurned ==
  /\ Measuring /\ run.measured /\ run.knob < MaxTurns
  /\ run' = [run EXCEPT !.knob = @ + 1]
  /\ mount' = [mount EXCEPT !.points = Plus(@, 1)]
  /\ UNCHANGED <<binning, kept, last, faults>>

\* A cancelled job stops where it is: a slew where the mount is then, a frame with the binning
\* set back, unless it was just being set.
Cancel ==
  /\ run.outcome = "running" /\ run.at # "over"
  /\ run' = IF run.at = "take" /\ run.rebin THEN [run EXCEPT !.at = "unbin", !.outcome = "cancelled"]
            ELSE Over(run, "cancelled")
  /\ mount' \in {mount} \cup (IF run.at \in {"slew", "back"} THEN {Slewed(run.aim, 0)} ELSE {})
  /\ binning' \in {binning} \cup (IF At("bin") THEN {2} ELSE {})
  /\ UNCHANGED <<kept, last, faults>>

Gone == [NoFrame EXCEPT !.n = kept.n]

\* A frame of a loop or of an exposure, whose job holds the camera and not the mount.
Arrive ==
  /\ Idle /\ kept.at = "none" /\ kept.n < MaxKept
  /\ kept' = [NoFrame EXCEPT !.at = "analysing", !.n = kept.n + 1, !.said = mount.says,
                              !.frame = mount.points]
  /\ UNCHANGED <<mount, binning, last, run, faults>>

\* _preview, once the worker has analysed it: the frame is kept with where the mount says now
\* that it points, which may have moved meanwhile, by hand or by the next job.
Analysed ==
  /\ kept.at = "analysing"
  /\ kept' \in {Gone, [kept EXCEPT !.at = "there", !.says = mount.says]}
  /\ UNCHANGED <<mount, binning, last, run, faults>>

\* start_kept and solve_kept: a job without locks solves a link to it.
KeptSolved ==
  /\ kept.at = "there"
  /\ kept' = Gone
  /\ last' \in {kept, last}
  /\ UNCHANGED <<mount, binning, run, faults>>

\* (Mutant) The mount may have moved since.
SyncLast_Moved ==
  /\ Idle /\ last.at = "there" /\ mount.tracking
  /\ mount' = [mount EXCEPT !.says = last.frame]
  /\ last' = NoFrame
  /\ UNCHANGED <<binning, kept, run, faults>>

\* PointingService.sync: to the last solution, once, if the mount says it points where it did.
SyncLast ==
  /\ Idle /\ last.at = "there" /\ mount.says = last.says /\ mount.tracking
  /\ mount' = [mount EXCEPT !.says = last.frame]
  /\ last' = NoFrame
  /\ UNCHANGED <<binning, kept, run, faults>>

\* The mount by hand: a go to, a sync to where it does point, and tracking switched off.
Goto(aim) ==
  /\ Idle
  /\ mount' = Slewed(aim, 0)
  /\ UNCHANGED <<binning, kept, last, run, faults>>

SyncByHand ==
  /\ Idle /\ mount.tracking
  /\ mount' = [mount EXCEPT !.says = mount.points]
  /\ UNCHANGED <<binning, kept, last, run, faults>>

StopTracking ==
  /\ Idle
  /\ mount' = [mount EXCEPT !.tracking = FALSE]
  /\ UNCHANGED <<binning, kept, last, run, faults>>

\* The sky turns over a mount that does not track, and it knows.
Drift ==
  /\ ~mount.tracking /\ Fault
  /\ mount' = [mount EXCEPT !.says = Plus(@, 1), !.points = Plus(@, 1)]
  /\ UNCHANGED <<binning, kept, last, run>>

Steps == Bin \/ Take \/ Unbin \/ Solve \/ Sync \/ Slew \/ Ends

Next ==
  \/ Steps
  \/ \E sync, rebin \in BOOLEAN : StartSolve(sync, rebin)
  \/ \E sync \in BOOLEAN : StartCenter(sync)
  \/ StartAlign \/ Finish \/ KnobTurned \/ Cancel
  \/ Arrive \/ Analysed \/ KeptSolved \/ SyncLast
  \/ \E aim \in {Aimed, Target} : Goto(aim)
  \/ SyncByHand \/ StopTracking \/ Drift

Spec == Init /\ [][Next]_vars

\* A job's steps end: the camera, the mount and the solver answer or time out.
FairSpec == Spec /\ WF_vars(Steps)

----------------------------------------------------------------------------

Directions == 0..(Ring - 1)

TypeOK ==
  /\ mount \in [says : Directions, points : Directions, tracking : BOOLEAN]
  /\ binning \in {1, 2}
  /\ {kept, last} \subseteq [at : {"none", "analysing", "there"}, n : 0..MaxKept,
                             says : Directions, said : Directions, frame : Directions]
  /\ run.job \in {"none", "solve", "center", "align"}
  /\ run.at \in {"idle", "bin", "take", "unbin", "solve", "sync", "slew", "back", "over"}
  /\ run.tried \in 0..Attempts /\ run.seen \in 0..3 /\ run.missed \in 0..Retries

\* A centring that succeeds leaves the mount pointing at the target, and the second frame that
\* solves shows it there, or one more for each slew that changed the mount's error, wherever
\* the frames that do not solve fall (center.py:1).
CenteredIsTrue ==
  run.job = "center" =>
    /\ run.outcome = "succeeded" => mount.points = Target
    /\ run.solved = 2 + run.jolts => run.frame = Target

\* While the user turns the knobs, what the axis is said to be is behind by exactly the turns
\* since the last frame that solved, whatever frames failed in between (align/service.py:12).
AxisFollows ==
  Measuring /\ run.measured => Minus(run.knob, run.axis) = Minus(mount.points, run.previous)

\* A sync to a solution, in its job or later, leaves the mount knowing where it points, unless
\* its error has changed since the frame, or the position that came with the frame is not the
\* one it was taken at: the mount moved while the frame was analysed (solve.py:19).
Solution == IF Idle THEN last ELSE run
Unchanged(s) == Minus(s.frame, s.said) = Minus(mount.points, mount.says)
SyncIsTrue ==
  [][ ((SyncLast \/ At("sync")) /\ mount.tracking /\ mount' # mount
       /\ Unchanged(Solution) /\ Solution.says = Solution.said)
      => mount'.says = mount'.points ]_vars

\* A job ends: at once when it has a bound of frames, and polar alignment after it is told to
\* finish (align/service.py:285).
ToEnd == ~Idle /\ (run.job = "align" => run.finish)
JobEnds == ToEnd ~> Idle

\* Disagreements: "For this frame only" (solve.py:119); and "with the mount's position
\* recorded when it arrived" (solve.py:22): what is recorded is its position after the analysis,
\* and a mount that moved meanwhile passes sync's check that it has not moved.
BinningIsOnce == Idle /\ faults = 0 => binning = 1
KeptFrameIsTrue == [][SyncLast /\ Unchanged(last) => mount'.says = mount'.points]_vars
=============================================================================
