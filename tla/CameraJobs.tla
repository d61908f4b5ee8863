------------------------------ MODULE CameraJobs ------------------------------
(***************************************************************************)
(* The jobs that hold the main camera: the solving jobs (a solve, centring, *)
(* polar alignment), flats, autofocus, and a sequence that images its       *)
(* target.  The locks let one of them run at a time and they share no other *)
(* state, so that a behaviour here is one of one module, on a rig where the *)
(* others rest: `at' says which.  A move of the focuser by hand, which does *)
(* not hold the camera, is one of autofocus' module.                        *)
(***************************************************************************)
EXTENDS Integers

CONSTANTS
  Parts,   \* the modules that may be at work
  Ring, Target, Aimed, Errors, Attempts, Retries, Turn, MaxTurns, MaxKept, PointingFaults,
  Panels, Count, Shortest, Longest, First, Black, MaxMisses, Sunset, Odd, FlatsFaults,
  Rows, Batch, Every, Policies, Before, Last, After, Margin, ImagingFaults, MaxHands,
  Travel, Stride, Points, Extension, Setups, Targets, CanAbort, FocusFaults

VARIABLES
  at,
  mount, binning, kept, last, pointing, pointingFaults,
  sky, flats, files, flatsFaults,
  night, pier, wheel, cp, imaging, policy, bounds,
  setup, focuser, focusing, focusFaults

pointingVars == <<mount, binning, kept, last, pointing, pointingFaults>>
flatsVars == <<sky, flats, files, flatsFaults>>
imagingVars == <<night, pier, wheel, cp, imaging, policy, bounds>>
focusVars == <<setup, focuser, focusing, focusFaults>>
vars == <<at, pointingVars, flatsVars, imagingVars, focusVars>>

P == INSTANCE Pointing WITH run <- pointing, faults <- pointingFaults, MaxFaults <- PointingFaults
L == INSTANCE Flats WITH run <- flats, faults <- flatsFaults, MaxFaults <- FlatsFaults,
                         Filters <- Panels
I == INSTANCE Imaging WITH run <- imaging, sky <- night, mount <- pier,
                           MaxFaults <- ImagingFaults
A == INSTANCE Autofocus WITH run <- focusing, faults <- focusFaults, MaxFaults <- FocusFaults,
                             Step <- Stride

ASSUME CameraJobsAssumption ==
  /\ Parts \subseteq {"pointing", "flats", "imaging", "focusing"}
  /\ P!PointingAssumption /\ L!FlatsAssumption /\ I!ImagingAssumption /\ A!AutofocusAssumption

\* The modules that rest are in one of their initial states.
Init ==
  /\ at \in Parts
  /\ P!Init /\ L!Init /\ I!Init /\ A!Init
  /\ at # "flats" => sky.phase = "dusk"
  /\ at # "imaging" => /\ night.ha = 0 /\ wheel = Rows[1].filter
                       /\ policy = CHOOSE p \in Policies : TRUE
  /\ at # "focusing" => /\ setup = CHOOSE s \in Setups : TRUE
                        /\ focuser.pos = 0 /\ focuser.optics = 0

Pointing == at = "pointing" /\ P!Next /\ UNCHANGED <<at, flatsVars, imagingVars, focusVars>>
Flats == at = "flats" /\ L!Next /\ UNCHANGED <<at, pointingVars, imagingVars, focusVars>>
Imaging == at = "imaging" /\ I!Next /\ UNCHANGED <<at, pointingVars, flatsVars, focusVars>>
Focusing == at = "focusing" /\ A!Next /\ UNCHANGED <<at, pointingVars, flatsVars, imagingVars>>

Next == Pointing \/ Flats \/ Imaging \/ Focusing

Spec == Init /\ [][Next]_vars

\* A job's own steps, and those of what it waits for.
JobSteps ==
  \/ at = "pointing" /\ P!Steps /\ UNCHANGED <<at, flatsVars, imagingVars, focusVars>>
  \/ at = "flats" /\ L!Steps /\ UNCHANGED <<at, pointingVars, imagingVars, focusVars>>
  \/ at = "imaging" /\ I!Steps /\ UNCHANGED <<at, pointingVars, flatsVars, focusVars>>
  \/ at = "focusing" /\ A!Steps /\ UNCHANGED <<at, pointingVars, flatsVars, imagingVars>>
WorldSteps ==
  \/ at = "flats" /\ L!SunMoves /\ UNCHANGED <<at, pointingVars, imagingVars, focusVars>>
  \/ at = "imaging" /\ I!Tick /\ UNCHANGED <<at, pointingVars, flatsVars, focusVars>>
  \/ at = "focusing" /\ A!MotorTurns /\ UNCHANGED <<at, pointingVars, flatsVars, imagingVars>>

\* The fairness of the modules, of which a behaviour has one.
FairSpec == Spec /\ WF_vars(JobSteps) /\ WF_vars(WorldSteps)

----------------------------------------------------------------------------

\* A centring that succeeds has centred the target, the axis that polar alignment shows
\* follows the knobs, and the search finds the exposure of a steady panel.
FoundIsThere == P!CenteredIsTrue /\ P!AxisFollows /\ L!SearchFinds

\* A sync leaves the mount knowing where it points (unless it moved between a kept frame and
\* its position).
SyncIsTrue == P!SyncIsTrue

\* The frames of a sequence are begun in the dark, through their filter, and before the
\* flip point or flipped.
FramesAreRight == I!FramesAreRight

\* While it images the guard keeps the mount from tracking into its pier, and the rows of
\* its plan take turns.
ImagingHolds == I!GuardHolds /\ I!RowsTakeTurns

\* The points of a sweep were measured with the optics where their positions put them.
PointsAreTrue == A!PointsAreTrue

\* An autofocus that ends leaves the focuser at the best focus, or where it started.
ComesBack == A!ComesBack

\* Every solving job ends; a flats job does, its filters with an outcome and the frame at
\* hand deleted or saved; a sequence does, or waits for its user; and a move of the focuser
\* and an autofocus do.
Underway ==
  \/ at = "pointing" /\ P!ToEnd
  \/ at = "flats" /\ ~L!At("idle")
  \/ at = "imaging"
  \/ at = "focusing" /\ ~A!At("idle")
Rested ==
  \/ at = "pointing" /\ P!Idle
  \/ at = "flats" /\ L!Ended
  \/ at = "imaging" /\ I!Rests
  \/ at = "focusing" /\ A!At("idle")
JobsEnd == Underway ~> Rested

\* What the repository says and the code does not do: a kept frame's position is where it was
\* taken, and no file of a frame that was not kept is left.
KeptFrameIsTrue == P!KeptFrameIsTrue
NoFileLeft == L!NoFileLeft
=============================================================================
