----------------------------- MODULE SequenceRuns -----------------------------
(***************************************************************************)
(* The two sides of the run of a sequence: its control by the user and      *)
(* PHD2, and its progress through crashes.  Control abstracts from what the *)
(* steps have done, and the checkpoint from who holds the rig, so that the  *)
(* models share no state and a behaviour here is one of either: `side' says *)
(* which.                                                                   *)
(***************************************************************************)
EXTENDS Naturals

CONSTANTS
  None,
  EndSteps, UserRoles, DiskMayFail,
  Last, Frames, Rounds, MaxRestarts, MaxCrashes, MaxSpoiled

VARIABLES
  side,
  rig, startPc, guideCancel, task, cancel, busy, rstate, pauseAsked, stopAsked, woken,
  await, doing, dropped, endLeft,
  disk, cp, pc, at, next, life, crashes, resumes, stored, spoiled, endRan, left, gone

controlVars ==
  <<rig, startPc, guideCancel, task, cancel, busy, rstate, pauseAsked, stopAsked, woken,
    await, doing, dropped, endLeft>>
nightVars ==
  <<disk, cp, pc, at, next, life, crashes, resumes, stored, spoiled, endRan, left, gone>>
vars == <<side, controlVars, nightVars>>

C == INSTANCE SequenceControl WITH pc <- await
K == INSTANCE Checkpoints

ASSUME SequenceRunsAssumption == C!ControlAssumption /\ K!CheckpointsAssumption

Init == side \in {"control", "night"} /\ C!Init /\ K!Init

Control == side = "control" /\ C!Next /\ UNCHANGED <<side, nightVars>>
Night == side = "night" /\ K!Next /\ UNCHANGED <<side, controlVars>>

Next == Control \/ Night

Spec == Init /\ [][Next]_vars

\* The fairness of each module.
FairSpec ==
  /\ Spec
  /\ WF_controlVars(side = "control" /\ C!RunStep)
  /\ WF_controlVars(side = "control" /\ C!Phd2Step)
  /\ WF_nightVars(side = "night" /\ K!RunStep) /\ WF_nightVars(side = "night" /\ K!Restart)

----------------------------------------------------------------------------

\* The run works only while it holds the whole rig, lends all of it while it is paused,
\* and leaves nothing behind when it ended; nor does guiding hold what it has no use for.
RigIsHeld == C!WorkHoldsRig /\ C!PausedLends /\ C!NothingLeft /\ C!HoldHasReason

\* A frame is repeated only for a crash, at most one for each, or because its own try came
\* to nothing after it was stored; none is left out; the run's task removes the checkpoint
\* after the end of the session only.
NightIsWhole == K!RepeatedPerCrash /\ K!NothingLeftOut /\ K!EndBeforeOver

\* Every command of the user takes effect.
CommandsTakeEffect == C!CommandsTakeEffect

\* Crashes and restarts do not show in the progress that is kept.
ImplementsNight == K!ImplementsNight

\* A run ends, once it is cancelled or at its end, and whatever crashes come.
RunsEnd == C!RunEnds /\ K!NightEnds
=============================================================================
