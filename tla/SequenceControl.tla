--------------------------- MODULE SequenceControl ---------------------------
(***************************************************************************)
(* Controlling the run of a sequence: the task of its job (Runner in        *)
(* nocs.sequence.runner, SequenceService, RigExecutor), the user's commands *)
(* (pause, resume, stop, cancel, guiding by hand, using the rig) and PHD2,  *)
(* which the run and the user share.                                        *)
(*                                                                          *)
(* The event loop runs one callback at a time, so a step goes from one      *)
(* await to the next; pc names the await at which the run's task waits.     *)
(* What the steps do with frames and targets is left to the other modules.  *)
(***************************************************************************)
EXTENDS GuidedRig, Naturals

CONSTANTS
  EndSteps,     \* steps of the sequence's *end*
  UserRoles,    \* roles that other commands of the user may take
  DiskMayFail   \* saving the checkpoint may fail

\* Assumed in SequenceRuns.
ControlAssumption ==
  /\ EndSteps \in Nat
  /\ UserRoles \subseteq SequenceRoles
  /\ DiskMayFail \in BOOLEAN
  /\ None \notin Owners

VARIABLES
  rig,         \* locks, PHD2 and who guides (module GuidedRig)
  startPc,     \* how far each caller's GuidingService.start is
  guideCancel, \* the guide command's job was asked to cancel
  task,        \* the task of the sequence's job
  cancel,      \* who asked that task to cancel
  busy,        \* SequenceService._job is set
  rstate,      \* Runner._state
  pauseAsked,  \* Runner._pause_asked
  stopAsked,   \* Runner._stop_asked: "no", or what it says of *end*
  woken,       \* Runner._resume is set
  pc,          \* where the run's task is
  doing,       \* what its step does
  dropped,     \* the step's cancel scope was cancelled
  endLeft      \* steps of *end* still to be tried; 0 when a stop waived them

asks == <<pauseAsked, stopAsked, woken>>
run == <<rstate, asks, pc, doing, dropped, endLeft>>
job == <<task, cancel, busy>>
guide == <<startPc, guideCancel>>
vars == <<rig, guide, job, run>>

RunStates == {"running", "pausing", "paused", "stopping", "ending", "finished"}
StepKinds == {"frame", "slew", "guide", "wait"}

TypeOK ==
  /\ rig \in Rigs
  /\ startPc \in [Callers -> {"idle", "connecting", "starting"}]
  /\ guideCancel \in BOOLEAN
  /\ task \in {"none", "created", "running"}
  /\ cancel \in {"no", "user", "guiding"}
  /\ busy \in BOOLEAN
  /\ rstate \in RunStates
  /\ pauseAsked \in BOOLEAN
  /\ stopAsked \in {"no", "end", "noEnd"}
  /\ woken \in BOOLEAN
  /\ pc \in {"none", "safe", "step", "pausing", "paused", "endSave", "end", "endStep",
             "finalSave", "draining"}
  /\ doing \in StepKinds \cup {"nothing", "stopping"}
  /\ dropped \in BOOLEAN
  /\ endLeft \in 0..EndSteps

Init ==
  /\ rig = FreshRig
  /\ startPc = [c \in Callers |-> "idle"]
  /\ guideCancel = FALSE
  /\ task = "none"
  /\ cancel = "no"
  /\ busy = FALSE
  /\ rstate = "finished"
  /\ pauseAsked = FALSE
  /\ stopAsked = "no"
  /\ woken = FALSE
  /\ pc = "none"
  /\ doing = "nothing"
  /\ dropped = FALSE
  /\ endLeft = 0

\* The runner answers commands while its task runs (SequenceService._runner).
Active == task = "running"

\* The task advances: a cancelled task does nothing but unwind.
Runs == task = "running" /\ cancel = "no"

----------------------------------------------------------------------------
(* The task of the run's job *)

\* SequenceService._start
Start ==
  /\ task = "none"
  /\ ~busy
  /\ CheckFree(rig, SequenceRoles)
  /\ rig' = [Take(rig, "sequence", SequenceRoles) EXCEPT !.running = TRUE]
  /\ task' = "created"
  /\ cancel' = "no"
  /\ busy' = TRUE
  /\ UNCHANGED <<guide, run>>

\* The first step of the task: a Runner afresh.
Begin ==
  /\ task = "created"
  /\ cancel = "no"
  /\ task' = "running"
  /\ rstate' = "running"
  /\ pauseAsked' = FALSE
  /\ stopAsked' = "no"
  /\ woken' = FALSE
  /\ pc' = "safe"
  /\ doing' = "nothing"
  /\ dropped' = FALSE
  /\ endLeft' = EndSteps
  /\ UNCHANGED <<rig, guide, cancel, busy>>

\* Cancelled before its first step: JobManager finishes the job, and nothing of
\* SequenceService._run runs, its finally included.
NeverBegan ==
  /\ task = "created"
  /\ cancel # "no"
  /\ rig' = Ended(rig)
  /\ task' = "none"
  /\ UNCHANGED <<guide, cancel, busy, run>>

\* (Mutant) PHD2 is not told that the job it guides under is over.
TaskEnds_KeepsUnder(g) ==
  /\ rig' = Ended(g)
  /\ task' = "none"
  /\ busy' = FALSE
  /\ pc' = "none"
  /\ doing' = "nothing"
  /\ UNCHANGED <<cancel, guideCancel, rstate, asks, dropped, endLeft>>

\* SequenceService._run's finally, then JobManager._finish.
TaskEnds(g) ==
  /\ rig' = Ended(GuideUnder(g, None))
  /\ task' = "none"
  /\ busy' = FALSE
  /\ pc' = "none"
  /\ doing' = "nothing"
  /\ UNCHANGED <<cancel, guideCancel, rstate, asks, dropped, endLeft>>

\* A start of guiding is cancelled with the step it is: it stops PHD2 unless it
\* had got no further than connecting.
StartCancelled(g, c) ==
  CASE startPc[c] = "idle" -> g
    [] startPc[c] = "connecting" -> StartEnds(g)
    [] startPc[c] = "starting" -> StartEnds(AppState(g, FALSE))

\* (Mutant) A paused run does not hear that it is cancelled.
Unwind_NotWhilePaused ==
  /\ Active
  /\ cancel # "no"
  /\ pc # "paused"
  /\ TaskEnds(StartCancelled(rig, "sequence"))
  /\ startPc' = [startPc EXCEPT !["sequence"] = "idle"]

\* The cancellation reaches the await where the task is.
Unwind ==
  /\ Active
  /\ cancel # "no"
  /\ TaskEnds(StartCancelled(rig, "sequence"))
  /\ startPc' = [startPc EXCEPT !["sequence"] = "idle"]

----------------------------------------------------------------------------
(* The runner *)

\* What follows the targets in Runner._run, however they ended.
Ends(runEnd) ==
  /\ pauseAsked' = FALSE
  /\ stopAsked' = "no"
  /\ pc' = IF runEnd THEN "endSave" ELSE "finalSave"
  /\ rstate' = IF runEnd THEN "ending" ELSE rstate
  /\ endLeft' = IF runEnd THEN endLeft ELSE 0
  /\ doing' = "nothing"
  /\ dropped' = FALSE
  /\ UNCHANGED woken

\* GuidingService.stop cancels the job whose start runs; PHD2 stops later.
CancelStart ==
  CASE rig.starting = "sequence" /\ task # "none" ->
         cancel' = (IF cancel = "no" THEN "guiding" ELSE cancel) /\ UNCHANGED guideCancel
    [] rig.starting = "guide" -> guideCancel' = TRUE /\ UNCHANGED cancel
    [] OTHER -> UNCHANGED <<cancel, guideCancel>>

\* The step's function, up to its first await.  A slew stops guiding first.
BeginStep(kind, next) ==
  /\ pc' = next
  /\ dropped' = FALSE
  /\ IF kind = "slew" /\ GuidingNow(rig)
     THEN doing' = "stopping" /\ CancelStart
     ELSE doing' = kind /\ UNCHANGED <<cancel, guideCancel>>
  /\ IF kind = "guide"
     THEN /\ rig' = StartGuiding(rig, "sequence")
          /\ startPc' = [startPc EXCEPT !["sequence"] = "connecting"]
     ELSE UNCHANGED <<rig, startPc>>
  /\ UNCHANGED <<task, busy>>

\* _safe_point: a stop, then a pause, then the next step if there is one.  (The
\* targets may also end here with a failure: no site, a checkpoint not saved.)
SafePoint ==
  /\ Runs
  /\ pc = "safe"
  /\ \/ /\ stopAsked # "no"
        /\ Ends(stopAsked = "end")
        /\ UNCHANGED <<rig, guide, job>>
     \/ /\ stopAsked = "no" /\ pauseAsked
        /\ pauseAsked' = FALSE
        /\ pc' = "pausing"
        /\ UNCHANGED <<rig, guide, job, rstate, stopAsked, woken, doing, dropped, endLeft>>
     \/ /\ stopAsked = "no" /\ ~pauseAsked
        /\ Ends(TRUE)
        /\ UNCHANGED <<rig, guide, job>>
     \/ /\ stopAsked = "no" /\ ~pauseAsked
        /\ \E kind \in StepKinds : BeginStep(kind, "step")
        /\ UNCHANGED <<rstate, asks, endLeft>>

InStep == pc \in {"step", "endStep"}

\* A slew starts once PHD2 has stopped.
GuidingStopped ==
  /\ Runs
  /\ InStep
  /\ doing = "stopping"
  /\ ~rig.guiding
  /\ doing' = "slew"
  /\ UNCHANGED <<rig, guide, job, rstate, asks, pc, dropped, endLeft>>

\* The step has come to its end in the rig g; it may have failed.
StepOver(g) ==
  /\ rig' = g
  /\ startPc' = [startPc EXCEPT !["sequence"] = "idle"]
  /\ doing' = "nothing"
  /\ dropped' = FALSE
  /\ UNCHANGED <<guideCancel, job, endLeft>>

\* The step succeeds, is given up, is to be tried again, or was one of *end*.
StepReturns ==
  /\ Runs
  /\ InStep
  /\ StepOver(IF doing = "guide" THEN StartEnds(rig) ELSE rig)
  /\ pc' = IF pc = "step" THEN "safe" ELSE "end"
  /\ UNCHANGED <<rstate, asks>>

\* Dropped by a pause or a stop asked for now.
StepDropped ==
  /\ Runs
  /\ InStep
  /\ dropped
  /\ StepOver(StartCancelled(rig, "sequence"))
  /\ pc' = IF pc = "step" THEN "safe" ELSE "end"
  /\ UNCHANGED <<rstate, asks>>

\* Runner.pause, with what it does to the step in progress.
AskPause ==
  IF rstate = "running"
  THEN /\ pauseAsked' = TRUE
       /\ woken' = FALSE
       /\ rstate' = "pausing"
       /\ UNCHANGED stopAsked
  ELSE UNCHANGED <<rstate, asks>>

\* The step failed for good and its policy pauses the run.
PolicyPauses ==
  /\ Runs
  /\ pc = "step"
  /\ doing # "wait"
  /\ StepOver(IF doing = "guide" THEN StartEnds(rig) ELSE rig)
  /\ pc' = "safe"
  /\ AskPause

\* The step failed for good and its policy ends the session.
PolicyEnds ==
  /\ Runs
  /\ pc = "step"
  /\ rig' = IF doing = "guide" THEN StartEnds(rig) ELSE rig
  /\ startPc' = [startPc EXCEPT !["sequence"] = "idle"]
  /\ Ends(TRUE)
  /\ UNCHANGED <<guideCancel, job>>

----------------------------------------------------------------------------
(* Pausing *)

\* (Mutant) The run goes on although the rig could not be taken back.
GoOn_IgnoresRefusal(g) ==
  /\ rig' = TakeBack(g)
  /\ pc' = "safe"
  /\ rstate' = IF stopAsked = "no" THEN "running" ELSE rstate
  /\ UNCHANGED <<asks, doing, dropped, endLeft, guide, job>>

\* _pause from executor.resumed(): the rig is taken back, or the run fails.
GoOn(g) ==
  /\ rig' = TakeBack(g)
  /\ IF TakeBackRefused(g)
     THEN Ends(TRUE)
     ELSE /\ pc' = "safe"
          /\ rstate' = IF stopAsked = "no" THEN "running" ELSE rstate
          /\ UNCHANGED <<asks, doing, dropped, endLeft>>
  /\ UNCHANGED <<guide, job>>

\* The checkpoint is saved: the rig is lent back, and the run waits unless it
\* was resumed or stopped meanwhile.
Paused ==
  /\ Runs
  /\ pc = "pausing"
  /\ IF woken
     THEN GoOn(Lend(rig))
     ELSE /\ rig' = Lend(rig)
          /\ pc' = "paused"
          /\ rstate' = "paused"
          /\ UNCHANGED <<guide, job, asks, doing, dropped, endLeft>>

WakeUp ==
  /\ Runs
  /\ pc = "paused"
  /\ woken
  /\ GoOn(rig)

----------------------------------------------------------------------------
(* The end of the session *)

BeginEnd ==
  /\ Runs
  /\ pc = "endSave"
  /\ pc' = "end"
  /\ UNCHANGED <<rig, guide, job, rstate, asks, doing, dropped, endLeft>>

\* Each step of *end* is tried once.
EndStep ==
  /\ Runs
  /\ pc = "end"
  /\ endLeft > 0
  /\ \E kind \in StepKinds : BeginStep(kind, "endStep")
  /\ endLeft' = endLeft - 1
  /\ UNCHANGED <<rstate, asks>>

EndOver ==
  /\ Runs
  /\ pc = "end"
  /\ endLeft = 0
  /\ pc' = "finalSave"
  /\ UNCHANGED <<rig, guide, job, rstate, asks, doing, dropped, endLeft>>

\* The run is over; its events are still being written to the catalog.
FinalSave ==
  /\ Runs
  /\ pc = "finalSave"
  /\ rstate' = "finished"
  /\ pc' = "draining"
  /\ UNCHANGED <<rig, guide, job, asks, doing, dropped, endLeft>>

Drained ==
  /\ Runs
  /\ pc = "draining"
  /\ TaskEnds(rig)
  /\ UNCHANGED startPc

\* The checkpoint cannot be written: before the end of the session the run
\* fails, after that the exception leaves Runner.run.
SaveFails ==
  /\ DiskMayFail
  /\ Runs
  /\ \/ pc = "pausing" /\ Ends(TRUE) /\ UNCHANGED <<rig, guide, job>>
     \/ pc \in {"endSave", "finalSave"} /\ TaskEnds(rig) /\ UNCHANGED startPc

----------------------------------------------------------------------------
(* The user's commands to the run *)

\* A step asked to stop now is dropped; a wait has no scope to cancel.
Drop(now) ==
  dropped' = (dropped \/ (now /\ pc = "step" /\ doing # "wait"))

Pause ==
  /\ Active
  /\ rstate = "running"
  /\ AskPause
  /\ \E now \in BOOLEAN : Drop(now)
  /\ UNCHANGED <<rig, guide, job, pc, doing, endLeft>>

\* SequenceService.resume: refused when the rig cannot be taken back.
ResumeCommand ==
  /\ Active
  /\ rig' = TakeBack(rig)
  /\ IF TakeBackRefused(rig)
     THEN UNCHANGED <<pauseAsked, woken, rstate>>
     ELSE IF rstate = "pausing"
     THEN pauseAsked' = FALSE /\ woken' = TRUE /\ rstate' = "running"
     ELSE woken' = (woken \/ rstate = "paused") /\ UNCHANGED <<pauseAsked, rstate>>
  /\ UNCHANGED <<stopAsked, guide, job, pc, doing, dropped, endLeft>>

\* (Mutant) A stop does not wake a paused run.
Stop_NoWakeUp ==
  /\ Active
  /\ rstate \in {"running", "pausing", "paused"}
  /\ stopAsked' \in {"end", "noEnd"}
  /\ rstate' = "stopping"
  /\ \E now \in BOOLEAN : Drop(now)
  /\ UNCHANGED <<rig, guide, job, pauseAsked, woken, pc, doing, endLeft>>

Stop ==
  /\ Active
  /\ rstate \in {"running", "pausing", "paused"}
  /\ stopAsked' \in {"end", "noEnd"}
  /\ rstate' = "stopping"
  /\ woken' = TRUE
  /\ \E now \in BOOLEAN : Drop(now)
  /\ UNCHANGED <<rig, guide, job, pauseAsked, pc, doing, endLeft>>

\* JobManager.cancel of the run's job.
CancelJob ==
  /\ task # "none"
  /\ cancel = "no"
  /\ cancel' = "user"
  /\ UNCHANGED <<rig, guide, task, busy, run>>

----------------------------------------------------------------------------
(* Guiding, by the run or by hand *)

\* The guide command: a job that locks "phd2".
GuideCommand ==
  /\ rig.linked
  /\ startPc["guide"] = "idle"
  /\ CheckFree(rig, {"phd2"})
  /\ rig' = StartGuiding(Take(rig, "guide", {"phd2"}), "guide")
  /\ startPc' = [startPc EXCEPT !["guide"] = "connecting"]
  /\ guideCancel' = FALSE
  /\ UNCHANGED <<job, run>>

\* PHD2's equipment is connected: the mount is reserved unless the caller has it.
Connected(c) ==
  /\ startPc[c] = "connecting"
  /\ IF c = "sequence" THEN Runs ELSE ~guideCancel
  /\ rig.linked
  /\ CanHoldMount(rig)
  /\ rig' = HoldMount(rig)
  /\ startPc' = [startPc EXCEPT ![c] = "starting"]
  /\ UNCHANGED <<guideCancel, job, run>>

\* The guide command's job ends: settled, failed, refused the mount or cancelled.
GuideReturns ==
  /\ startPc["guide"] # "idle"
  /\ rig' = LET g == IF guideCancel THEN StartCancelled(rig, "guide") ELSE StartEnds(rig)
            IN Free(g, "guide")
  /\ startPc' = [startPc EXCEPT !["guide"] = "idle"]
  /\ guideCancel' = FALSE
  /\ UNCHANGED <<job, run>>

\* GuidingService.stop, by the user's stop or before a go-to that asks for it.
StopGuidingCommand ==
  /\ GuidingNow(rig)
  /\ CancelStart
  /\ UNCHANGED <<rig, startPc, task, busy, run>>

\* PHD2 says that it calibrates or guides, because a start asked for it, or
\* that it stopped (asked to, or by itself).
Phd2Guides ==
  /\ rig.linked
  /\ ~rig.guiding
  /\ \/ startPc["sequence"] = "starting" /\ Runs
     \/ startPc["guide"] = "starting" /\ ~guideCancel
  /\ rig' = AppState(rig, TRUE)
  /\ UNCHANGED <<guide, job, run>>

Phd2Stops ==
  /\ rig.guiding
  /\ rig' = AppState(rig, FALSE)
  /\ UNCHANGED <<guide, job, run>>

\* (Mutant) A guide step is counted and the mount left as it is.
Phd2Step_OnlyCounts ==
  /\ rig.linked
  /\ rig.guiding
  /\ UNCHANGED vars

\* A guide step: NOCS takes the mount if whoever held it let go.
Phd2Step ==
  /\ rig.linked
  /\ rig.guiding
  /\ rig.lock["mount"] # "guiding"
  /\ rig' = SyncMountHold(rig)
  /\ UNCHANGED <<guide, job, run>>

Phd2Lost ==
  /\ rig.linked
  /\ rig' = SyncMountHold([rig EXCEPT !.linked = FALSE, !.guiding = FALSE])
  /\ UNCHANGED <<guide, job, run>>

Phd2Found ==
  /\ ~rig.linked
  /\ rig' = [rig EXCEPT !.linked = TRUE]
  /\ UNCHANGED <<guide, job, run>>

----------------------------------------------------------------------------
(* Other commands that use the rig *)

UserTakes(r) ==
  /\ CheckFree(rig, {r})
  /\ rig' = Take(rig, "user", {r})
  /\ UNCHANGED <<guide, job, run>>

UserFrees ==
  /\ \E r \in Roles : rig.lock[r] = "user"
  /\ rig' = Free(rig, "user")
  /\ UNCHANGED <<guide, job, run>>

----------------------------------------------------------------------------
StepEnds == StepReturns \/ StepDropped \/ PolicyPauses \/ PolicyEnds

RunStep ==
  \/ Begin \/ NeverBegan \/ Unwind
  \/ SafePoint \/ GuidingStopped \/ StepEnds
  \/ Paused \/ WakeUp
  \/ BeginEnd \/ EndStep \/ EndOver \/ FinalSave \/ Drained \/ SaveFails

Command == Start \/ Pause \/ ResumeCommand \/ Stop \/ CancelJob

GuidingStep ==
  \/ GuideCommand \/ StopGuidingCommand \/ GuideReturns
  \/ \E c \in Callers : Connected(c)
  \/ Phd2Guides \/ Phd2Stops \/ Phd2Step \/ Phd2Lost \/ Phd2Found

UserStep == UserFrees \/ \E r \in UserRoles : UserTakes(r)

Next == RunStep \/ Command \/ GuidingStep \/ UserStep

\* The event loop steps every ready task, saving ends, a step ends (each has a
\* timeout or is cut by its devices) and PHD2 reports its guide steps.  The
\* users need not act, nor PHD2 start to guide.
Fairness ==
  /\ WF_vars(RunStep)
  /\ WF_vars(Phd2Step)

Spec == Init /\ [][Next]_vars
FairSpec == Spec /\ Fairness

----------------------------------------------------------------------------
(* Safety *)

\* The targets are worked on, and the next step chosen, only while the run's job
\* holds the whole rig: after any pause, resume, refused resume, stop or race of
\* them, take_back came first.
WorkHoldsRig == pc \in {"safe", "step", "pausing"} => HoldsRig(rig)

\* A run that waits to be resumed says it is paused and has lent everything back:
\* the pause is never silent, half done, or about to lose its wake-up.
PausedLends ==
  pc = "paused" /\ ~woken =>
    /\ rstate = "paused"
    /\ rig.lent = SequenceRoles
    /\ \A r \in Roles : rig.lock[r] # "sequence"

\* A run that ended, however it did, leaves nothing behind in the rig: no lock,
\* no start of guiding, no job for PHD2 to guide under.
NothingLeft ==
  task = "none" =>
    /\ \A r \in Roles : rig.lock[r] # "sequence"
    /\ rig.lent = {}
    /\ rig.under = None
    /\ rig.starting # "sequence"

\* GuidingService's own hold of the mount does not outlive the guiding, or the
\* starts of guiding, it is for (two starts share the one field _starting).
HoldHasReason ==
  rig.lock["mount"] = "guiding" =>
    rig.guiding \/ \E c \in Callers : startPc[c] # "idle"

\* The phases of a run: at work, asked to stop, ending, finished.
Phase ==
  CASE rstate \in {"running", "pausing", "paused"} -> 0
    [] rstate = "stopping" -> 1
    [] rstate = "ending" -> 2
    [] rstate = "finished" -> 3

\* A run goes through its phases forward only: no pause, resume or take-back
\* that completes late undoes a stop or brings an ending run back to work.
PhasesGoForward == [][Active /\ Active' => Phase' >= Phase]_vars

----------------------------------------------------------------------------
(* Liveness *)

\* No command is lost: a pause asked for takes effect, is withdrawn, or the run
\* ends; a stop takes effect in whatever state the run was; a paused run that was
\* resumed leaves the pause.
PauseTakesEffect == (Active /\ rstate = "pausing") ~> ~(Active /\ rstate = "pausing")
StopTakesEffect == (Active /\ rstate = "stopping") ~> ~(Active /\ rstate = "stopping")
ResumeTakesEffect ==
  (Active /\ rstate = "paused" /\ woken) ~> ~(Active /\ rstate = "paused" /\ woken)
CommandsTakeEffect == PauseTakesEffect /\ StopTakesEffect /\ ResumeTakesEffect

\* A cancelled run ends, and a run whose end began does too.
RunEnds ==
  /\ (task # "none" /\ cancel # "no") ~> (task = "none")
  /\ (Active /\ rstate = "ending") ~> (task = "none")

\* When no run is there, PHD2 does not go on moving a mount that NOCS shows as
\* free: its next guide step takes the mount.
GuidingRegainsMount ==
  (task = "none" /\ rig.guiding) ~> (rig.lock["mount"] # None \/ ~rig.guiding)

----------------------------------------------------------------------------
(* What the documentation says and the code does not do *)

\* The end of the session also works on the rig: it holds it then.
EndHoldsRig == pc = "endStep" => HoldsRig(rig)

\* A stop that waives the end of the session is never followed by it.
StopWaivesEnd == [][stopAsked = "noEnd" => rstate' # "ending"]_vars

\* NOCS holds the mount for PHD2 while the sequence is paused.
PausedMountHeld ==
  rstate = "paused" /\ ~woken /\ Active /\ rig.guiding => rig.lock["mount"] # None

\* The sequence stops guiding before it slews, so PHD2 never guides a slew.
SlewUnguided == doing = "slew" => ~rig.guiding

\* No other command ends a running sequence.
OnlyCancelCancels == cancel # "guiding"

\* A run that was not cancelled ends with every step of *end* tried, or waived.
EndIsTried == [][Active /\ ~Active' /\ cancel = "no" => endLeft = 0]_vars
=============================================================================
