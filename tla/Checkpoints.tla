----------------------------- MODULE Checkpoints -----------------------------
(***************************************************************************)
(* The progress of a run, its checkpoint on disk, and restarts of nocsd     *)
(* (nocs.sequence.runner, SequenceService.recover; ADR 0031, 0032).         *)
(*                                                                          *)
(* The sequence is *start* (an action), *targets* (repeated Rounds times,   *)
(* with one container per target: an action that points, then Frames        *)
(* frames) and *end*.  nocsd may crash between any two awaits; what is not  *)
(* on disk by then is lost.  The run's control is SequenceControl's matter. *)
(***************************************************************************)
EXTENDS Naturals, FiniteSets

CONSTANTS
  Last,         \* the targets are 1..Last, in this order
  Frames,       \* frames of each target's plan
  Rounds,       \* repeat of the container *targets*
  MaxRestarts,  \* MAX_RESTARTS
  MaxCrashes,   \* bound: crashes of nocsd
  MaxSpoiled,   \* bound: frames of a target whose try comes to nothing
  None          \* no checkpoint

\* The containers, *start* and *targets* around the targets themselves.
Start == 0
Targets == 1..Last
Around == Last + 1
Containers == Start..Around

VARIABLES
  disk,     \* the checkpoint file, or None
  cp,       \* the runner's checkpoint
  pc,       \* what nocsd and the run's task are at
  at,       \* the container that runs
  next,     \* where the run goes on once its checkpoint is saved
  life,     \* the run: "new", "live", "over", or "lost" with nocsd's memory or with its
            \* definition
  crashes,  \* crashes so far
  resumes,  \* times the run went back to work after a crash
  stored,   \* frames of each target in the catalog, counted by the run or not
  spoiled,  \* those of them whose try failed or was dropped after it stored its frame
  endRan,   \* every step of *end* was tried
  left,     \* "cancelled": the user cancelled the run's job; "refused": recover
            \* found the rig taken; in both cases the checkpoint stays on disk
  gone      \* the definition of the sequence was deleted

vars ==
  <<disk, cp, pc, at, next, life, crashes, resumes, stored, spoiled, endRan, left, gone>>

\* The checkpoint; cut (frames were left out by a condition, a policy, a stop or
\* recover) and waived (a stop said not to run *end*) are history, not in the file.
Checkpoint ==
  [finished : SUBSET Containers, iterations : [Containers -> 0..Rounds],
   plan : [Targets -> 0..Frames], ending : BOOLEAN, ended : BOOLEAN, restarts : Nat,
   cut : BOOLEAN, waived : BOOLEAN]

\* Assumed in SequenceRuns.
CheckpointsAssumption ==
  /\ Last \in Nat \ {0}
  /\ Frames \in Nat
  /\ Rounds \in Nat \ {0}
  /\ MaxRestarts \in Nat
  /\ MaxCrashes \in Nat
  /\ MaxSpoiled \in Nat
  /\ None \notin Checkpoint

TypeOK ==
  /\ disk \in Checkpoint \cup {None}
  /\ cp \in Checkpoint
  /\ pc \in {"off", "up", "waiting", "enter", "loop", "action", "plan", "iterate", "leave",
             "save", "beginEnd", "end", "final", "clear"}
  /\ at \in Containers
  /\ next \in {"loop", "plan", "iterate", "leave", "end", "final", "clear"}
  /\ life \in {"new", "live", "over", "lost"}
  /\ crashes \in 0..MaxCrashes
  /\ resumes \in 0..MaxCrashes
  /\ stored \in [Targets -> Nat]
  /\ spoiled \in [Targets -> 0..MaxSpoiled]
  /\ endRan \in BOOLEAN
  /\ left \in {"no", "cancelled", "refused"}
  /\ gone \in BOOLEAN

Fresh ==
  [finished |-> {}, iterations |-> [c \in Containers |-> 0],
   plan |-> [t \in Targets |-> 0], ending |-> FALSE, ended |-> FALSE, restarts |-> 0,
   cut |-> FALSE, waived |-> FALSE]

Init ==
  /\ disk = None
  /\ cp = Fresh
  /\ pc = "up"
  /\ at = Start
  /\ next = "loop"
  /\ life = "new"
  /\ crashes = 0
  /\ resumes = 0
  /\ stored = [t \in Targets |-> 0]
  /\ spoiled = [t \in Targets |-> 0]
  /\ endRan = FALSE
  /\ left = "no"
  /\ gone = FALSE

\* The runner's memory is gone.
Forgotten == cp' = Fresh /\ at' = Start /\ next' = "loop"

world == <<life, crashes, resumes, spoiled, left, gone>>

----------------------------------------------------------------------------
(* Helpers *)

Repeat(c) == IF c = Around THEN Rounds ELSE 1
Inside(c) == IF c = Around THEN Targets ELSE {}

\* (Mutant) Only what is finished inside is forgotten, not the frames counted.
Forget_KeepsPlans(p, c) ==
  [p EXCEPT !.finished = @ \ Inside(c),
            !.iterations = [d \in Containers |-> IF d \in Inside(c) THEN 0 ELSE @[d]]]

\* _forget_inside: a target's plan lies inside its container.
Forget(p, c) ==
  [p EXCEPT !.finished = @ \ Inside(c),
            !.iterations = [d \in Containers |-> IF d \in Inside(c) THEN 0 ELSE @[d]],
            !.plan = [t \in Targets |-> IF t = c \/ t \in Inside(c) THEN 0 ELSE @[t]]]

\* The container is done with.
Finished(p, c) == [p EXCEPT !.iterations[c] = 0, !.finished = @ \cup {c}]

\* The runner's checkpoint becomes p, and is saved before the run goes on at n.
SaveThen(p, n) == cp' = p /\ pc' = "save" /\ next' = n

----------------------------------------------------------------------------
(* The run *)

StartRun ==
  /\ pc = "up"
  /\ life = "new"
  /\ life' = "live"
  /\ cp' = Fresh
  /\ pc' = "enter"
  /\ at' = Start
  /\ UNCHANGED <<disk, next, crashes, resumes, stored, spoiled, endRan, left, gone>>

\* CheckpointFile.save ends: the file is replaced atomically.
Save ==
  /\ pc = "save"
  /\ disk' = cp
  /\ pc' = next
  /\ next' = "loop"
  /\ UNCHANGED <<cp, at, stored, endRan, world>>

\* _container, at its top.
Enter ==
  /\ pc = "enter"
  /\ pc' = IF at \in cp.finished THEN "leave" ELSE "loop"
  /\ UNCHANGED <<disk, cp, at, next, stored, endRan, world>>

\* Another iteration: to the first child.
Loop ==
  /\ pc = "loop"
  /\ cp.iterations[at] < Repeat(at)
  /\ IF at = Around THEN at' = 1 /\ pc' = "enter" ELSE pc' = "action" /\ UNCHANGED at
  /\ UNCHANGED <<disk, cp, next, stored, endRan, world>>

\* _action, carried out; the checkpoint is saved after it.
Act ==
  /\ pc = "action"
  /\ SaveThen(cp, IF at = Start THEN "iterate" ELSE "plan")
  /\ UNCHANGED <<disk, at, stored, endRan, world>>

\* (Mutant) The frame is counted once the next one is asked for.
TakeFrame_Uncounted ==
  /\ pc = "plan"
  /\ cp.plan[at] < Frames
  /\ stored' = [stored EXCEPT ![at] = @ + 1]
  /\ \E p \in {cp, [cp EXCEPT !.plan[at] = @ + 1]} : SaveThen(p, "plan")
  /\ UNCHANGED <<disk, at, endRan, world>>

\* _plan: a frame is stored in the catalog, then counted, then saved.
TakeFrame ==
  /\ pc = "plan"
  /\ cp.plan[at] < Frames
  /\ stored' = [stored EXCEPT ![at] = @ + 1]
  /\ SaveThen([cp EXCEPT !.plan[at] = @ + 1], "plan")
  /\ UNCHANGED <<disk, at, endRan, world>>

\* A frame is stored and the try comes to nothing all the same: too few stars (clouds),
\* the guide star lost meanwhile, or the step dropped by a pause or a stop `now' while
\* the frame is measured.  Back to the safe point, where a retry or a policy goes on.
SpoilFrame ==
  /\ pc = "plan"
  /\ cp.plan[at] < Frames
  /\ \A t \in Targets : spoiled[t] < MaxSpoiled
  /\ stored' = [stored EXCEPT ![at] = @ + 1]
  /\ spoiled' = [spoiled EXCEPT ![at] = @ + 1]
  /\ UNCHANGED <<disk, cp, pc, at, next, endRan, life, crashes, resumes, left, gone>>

PlanDone ==
  /\ pc = "plan"
  /\ cp.plan[at] = Frames
  /\ pc' = "iterate"
  /\ UNCHANGED <<disk, cp, at, next, stored, endRan, world>>

\* The children are through: one iteration more.
Iterate ==
  /\ pc = "iterate"
  /\ SaveThen([Forget(cp, at) EXCEPT !.iterations[at] = @ + 1], "loop")
  /\ UNCHANGED <<disk, at, stored, endRan, world>>

Finish ==
  /\ pc = "loop"
  /\ cp.iterations[at] >= Repeat(at)
  /\ SaveThen(Finished(cp, at), "leave")
  /\ UNCHANGED <<disk, at, stored, endRan, world>>

\* Back in the container around, or to what follows it.
Leave ==
  /\ pc = "leave"
  /\ \/ at = Start /\ at' = Around /\ pc' = "enter"
     \/ at = Around /\ pc' = "beginEnd" /\ UNCHANGED at
     \/ at \in Targets /\ at < Last /\ at' = at + 1 /\ pc' = "enter"
     \/ at = Last /\ at' = Around /\ pc' = "iterate"
  /\ UNCHANGED <<disk, cp, next, stored, endRan, world>>

SafePoint == pc \in {"action", "plan"}

\* A condition ends the container that runs or the one around it, or a policy
\* gives the target up.
CutShort(c) ==
  /\ SafePoint
  /\ c = at \/ at \in Inside(c)
  /\ SaveThen([Finished(Forget(cp, c), c) EXCEPT !.cut = TRUE], "leave")
  /\ at' = c
  /\ UNCHANGED <<disk, stored, endRan, world>>

\* A policy gives the rest of the plan up, and the container goes on.
SkipPlan ==
  /\ pc = "plan"
  /\ cp.plan[at] < Frames
  /\ cp' = [cp EXCEPT !.cut = TRUE]
  /\ pc' = "iterate"
  /\ UNCHANGED <<disk, at, next, stored, endRan, world>>

\* A stop, or a failure that ends the session: the targets are left.
LeaveTargets(runEnd) ==
  /\ SafePoint
  /\ pc' = IF runEnd THEN "beginEnd" ELSE "final"
  /\ cp' = [cp EXCEPT !.cut = TRUE, !.waived = ~runEnd]
  /\ UNCHANGED <<disk, at, next, stored, endRan, world>>

BeginEnd ==
  /\ pc = "beginEnd"
  /\ SaveThen([cp EXCEPT !.ending = TRUE], "end")
  /\ UNCHANGED <<disk, at, stored, endRan, world>>

EndStep ==
  /\ pc = "end"
  /\ SaveThen(cp, "final")
  /\ endRan' = TRUE
  /\ UNCHANGED <<disk, at, stored, world>>

Final ==
  /\ pc = "final"
  /\ SaveThen([cp EXCEPT !.ended = TRUE], "clear")
  /\ UNCHANGED <<disk, at, stored, endRan, world>>

\* SequenceService._run clears the checkpoint of a run that ended.
Clear ==
  /\ pc = "clear"
  /\ disk' = None
  /\ pc' = "up"
  /\ life' = "over"
  /\ Forgotten
  /\ UNCHANGED <<stored, endRan, crashes, resumes, spoiled, left, gone>>

\* The user cancels the run's job: nothing clears the checkpoint.
Cancel ==
  /\ pc \notin {"off", "up", "waiting"}
  /\ pc' = "up"
  /\ left' = "cancelled"
  /\ Forgotten
  /\ UNCHANGED <<disk, life, stored, endRan, crashes, resumes, spoiled, gone>>

----------------------------------------------------------------------------
(* nocsd *)

\* A crash, the watchdog, a power cut: memory is lost.  (Without a run there is none to lose.)
Crash ==
  /\ pc # "off"
  /\ life = "live"
  /\ crashes < MaxCrashes
  /\ crashes' = crashes + 1
  /\ pc' = "off"
  /\ Forgotten
  /\ life' = IF life = "live" /\ disk = None THEN "lost" ELSE life
  /\ UNCHANGED <<disk, resumes, stored, spoiled, endRan, left, gone>>

\* The user deletes the definition: refused only while the run is under way.
Delete ==
  /\ pc \in {"up", "waiting"}
  /\ life = "live"
  /\ gone' = TRUE
  /\ UNCHANGED <<disk, cp, pc, at, next, life, stored, endRan, crashes, resumes, spoiled, left>>

\* recover, first half: is there an unfinished run, and its definition?  If not, the
\* checkpoint goes and *end* never runs.
Boot ==
  /\ pc = "off"
  /\ \/ disk = None /\ pc' = "up" /\ UNCHANGED <<disk, life>>
     \/ disk # None /\ disk.ended /\ pc' = "up" /\ life' = "over" /\ UNCHANGED disk
     \/ disk # None /\ ~disk.ended /\ gone /\ pc' = "up" /\ disk' = None /\ life' = "lost"
     \/ disk # None /\ ~disk.ended /\ ~gone /\ pc' = "waiting" /\ UNCHANGED <<disk, life>>
  /\ UNCHANGED <<cp, at, next, stored, endRan, crashes, resumes, spoiled, left, gone>>

\* (Mutant) A run caught in its end goes back to work.
Resumed_ForgetsEnding(onlyEnd) ==
  [disk EXCEPT !.restarts = @ + 1, !.finished = @ \ {Start}, !.ending = onlyEnd,
               !.cut = @ \/ onlyEnd]

\* The runner's copy of the checkpoint: *start* is to be done again.
Resumed(onlyEnd) ==
  [disk EXCEPT !.restarts = @ + 1, !.finished = @ \ {Start}, !.ending = @ \/ onlyEnd,
               !.cut = @ \/ (onlyEnd /\ ~disk.ending)]

\* recover, second half: only *end* runs after too many restarts, when the rig
\* or the time was not ready in time, or when the definition changed.
Recover(onlyEnd) ==
  /\ pc = "waiting"
  /\ disk.restarts >= MaxRestarts => onlyEnd
  /\ cp' = Resumed(onlyEnd)
  /\ pc' = IF Resumed(onlyEnd).ending THEN "beginEnd" ELSE "enter"
  /\ resumes' = IF Resumed(onlyEnd).ending THEN resumes ELSE resumes + 1
  /\ UNCHANGED <<disk, at, next, life, crashes, stored, spoiled, endRan, left, gone>>

\* _start raises: something else holds the rig, or another sequence runs.
RecoverRefused ==
  /\ pc = "waiting"
  /\ pc' = "up"
  /\ left' = "refused"
  /\ UNCHANGED <<disk, cp, at, next, life, stored, endRan, crashes, resumes, spoiled, gone>>

----------------------------------------------------------------------------
RunStep ==
  \/ Save \/ Enter \/ Loop \/ Act \/ TakeFrame \/ SpoilFrame \/ PlanDone \/ Iterate \/ Finish \/ Leave \/ SkipPlan
  \/ \E c \in Containers : CutShort(c)
  \/ \E runEnd \in BOOLEAN : LeaveTargets(runEnd)
  \/ BeginEnd \/ EndStep \/ Final \/ Clear

Restart == Boot \/ \E onlyEnd \in BOOLEAN : Recover(onlyEnd)

Next == StartRun \/ RunStep \/ Cancel \/ Delete \/ Crash \/ Restart \/ RecoverRefused

\* The run's task goes on while nocsd runs, and systemd restarts nocsd.
Fairness == WF_vars(RunStep) /\ WF_vars(Restart)

Spec == Init /\ [][Next]_vars
FairSpec == Spec /\ Fairness

----------------------------------------------------------------------------
(* Properties *)

\* Frames of t that came of a try that was not given up.
Good(t) == stored[t] - spoiled[t]

\* A frame is taken again only for a crash while it was stored, or because its own try came
\* to nothing: the frames of all the other tries are counted, once and no more.
RepeatedPerCrash ==
  \A t \in Targets : Good(t) <= Rounds * Frames + crashes

\* Nothing is left out: a run that nothing cut short has stored every frame of
\* every target in every round when its end begins, crashes or not, and frames whose try
\* came to nothing do not make up for it.
NothingLeftOut ==
  \A p \in {cp, disk} \ {None} :
    p.ending /\ ~p.cut => \A t \in Targets : Good(t) >= Rounds * Frames

\* A run is kept as ended, and its own task removes its checkpoint, only after *end* ran
\* or a stop waived it.  (Boot removes it too, when the definition is gone.)
EndBeforeOver ==
  /\ disk # None /\ disk.ended => endRan \/ disk.waived
  /\ pc = "clear" => disk.ended

\* Once *end* was carried out (the mount parked, the camera warmed) no frame is
\* taken any more, in this life of nocsd or in a later one.
EndedWork == [][endRan => UNCHANGED stored]_vars

\* The checkpoint on disk, read as the record of one night without crashes.
DiskTaken(t) ==
  IF disk = None \/ life \in {"over", "lost"} THEN 0
  ELSE IF t \in disk.finished \/ disk.iterations[t] = 1 THEN Frames
  ELSE disk.plan[t]

DiskRound ==
  IF disk = None \/ life \in {"over", "lost"} THEN 0
  ELSE IF Around \in disk.finished THEN Rounds ELSE disk.iterations[Around]

DiskPhase ==
  IF life \in {"over", "lost"} THEN "over"
  ELSE IF disk # None /\ disk.ending THEN "ending" ELSE "working"

TheNight == INSTANCE Night WITH
  taken <- [t \in Targets |-> DiskTaken(t)], round <- DiskRound, phase <- DiskPhase

\* Crashes and restarts do not show in the progress that is kept.
ImplementsNight == TheNight!Spec

\* A run that began ends, whatever crashes come (finitely many), unless the user
\* cancels it or has taken the rig when nocsd comes back to it.
NightEnds == (life = "live") ~> (life # "live" \/ left # "no")

----------------------------------------------------------------------------
(* What the documentation says and the code does not do *)

\* Frames are never repeated.
FramesNeverRepeated == \A t \in Targets : stored[t] <= Rounds * Frames

\* After MaxRestarts restarts in the same run only *end* runs.
RestartsLimited == resumes <= MaxRestarts

\* The run in progress is on disk at every safe point: no crash forgets it.
CrashKeepsRun == life = "lost" => gone

\* The checkpoint is removed when the run ends, cancelled included.
CancelledStaysOver == left = "cancelled" => pc \in {"up", "off"}

\* nocsd resumes, or ends, every unfinished run it finds: a run goes on waiting
\* for the next restart only when the user cancelled it.
RunRecovered == (life = "live") ~> (life # "live" \/ left = "cancelled")
=============================================================================
