------------------------------ MODULE Previews ------------------------------
(***************************************************************************)
(* From a frame to its preview: the imaging worker (nocs.imaging.worker),   *)
(* which analyses one frame of a camera at a time and lets a newer one take *)
(* the place of those that wait, and what the capture service does around   *)
(* it (nocs.imaging.capture: _preview and _keep): frames of a loop analysed *)
(* in the background, frames of a job that may be cancelled, the frame kept *)
(* behind the preview, and every file that has to go in the end.            *)
(*                                                                          *)
(* One camera, the main one.  Frames are numbered as they arrive.  Other     *)
(* workflows (autofocus, solving, flats) share the worker with requests of   *)
(* their own that are never dropped.  The pool of processes is known by its  *)
(* generation; what the analysis computes is left out.                       *)
(***************************************************************************)
EXTENDS Naturals, Sequences, FiniteSets, SequencesExt

CONSTANTS
  Count,      \* frames of the camera
  InJob,      \* those taken by a job that waits for their preview, and may be cancelled
  Saved,      \* those of them that storage keeps: their file is not a preview's
  Others,     \* requests of other workflows
  Keep,       \* KEEP_PREVIEWS
  MaxDeaths   \* bound: how often the worker process dies

\* Assumed in RigServices.
PreviewsAssumption ==
  /\ Count \in Nat /\ InJob \subseteq 1..Count /\ Saved \subseteq InJob
  /\ Others \cap 1..Count = {}
  /\ Keep \in Nat \ {0} /\ MaxDeaths \in Nat

Frames == 1..Count
Requests == Frames \cup Others

VARIABLES
  stage,     \* where each frame's _preview is
  holder,    \* the frame that has the camera's lock; 0 for none
  waiters,   \* the frames waiting for it, first come first served
  latest,    \* _latest
  pool,      \* the generation of _pool; 0 for None
  made,      \* generations made so far
  broken,    \* generations whose process died
  at,        \* the pool each request under way was given to; 0 for none
  shown,     \* _previews: the JPEGs kept, oldest first
  jpgs,      \* the JPEGs on disk
  files,     \* the frames' files in the incoming directory
  kept,      \* _kept; 0 for none
  preview,   \* _previews of the capture service: what is published
  deleting,  \* what each frame's _keep is deleting; 0 for nothing
  strays,    \* ghost: frames cancelled while the worker had them
  wronged    \* ghost: requests cancelled that nobody cancelled

lock == <<holder, waiters, latest>>
pools == <<pool, made, broken, at>>
previews == <<shown, jpgs>>
keeping == <<files, kept, preview, deleting>>
ghosts == <<strays, wronged>>
vars == <<stage, lock, pools, previews, keeping, ghosts>>

InFlight == {"waiting", "analysing", "expiring", "keeping"}

TypeOK ==
  /\ stage \in [Frames -> InFlight \cup {"none", "done"}]
  /\ holder \in 0..Count /\ waiters \in Seq(Frames) /\ latest \in 0..Count
  /\ made \in Nat /\ pool \in 0..made /\ broken \subseteq 1..made /\ at \in [Requests -> 0..made]
  /\ shown \in Seq(Frames) /\ jpgs \subseteq Frames /\ files \subseteq Frames
  /\ kept \in 0..Count /\ preview \in 0..Count /\ deleting \in [Frames -> 0..Count]
  /\ strays \subseteq Frames /\ wronged \subseteq Requests

Init ==
  /\ stage = [f \in Frames |-> "none"]
  /\ holder = 0 /\ waiters = <<>> /\ latest = 0
  /\ pool = 1 /\ made = 1 /\ broken = {} /\ at = [r \in Requests |-> 0]
  /\ shown = <<>> /\ jpgs = {} /\ files = {}
  /\ kept = 0 /\ preview = 0 /\ deleting = [f \in Frames |-> 0]
  /\ strays = {} /\ wronged = {}

----------------------------------------------------------------------------
(* Helpers *)

To(f, s) == stage' = [stage EXCEPT ![f] = s]

\* _executor: the pool there is, or a new one.
Submit(r) ==
  IF pool # 0 THEN at' = [at EXCEPT ![r] = pool] /\ UNCHANGED <<pool, made, broken>>
  ELSE /\ pool' = made + 1 /\ made' = made + 1 /\ at' = [at EXCEPT ![r] = made + 1]
       /\ UNCHANGED broken

\* The finally of _preview: a file that only served a preview nobody will see.
Discard(f) == files' = IF f \in Saved THEN files ELSE files \ {f}

----------------------------------------------------------------------------
(* A frame's way *)

\* (Mutant) Frames are analysed without the camera's lock.
Arrive_Unlocked(f) ==
  /\ stage[f] = "none" /\ \A g \in 1..(f - 1) : stage[g] # "none"
  /\ f \in InJob => \A g \in InJob : stage[g] \notin InFlight
  /\ latest' = f
  /\ files' = IF f \in Saved THEN files ELSE files \cup {f}
  /\ To(f, "analysing") /\ Submit(f)
  /\ UNCHANGED <<holder, waiters, previews, kept, preview, deleting, ghosts>>

\* _preview and analyze, called with the next frame.  A job waits for each of its own.
Arrive(f) ==
  /\ stage[f] = "none" /\ \A g \in 1..(f - 1) : stage[g] # "none"
  /\ f \in InJob => \A g \in InJob : stage[g] \notin InFlight
  /\ latest' = f
  /\ files' = IF f \in Saved THEN files ELSE files \cup {f}
  /\ IF holder = 0 /\ waiters = <<>>
     THEN To(f, "analysing") /\ holder' = f /\ Submit(f) /\ UNCHANGED waiters
     ELSE To(f, "waiting") /\ waiters' = Append(waiters, f) /\ UNCHANGED <<holder, pools>>
  /\ UNCHANGED <<previews, kept, preview, deleting, ghosts>>

\* (Mutant) A frame that gives way leaves its file.
Granted_LeavesFile ==
  /\ holder = 0 /\ waiters # <<>>
  /\ waiters' = Tail(waiters)
  /\ LET f == Head(waiters) IN
     IF f = latest
     THEN To(f, "analysing") /\ holder' = f /\ Submit(f)
     ELSE To(f, "done") /\ UNCHANGED <<holder, pools>>
  /\ UNCHANGED <<latest, previews, keeping, ghosts>>

\* The lock is free: the first that waits has it, and gives way if it is not the newest.
Granted ==
  /\ holder = 0 /\ waiters # <<>>
  /\ waiters' = Tail(waiters)
  /\ LET f == Head(waiters) IN
     IF f = latest
     THEN To(f, "analysing") /\ holder' = f /\ Submit(f) /\ UNCHANGED files
     ELSE To(f, "done") /\ Discard(f) /\ UNCHANGED <<holder, pools>>
  /\ UNCHANGED <<latest, previews, kept, preview, deleting, ghosts>>

\* (Mutant) The file goes with the preview, as for the other camera.
Shown_Discards(f) ==
  /\ kept' = f
  /\ IF kept # 0 /\ kept \notin Saved
     THEN To(f, "keeping") /\ deleting' = [deleting EXCEPT ![f] = kept] /\ UNCHANGED preview
     ELSE To(f, "done") /\ preview' = f /\ UNCHANGED deleting
  /\ Discard(f)

\* _preview once analyze has returned: _keep, and publishing if nothing is to be deleted.
Shown(f) ==
  /\ kept' = f
  /\ IF kept # 0 /\ kept \notin Saved
     THEN To(f, "keeping") /\ deleting' = [deleting EXCEPT ![f] = kept] /\ UNCHANGED preview
     ELSE To(f, "done") /\ preview' = f /\ UNCHANGED deleting
  /\ UNCHANGED files

\* (Mutant) The JPEG of a frame that took the place of others is not remembered.
AnalysisEnds_Forgets(f) ==
  /\ stage[f] = "analysing" /\ at[f] \notin broken
  /\ at' = [at EXCEPT ![f] = 0]
  /\ jpgs' = jpgs \cup {f}
  /\ shown' = IF Len(shown) = Keep \/ waiters # <<>> THEN shown ELSE Append(shown, f)
  /\ Shown(f) /\ holder' = 0
  /\ UNCHANGED <<waiters, latest, pool, made, broken, ghosts>>

\* The worker's answer: the preview is remembered, and one too many deleted, in a thread.
AnalysisEnds(f) ==
  /\ stage[f] = "analysing" /\ at[f] \notin broken
  /\ at' = [at EXCEPT ![f] = 0]
  /\ jpgs' = jpgs \cup {f}
  /\ shown' = IF Len(shown) = Keep THEN Append(Tail(shown), f) ELSE Append(shown, f)
  /\ IF Len(shown) = Keep
     THEN To(f, "expiring") /\ UNCHANGED <<holder, keeping>>
     ELSE Shown(f) /\ holder' = 0
  /\ UNCHANGED <<waiters, latest, pool, made, broken, ghosts>>

Expired(f) ==
  /\ stage[f] = "expiring"
  /\ jpgs' = jpgs \cap (Range(shown) \cup strays)
  /\ Shown(f) /\ holder' = 0
  /\ UNCHANGED <<waiters, latest, pools, shown, ghosts>>

\* The older frame's file is deleted.
KeepEnds(f) ==
  /\ stage[f] = "keeping"
  /\ files' = files \ {deleting[f]} /\ deleting' = [deleting EXCEPT ![f] = 0]
  /\ preview' = f
  /\ To(f, "done")
  /\ UNCHANGED <<lock, pools, previews, kept, ghosts>>

\* (Mutant) The lock is not given back when the pipeline fails.
AnalysisFails_KeepsLock(f) ==
  /\ stage[f] = "analysing" /\ at[f] \notin broken
  /\ at' = [at EXCEPT ![f] = 0]
  /\ To(f, "done") /\ Discard(f)
  /\ UNCHANGED <<lock, pool, made, broken, previews, kept, preview, deleting, ghosts>>

\* The pipeline rejects the frame: no preview of it.
AnalysisFails(f) ==
  /\ stage[f] = "analysing" /\ at[f] \notin broken
  /\ at' = [at EXCEPT ![f] = 0]
  /\ holder' = 0 /\ To(f, "done") /\ Discard(f)
  /\ UNCHANGED <<waiters, latest, pool, made, broken, previews, kept, preview, deleting, ghosts>>

----------------------------------------------------------------------------
(* Other workflows, and the worker's death *)

Request(r) ==
  /\ at[r] = 0
  /\ Submit(r)
  /\ UNCHANGED <<stage, lock, previews, keeping, ghosts>>

Answered(r) ==
  /\ at[r] # 0 /\ at[r] \notin broken
  /\ at' = [at EXCEPT ![r] = 0]
  /\ UNCHANGED <<stage, lock, pool, made, broken, previews, keeping, ghosts>>

WorkerDies ==
  /\ pool # 0 /\ pool \notin broken /\ Cardinality(broken) < MaxDeaths
  /\ broken' = broken \cup {pool}
  /\ UNCHANGED <<stage, lock, pool, made, at, previews, keeping, ghosts>>

\* Each request the dead worker had (or is given before anyone knows) fails in its turn;
\* _died lets go of whatever pool there is by then, be it a new one, and cancels what
\* that has not begun.
Died(r) ==
  /\ at[r] \in broken
  /\ pool' = 0
  /\ \E others \in SUBSET {q \in Requests \ {r} : pool # at[r] /\ at[q] = pool /\ pool # 0} :
       LET over == others \cup {r}
           frames == over \cap Frames
       IN /\ at' = [q \in Requests |-> IF q \in over THEN 0 ELSE at[q]]
          /\ stage' = [f \in Frames |-> IF f \in frames THEN "done" ELSE stage[f]]
          /\ holder' = IF holder \in frames THEN 0 ELSE holder
          /\ files' = files \ (frames \ Saved)
          /\ wronged' = wronged \cup others
  /\ UNCHANGED <<waiters, latest, made, broken, previews, kept, preview, deleting, strays>>

----------------------------------------------------------------------------
(* A job is cancelled while it waits for its preview *)

CancelWaiting(f) ==
  /\ stage[f] = "waiting"
  /\ \E i \in 1..Len(waiters) : waiters[i] = f /\ waiters' = RemoveAt(waiters, i)
  /\ Discard(f)
  /\ UNCHANGED <<holder, pools, jpgs, preview, deleting, strays>>

\* The worker may have begun, and goes on: its JPEG is nobody's.
CancelAnalysing(f) ==
  /\ stage[f] = "analysing"
  /\ at' = [at EXCEPT ![f] = 0]
  /\ strays' = strays \cup {f}
  /\ jpgs' \in {jpgs, jpgs \cup {f}}
  /\ holder' = 0
  /\ Discard(f)
  /\ UNCHANGED <<waiters, pool, made, broken, preview, deleting>>

CancelExpiring(f) ==
  /\ stage[f] = "expiring"
  /\ jpgs' = jpgs \cap (Range(shown) \cup strays)
  /\ holder' = 0
  /\ Discard(f)
  /\ UNCHANGED <<waiters, pools, preview, deleting, strays>>

\* The thread that deletes goes on; the preview is never published.
CancelKeeping(f) ==
  /\ stage[f] = "keeping"
  /\ files' = files \ {deleting[f]} /\ deleting' = [deleting EXCEPT ![f] = 0]
  /\ UNCHANGED <<holder, waiters, pools, jpgs, preview, strays>>

Cancel(f) ==
  /\ To(f, "done")
  /\ CancelWaiting(f) \/ CancelAnalysing(f) \/ CancelExpiring(f) \/ CancelKeeping(f)
  /\ UNCHANGED <<latest, shown, kept, wronged>>

----------------------------------------------------------------------------
Steps(f) ==
  \/ AnalysisEnds(f) \/ AnalysisFails(f) \/ Expired(f) \/ KeepEnds(f) \/ Died(f)

Next ==
  \/ Granted \/ WorkerDies
  \/ \E f \in Frames : Arrive(f) \/ Steps(f)
  \/ \E f \in InJob : Cancel(f)
  \/ \E r \in Others : Request(r) \/ Answered(r) \/ Died(r)

Spec == Init /\ [][Next]_vars

\* The worker answers or dies, and threads that delete files end.
Fairness ==
  /\ WF_vars(Granted)
  /\ \A f \in Frames : WF_vars(Steps(f))

FairSpec == Spec /\ Fairness

----------------------------------------------------------------------------
(* Properties *)

\* No file is left over: each in the incoming directory is that of a frame on its way, the
\* one kept behind the preview, or being deleted.  Whatever is cancelled or dies, and when.
FilesAreOwned ==
  \A f \in files : stage[f] \in InFlight \/ f = kept \/ f \in Range(deleting)

\* The frame offered to be solved is on disk.
KeptIsThere == kept # 0 /\ kept \notin Saved => kept \in files

\* The frame behind the preview only gives way to a newer one.
KeptForward == [][kept' >= kept]_vars

\* The JPEGs on disk are the last few, one more while it is deleted, and what the worker
\* still wrote for jobs cancelled in the middle.
PreviewsBounded == Cardinality(jpgs \ strays) <= Keep + 1

\* Every frame is done with in the end, whoever holds the lock or dies with it.
EveryFrameEnds == \A f \in Frames : stage[f] \in InFlight ~> stage[f] = "done"

\* ADR 0012: "if a frame arrives while the previous one is still being processed, it
\* replaces any frame waiting, so the preview is always the newest one".
PreviewIsNewest == [][preview' >= preview]_vars

=============================================================================
