------------------------------- MODULE Saving -------------------------------
(***************************************************************************)
(* A frame's way to its drive: taken, put where the night's frames go and   *)
(* entered in the catalog (nocs.imaging.capture: take, _finish;             *)
(* nocs.storage.service: _save, keep_unsaved, choose), while drives come,   *)
(* go and are ejected as DriveUse says, jobs are cancelled and nocsd        *)
(* restarts.                                                                *)
(*                                                                          *)
(* Each frame has a job of its own, one at a time for they share the camera.*)
(* Saving is a thread: a cancelled job no longer waits for it, but it goes  *)
(* on, maybe beside the next frame's.  Each of its steps is one action: the *)
(* choice of a destination with its checks, the count of _writing, the move *)
(* of the file, the row of the catalog, the lock of the night.  Names,      *)
(* headers and the catalog's columns are left out.                          *)
(***************************************************************************)
EXTENDS DriveUse, FiniteSets

CONSTANTS
  Count,        \* frames, taken in order
  Night,        \* the night of each frame
  MaxMoves,     \* bound: how often a drive is mounted or ejected
  MaxUpsets     \* bound: operations that fail, changes of the destination, restarts of nocsd

Frames == 1..Count
Automatic == "auto"
None == "none"
NoLock == [night |-> 0, to |-> None]

ASSUME SavingAssumption ==
  /\ Count \in Nat /\ Night \in [Frames -> Nat \ {0}]
  /\ Drives \cap {Automatic, None, "incoming"} = {}
  /\ MaxMoves \in Nat /\ MaxUpsets \in Nat

VARIABLES
  job,       \* the job of each frame
  thread,    \* the thread at work for each frame: its step and destination
  loc,       \* where each frame's file is
  rows,      \* the catalog: the volume of each frame it has
  config,    \* storage.json: destination and auto_lock
  moves, upsets,
  slipped,   \* ghost: frames whose drive went between the check and the move
  excused,   \* ghost: frames that could not even be kept unsaved
  loose      \* ghost: nights that need not stay on one drive

frames == <<job, thread, loc, rows>>
more == <<config, upsets, excused, loose>>
vars == <<useVars, frames, more, moves, slipped>>

Resting == [at |-> "none", to |-> None, locks |-> FALSE, counted |-> FALSE, ok |-> FALSE]
Active == {"exposing", "saving", "keeping"}
Saves == {"resolve", "count", "place", "catalog", "lock", "uncount"}

TypeOK ==
  /\ UseTypeOK
  /\ job \in [Frames -> Active \cup {"none", "done", "failed", "cancelled"}]
  /\ thread \in [Frames -> [at : Saves \cup {"none", "keep"}, to : Volumes \cup {None},
                            locks : BOOLEAN, counted : BOOLEAN, ok : BOOLEAN]]
  /\ loc \in [Frames -> Volumes \cup {"none", "incoming", "unsaved", "under", "gone"}]
  /\ rows \in [Frames -> Volumes \cup {None}]
  /\ config \in [dest : Volumes \cup {Automatic}, lock : [night : Nat, to : Volumes \cup {None}]]
  /\ moves \in 0..MaxMoves /\ upsets \in 0..MaxUpsets
  /\ slipped \subseteq Frames /\ excused \subseteq Frames

Init ==
  /\ UseInit
  /\ job = [f \in Frames |-> "none"] /\ thread = [f \in Frames |-> Resting]
  /\ loc = [f \in Frames |-> "none"] /\ rows = [f \in Frames |-> None]
  /\ config = [dest |-> Automatic, lock |-> NoLock]
  /\ moves = 0 /\ upsets = 0
  /\ slipped = {} /\ excused = {} /\ loose = {}

----------------------------------------------------------------------------
(* Helpers *)

ThreadAt(f, s) == thread[f].at = s
Job(f, s) == job' = [job EXCEPT ![f] = s]
Step(f, s) == thread' = [thread EXCEPT ![f].at = s]
Moved(f, place) == loc' = [loc EXCEPT ![f] = place]
Upset == upsets < MaxUpsets /\ upsets' = upsets + 1
Rest == <<mounted, moves, slipped>>

\* The thread cannot save the frame: whatever it did, it only has to be uncounted.
Refused(f) == Step(f, "uncount")

----------------------------------------------------------------------------
(* The job, up to the frame in a file of its own *)

\* take begins.
Expose(f) ==
  /\ job[f] = "none" /\ \A g \in Frames : job[g] \notin Active
  /\ \A g \in 1..(f - 1) : job[g] # "none"
  /\ Job(f, "exposing")
  /\ UNCHANGED <<Rest, locks, upsets, thread, loc, rows, config, excused, loose>>

\* The frames being saved beside f.
Beside(f) == {g \in Frames \ {f} : thread[g].at \in Saves}

\* take ends with a file in the incoming directory, and _finish begins to save it.  Frames
\* that are saved side by side need not agree on the drive of their nights.
Exposed(f) ==
  /\ job[f] = "exposing" /\ Job(f, "saving") /\ Moved(f, "incoming") /\ Step(f, "resolve")
  /\ loose' = loose \cup {Night[g] : g \in IF Beside(f) = {} THEN {} ELSE Beside(f) \cup {f}}
  /\ UNCHANGED <<Rest, locks, upsets, rows, config, excused>>

----------------------------------------------------------------------------
(* Saving, in a thread: _save *)

Mounted == mounted \cup {Internal}

\* _resolve: the drive of the night, a drive (the one with most room: any), or Internal.
Destinations(f) ==
  IF config.dest # Automatic THEN {config.dest} \cap Mounted
  ELSE IF config.lock.night = Night[f] THEN {config.lock.to} \cap mounted
  ELSE IF mounted # {} THEN mounted ELSE {Internal}

\* With _checked: full, or not writable.
Resolve(f) ==
  /\ ThreadAt(f, "resolve")
  /\ \/ /\ \E v \in Destinations(f) :
             thread' = [thread EXCEPT ![f] = [@ EXCEPT !.at = "count", !.to = v]]
        /\ UNCHANGED upsets
     \/ Destinations(f) = {} /\ Refused(f) /\ UNCHANGED upsets
     \/ Upset /\ Refused(f)
  /\ UNCHANGED <<Rest, locks, job, loc, rows, config, excused, loose>>

\* (Mutant) A drive being ejected is not left alone.
Admit_Anyway(f) ==
  /\ ThreadAt(f, "count")
  /\ LET v == thread[f].to IN
     /\ writing' = [writing EXCEPT ![v] = @ + 1]
     /\ thread' = [thread EXCEPT ![f] = [@ EXCEPT !.at = "place", !.counted = TRUE,
            !.locks = config.dest = Automatic /\ v # Internal /\ config.lock.night # Night[f]]]
  /\ UNCHANGED <<Rest, ejecting, upsets, job, loc, rows, config, excused, loose>>

\* Under the lock that ejecting takes; the rest goes by the configuration of this moment.
Admit(f) ==
  /\ ThreadAt(f, "count")
  /\ LET v == thread[f].to IN
     \/ v \in ejecting /\ Refused(f) /\ UNCHANGED useVars
     \/ /\ BeginWrite(v)
        /\ thread' = [thread EXCEPT ![f] = [@ EXCEPT !.at = "place", !.counted = TRUE,
               !.locks = config.dest = Automatic /\ v # Internal /\ config.lock.night # Night[f]]]
  /\ UNCHANGED <<moves, slipped, upsets, job, loc, rows, config, excused, loose>>

\* (Mutant) A frame that could not be moved is entered in the catalog all the same.
Place_GoesOn(f) ==
  /\ ThreadAt(f, "place") /\ Step(f, "catalog")
  /\ \/ thread[f].to \in Mounted /\ Moved(f, thread[f].to) /\ UNCHANGED upsets
     \/ Upset /\ UNCHANGED loc
  /\ UNCHANGED <<Rest, locks, job, rows, config, excused, loose>>

\* mkdir and place.  Under an empty mount point the directory is on the system's disk, where
\* nocsd may write or not.
Place(f) ==
  /\ ThreadAt(f, "place")
  /\ \/ /\ Moved(f, IF thread[f].to \in Mounted THEN thread[f].to ELSE "under")
        /\ Step(f, "catalog") /\ UNCHANGED upsets
     \/ thread[f].to \notin Mounted /\ Refused(f) /\ UNCHANGED <<loc, upsets>>
     \/ Upset /\ Refused(f) /\ UNCHANGED loc
  /\ UNCHANGED <<Rest, locks, job, rows, config, excused, loose>>

\* add_frame, one transaction.
CatalogRow(f) ==
  /\ ThreadAt(f, "catalog")
  /\ \/ /\ rows' = [rows EXCEPT ![f] = thread[f].to] /\ UNCHANGED upsets
        /\ thread' = [thread EXCEPT ![f] = [@ EXCEPT !.ok = ~thread[f].locks,
                               !.at = IF thread[f].locks THEN "lock" ELSE "uncount"]]
     \/ Upset /\ Refused(f) /\ UNCHANGED rows
  /\ UNCHANGED <<Rest, locks, job, loc, config, excused, loose>>

\* (Mutant) The lock of the night is kept for the next frame's thread only.
LockNight_Not(f) ==
  /\ ThreadAt(f, "lock")
  /\ thread' = [thread EXCEPT ![f] = [@ EXCEPT !.ok = TRUE, !.at = "uncount"]]
  /\ UNCHANGED <<Rest, locks, upsets, job, loc, rows, config, excused, loose>>

\* _update of auto_lock, whose file may not be writable.
LockNight(f) ==
  /\ ThreadAt(f, "lock")
  /\ \/ /\ config' = [config EXCEPT !.lock = [night |-> Night[f], to |-> thread[f].to]]
        /\ thread' = [thread EXCEPT ![f] = [@ EXCEPT !.ok = TRUE, !.at = "uncount"]]
        /\ UNCHANGED <<upsets, loose>>
     \/ Upset /\ Refused(f) /\ loose' = loose \cup {Night[f]} /\ UNCHANGED config
  /\ UNCHANGED <<Rest, locks, job, loc, rows, excused>>

\* (Mutant) A frame that could not be saved only fails its job.
Saved_KeepsNothing(f) ==
  /\ ThreadAt(f, "uncount")
  /\ IF thread[f].counted THEN EndWrite(thread[f].to) ELSE UNCHANGED useVars
  /\ thread' = [thread EXCEPT ![f] = Resting]
  /\ IF job[f] = "saving" THEN Job(f, IF thread[f].ok THEN "done" ELSE "failed")
     ELSE UNCHANGED job
  /\ UNCHANGED <<moves, slipped, upsets, loc, rows, config, excused, loose>>

\* The end of save, which uncounts the frame, and _finish if its job still waits: a frame
\* that could not be saved is kept aside, in another thread.
Saved(f) ==
  /\ ThreadAt(f, "uncount")
  /\ IF thread[f].counted THEN EndWrite(thread[f].to) ELSE UNCHANGED useVars
  /\ thread' = [thread EXCEPT ![f] =
       [Resting EXCEPT !.at = IF job[f] = "saving" /\ ~thread[f].ok THEN "keep" ELSE "none"]]
  /\ IF job[f] = "saving" THEN Job(f, IF thread[f].ok THEN "done" ELSE "keeping")
     ELSE UNCHANGED job
  /\ UNCHANGED <<moves, slipped, upsets, loc, rows, config, excused, loose>>

\* keep_unsaved: deletes the frame when there is no room for it either.  A frame already
\* on its drive is left there.
KeepUnsaved(f) ==
  /\ ThreadAt(f, "keep")
  /\ \/ /\ IF loc[f] = "incoming" THEN Moved(f, "unsaved") ELSE UNCHANGED loc
        /\ UNCHANGED <<upsets, excused>>
     \/ /\ loc[f] = "incoming" /\ Upset /\ excused' = excused \cup {f}
        /\ \E place \in {"gone", "incoming"} : Moved(f, place)
  /\ Step(f, "none") /\ IF job[f] = "keeping" THEN Job(f, "failed") ELSE UNCHANGED job
  /\ UNCHANGED <<Rest, locks, rows, config, loose>>

----------------------------------------------------------------------------
(* What comes from outside *)

\* The job is cancelled; a thread at work for it goes on.
Cancel(f) ==
  /\ job[f] \in Active /\ Job(f, "cancelled")
  /\ UNCHANGED <<Rest, locks, upsets, thread, loc, rows, config, excused, loose>>

\* choose
Choose(v) ==
  /\ Upset
  /\ v \in {Automatic} \cup Mounted
  /\ config' = [dest |-> v, lock |-> NoLock]
  /\ loose' = {Night[f] : f \in Frames}
  /\ UNCHANGED <<useVars, frames, moves, slipped, excused>>

\* nocsd is stopped and started: frames left in its incoming directory are deleted.
Crash ==
  /\ Upset
  /\ ForgetUse
  /\ job' = [f \in Frames |-> IF job[f] \in Active THEN "cancelled" ELSE job[f]]
  /\ thread' = [f \in Frames |-> Resting]
  /\ loc' = [f \in Frames |-> IF loc[f] = "incoming" THEN "gone" ELSE loc[f]]
  /\ loose' = loose \cup {Night[f] : f \in {g \in Frames : ThreadAt(g, "lock")}}
  /\ UNCHANGED <<rows, config, moves, slipped, excused>>

\* Drives come and go, or are ejected; a frame may lose its drive at the wrong moment.
DriveStep(d) ==
  /\ \/ (Appears(d) \/ BeginEject(d)) /\ moves < MaxMoves /\ moves' = moves + 1
     \/ (Disappears(d) \/ (d \in ejecting /\ EndEject(d))) /\ UNCHANGED moves
  /\ slipped' = slipped \cup {f \in Frames : /\ thread[f].at \in {"count", "place"}
                                            /\ thread[f].to \notin mounted' \cup {Internal}}
  /\ UNCHANGED <<frames, more>>

----------------------------------------------------------------------------
Saver(f) ==
  \/ Resolve(f) \/ Admit(f) \/ Place(f) \/ CatalogRow(f) \/ LockNight(f)
  \/ Saved(f) \/ KeepUnsaved(f)

Next ==
  \/ \E d \in Drives : DriveStep(d)
  \/ \E f \in Frames : \/ Expose(f) \/ Exposed(f) \/ Cancel(f) \/ Saver(f)
  \/ \E v \in Volumes \cup {Automatic} : Choose(v)
  \/ Crash

Spec == Init /\ [][Next]_vars

----------------------------------------------------------------------------
(* Properties *)

\* Saving keeps its side of what it promises those who eject drives.
ImplementsUse == UseSpec

\* The catalog finds a frame where it was put, but for a frame whose drive went after it
\* was checked and before the frame was moved.
CatalogIsTrue == \A f \in Frames \ slipped : rows[f] # None => loc[f] = rows[f]

\* A frame whose job was not cancelled is on a volume, or kept aside, unless it could not be.
FramesAreKept ==
  \A f \in Frames : job[f] \in {"done", "failed"} =>
    loc[f] \in Volumes \cup {"unsaved", "under"} \/ f \in excused

\* Once a frame of a night went to a drive of its own accord, the night's next ones do too,
\* or nowhere: not when the user chose otherwise, when two were saved side by side, or when
\* the lock of the night could not be noted.
NightStaysTogether ==
  [][\A f, g \in Frames :
       rows'[g] # rows[g] /\ rows[f] \in Drives /\ Night[f] = Night[g] /\ Night[g] \notin loose
         => rows'[g] = rows[f]]_vars

\* docs/adr/0013: "There is never a silent switch to another disk."
NeverSwitched == \A f \in Frames : loc[f] # "under"
=============================================================================
