---------------------------- MODULE Storage_proofs ----------------------------
(***************************************************************************)
(* For any frames and drives, any requests to eject them and any bounds:    *)
(* the catalog is true, frames are kept, a night stays on its drive, and    *)
(* saving frames and ejecting drives each implement DriveUse, so a frame is *)
(* never being saved to a drive that is marked as being ejected.  Of the     *)
(* marks only: nocs-system may unmount a drive after a request timed out     *)
(* and its mark went (Drives: EjectsWait, which is false).                   *)
(***************************************************************************)
EXTENDS Saving, TLAPS

CONSTANTS Ejects, MaxPlugs, MaxFaults
VARIABLES attached, unmounted, present, tried, ejected, errors, task, answer, queue, plugs,
          faults, missed

\* The other side: the same drives, mounted and ejected.
D == INSTANCE Drives

----------------------------------------------------------------------------
(* What those who use drives promise each other *)

LEMMA UseTyped == UseTypeOK /\ [UseNext]_useVars => UseTypeOK'
<1> SUFFICES ASSUME UseTypeOK, [UseNext]_useVars PROVE UseTypeOK'
  OBVIOUS
<1> USE DEF UseTypeOK, useVars, locks
<1>1. ASSUME NEW d \in Drives, Appears(d) \/ Disappears(d) \/ BeginEject(d) \/ EndEject(d)
      PROVE  UseTypeOK'
  BY <1>1 DEF Appears, Disappears, BeginEject, EndEject
<1>2. ASSUME NEW v \in Volumes, BeginWrite(v) \/ EndWrite(v) PROVE UseTypeOK'
  BY <1>2 DEF BeginWrite, EndWrite
<1>3. CASE ForgetUse
  BY <1>3 DEF ForgetUse
<1>4. CASE UNCHANGED useVars
  BY <1>4
<1>5. QED
  BY <1>1, <1>2, <1>3, <1>4 DEF UseNext

\* What the two marks exclude for whoever keeps to DriveUse (StorageService._lock).
LEMMA UseExcludes == UseSpec => []NoEjectWhileWriting
<1> DEFINE UseInv == UseTypeOK /\ NoEjectWhileWriting
<1>1. UseInit => UseInv
  BY DEF UseInit, UseTypeOK, NoEjectWhileWriting, Volumes
<1>2. UseInv /\ [UseNext]_useVars => UseInv'
  <2> SUFFICES ASSUME UseInv, [UseNext]_useVars PROVE NoEjectWhileWriting'
    BY UseTyped
  <2> USE DriveUseAssumption DEF UseTypeOK, NoEjectWhileWriting, Volumes, locks
  <2>1. ASSUME NEW d \in Drives, Appears(d) \/ Disappears(d) \/ BeginEject(d) \/ EndEject(d)
        PROVE  NoEjectWhileWriting'
    BY <2>1 DEF Appears, Disappears, BeginEject, EndEject
  <2>2. ASSUME NEW v \in Volumes, BeginWrite(v) \/ EndWrite(v) PROVE NoEjectWhileWriting'
    BY <2>2 DEF BeginWrite, EndWrite
  <2>3. CASE ForgetUse \/ UNCHANGED useVars
    BY <2>3 DEF ForgetUse, useVars
  <2>4. QED
    BY <2>1, <2>2, <2>3 DEF UseNext
<1>3. QED
  BY <1>1, <1>2, PTL DEF UseSpec

----------------------------------------------------------------------------
(* Saving frames *)

(* What is true of every frame: where its thread is tells where its file is. *)

ThreadType ==
  [at : Saves \cup {"none", "keep"}, to : Volumes \cup {None}, locks : BOOLEAN,
   counted : BOOLEAN, ok : BOOLEAN]

ConfigType == [dest : Volumes \cup {Automatic}, lock : [night : Nat, to : Volumes \cup {None}]]

SavingTypes ==
  /\ UseTypeOK
  /\ job \in [Frames -> Active \cup {"none", "done", "failed", "cancelled"}]
  /\ thread \in [Frames -> ThreadType]
  /\ loc \in [Frames -> Volumes \cup {"none", "incoming", "unsaved", "under", "gone"}]
  /\ rows \in [Frames -> Volumes \cup {None}]
  /\ config \in ConfigType

\* A thread that chose a destination has one, and it is mounted until the file is moved.
ThreadOf(f) ==
  /\ thread[f].at \in {"count", "place", "catalog", "lock"} => thread[f].to \in Volumes
  /\ thread[f].counted => thread[f].to \in Volumes
  /\ thread[f].at \in {"count", "place"} /\ f \notin slipped => thread[f].to \in Mounted
  /\ thread[f].at = "catalog" /\ f \notin slipped => loc[f] = thread[f].to

\* A frame is in the catalog only after its thread came that far.
RowOf(f) ==
  /\ job[f] \in {"none", "exposing"} => thread[f].at = "none" /\ rows[f] = None
  /\ thread[f].at \in {"resolve", "count", "place", "catalog"} => rows[f] = None
  /\ rows[f] # None /\ f \notin slipped => loc[f] = rows[f]

IInv == SavingTypes /\ \A f \in Frames : ThreadOf(f) /\ RowOf(f)

LEMMA InitInv == Init => IInv
<1> SUFFICES ASSUME Init PROVE IInv
  OBVIOUS
<1>1. Resting \in ThreadType
  BY DEF Resting, ThreadType, None
<1>2. config \in ConfigType
  <2>1. NoLock \in [night : Nat, to : Volumes \cup {None}]
    BY DEF NoLock
  <2>2. config = [dest |-> Automatic, lock |-> NoLock]
    BY DEF Init
  <2>3. QED
    BY <2>1, <2>2 DEF ConfigType
<1>3. UseTypeOK /\ job \in [Frames -> {"none"}] /\ rows \in [Frames -> {None}]
  BY DEF Init, UseInit, UseTypeOK
<1>4. thread \in [Frames -> ThreadType]
  BY <1>1 DEF Init
<1>5. SavingTypes
  BY <1>2, <1>3, <1>4 DEF Init, SavingTypes
<1>6. ASSUME NEW f \in Frames PROVE ThreadOf(f) /\ RowOf(f)
  BY DEF Init, ThreadOf, RowOf, Resting
<1>7. QED
  BY <1>5, <1>6 DEF IInv

\* A step that concerns one frame leaves the others alone.
OnlyOf(f) ==
  /\ mounted' = mounted /\ slipped' = slipped
  /\ \A g \in Frames \ {f} : /\ thread'[g] = thread[g] /\ job'[g] = job[g]
                            /\ loc'[g] = loc[g] /\ rows'[g] = rows[g]

LEMMA Others ==
  ASSUME IInv, NEW f \in Frames, OnlyOf(f), SavingTypes', ThreadOf(f)', RowOf(f)'
  PROVE IInv'
<1>1. ASSUME NEW g \in Frames \ {f} PROVE ThreadOf(g)' /\ RowOf(g)'
  BY DEF IInv, ThreadOf, RowOf, OnlyOf, Mounted
<1>2. QED
  BY <1>1 DEF IInv

\* A record of a thread with some fields replaced.
LEMMA Stepped ==
  ASSUME thread \in [Frames -> ThreadType], NEW f \in Frames, NEW t \in ThreadType,
         thread' = [thread EXCEPT ![f] = t]
  PROVE  thread' \in [Frames -> ThreadType] /\ thread'[f] = t
         /\ \A g \in Frames \ {f} : thread'[g] = thread[g]
OBVIOUS

LEMMA StepTo ==
  ASSUME thread \in [Frames -> ThreadType], NEW f \in Frames, NEW s \in Saves \cup {"none", "keep"},
         Step(f, s)
  PROVE  /\ thread' \in [Frames -> ThreadType] /\ thread'[f].at = s
         /\ thread'[f].to = thread[f].to /\ thread'[f].counted = thread[f].counted
         /\ thread'[f].locks = thread[f].locks /\ thread'[f].ok = thread[f].ok
         /\ \A g \in Frames \ {f} : thread'[g] = thread[g]
<1> DEFINE t == [thread[f] EXCEPT !.at = s]
<1>1. t \in ThreadType /\ t.at = s /\ t.to = thread[f].to /\ t.counted = thread[f].counted
      /\ t.locks = thread[f].locks /\ t.ok = thread[f].ok
  BY DEF ThreadType
<1>2. thread' = [thread EXCEPT ![f] = t]
  BY DEF Step
<1>3. QED
  BY <1>1, <1>2, Stepped

LEMMA ThreadSteps ==
  ASSUME IInv, NEW f \in Frames, Saver(f) \/ Expose(f) \/ Exposed(f) \/ Cancel(f)
  PROVE IInv'
<1> USE DEF IInv, SavingTypes, OnlyOf, Job, Moved, Rest, Refused, ThreadAt, locks, useVars
<1>t. thread[f] \in ThreadType /\ ThreadOf(f) /\ RowOf(f)
  OBVIOUS
<1>s. {"none", "keep", "resolve", "count", "place", "catalog", "lock", "uncount"}
        = Saves \cup {"none", "keep"}
  BY DEF Saves
<1>1. CASE Expose(f)
  <2>1. SavingTypes' /\ OnlyOf(f)
    BY <1>1 DEF Expose, UseTypeOK, Active
  <2>2. ThreadOf(f)' /\ RowOf(f)'
    BY <1>1, <1>t DEF Expose, ThreadOf, RowOf, Mounted
  <2>3. QED
    BY <2>1, <2>2, Others
<1>2. CASE Exposed(f)
  <2>1. Step(f, "resolve")
    BY <1>2 DEF Exposed
  <2>2. SavingTypes' /\ OnlyOf(f)
    BY <1>2, <2>1, <1>s, StepTo DEF Exposed, UseTypeOK, Active
  <2>3. ThreadOf(f)' /\ RowOf(f)'
    BY <1>2, <1>t, <2>1, <1>s, StepTo DEF Exposed, ThreadOf, RowOf, Mounted
  <2>4. QED
    BY <2>2, <2>3, Others
<1>3. CASE Cancel(f)
  <2>1. SavingTypes' /\ OnlyOf(f)
    BY <1>3 DEF Cancel, UseTypeOK
  <2>2. ThreadOf(f)' /\ RowOf(f)'
    BY <1>3, <1>t DEF Cancel, ThreadOf, RowOf, Mounted
  <2>3. QED
    BY <2>1, <2>2, Others
\* The thread gives up, wherever it is.
<1>r. ASSUME thread[f].at # "none", Refused(f),
             UNCHANGED <<useVars, slipped, job, loc, rows, config>>
      PROVE  IInv'
  <2>0. /\ thread' \in [Frames -> ThreadType] /\ thread'[f].at = "uncount"
        /\ thread'[f].to = thread[f].to /\ thread'[f].counted = thread[f].counted
        /\ \A g \in Frames \ {f} : thread'[g] = thread[g]
    BY <1>r, <1>s, StepTo
  <2>1. SavingTypes' /\ OnlyOf(f)
    BY <1>r, <2>0 DEF UseTypeOK
  <2>2. ThreadOf(f)' /\ RowOf(f)'
    BY <1>r, <1>t, <2>0 DEF ThreadOf, RowOf
  <2>3. QED
    BY <2>1, <2>2, Others
<1>4. CASE Resolve(f)
  <2>1. Destinations(f) \subseteq Mounted /\ Mounted \subseteq Volumes
    BY DEF Destinations, Mounted, Volumes, UseTypeOK
  <2>2. ASSUME NEW v \in Destinations(f),
               thread' = [thread EXCEPT ![f] = [@ EXCEPT !.at = "count", !.to = v]]
        PROVE IInv'
    <3> DEFINE t == [thread[f] EXCEPT !.at = "count", !.to = v]
    <3>1. /\ t \in ThreadType /\ t.at = "count" /\ t.to = v
          /\ t.counted = thread[f].counted
      BY <1>t, <1>s, <2>1 DEF ThreadType
    <3>2. /\ thread' \in [Frames -> ThreadType] /\ thread'[f] = t
          /\ \A g \in Frames \ {f} : thread'[g] = thread[g]
      BY <2>2, <3>1, Stepped
    <3> HIDE DEF t
    <3>3. SavingTypes' /\ OnlyOf(f)
      BY <1>4, <3>2 DEF Resolve, UseTypeOK
    <3>4. ThreadOf(f)' /\ RowOf(f)'
      BY <1>4, <1>t, <2>1, <3>1, <3>2 DEF Resolve, ThreadOf, RowOf, Mounted
    <3>5. QED
      BY <3>3, <3>4, Others
  <2>3. QED
    BY <1>4, <1>r, <2>2 DEF Resolve
<1>5. CASE Admit(f)
  <2>1. ASSUME BeginWrite(thread[f].to), thread[f].at = "count",
               NEW b \in BOOLEAN,
               thread' = [thread EXCEPT ![f] = [@ EXCEPT !.at = "place", !.counted = TRUE,
                                                         !.locks = b]]
        PROVE IInv'
    <3> DEFINE t == [thread[f] EXCEPT !.at = "place", !.counted = TRUE, !.locks = b]
    <3>1. t \in ThreadType /\ t.at = "place" /\ t.to = thread[f].to
      BY <1>t, <1>s DEF ThreadType
    <3>2. /\ thread' \in [Frames -> ThreadType] /\ thread'[f] = t
          /\ \A g \in Frames \ {f} : thread'[g] = thread[g]
      BY <2>1, <3>1, Stepped
    <3> HIDE DEF t
    <3>a. thread[f].to \in Volumes
      BY <1>t, <2>1 DEF ThreadOf
    <3>b. UseTypeOK'
      BY <2>1, <3>a DEF BeginWrite, UseTypeOK
    <3>3. SavingTypes' /\ OnlyOf(f)
      BY <1>5, <2>1, <3>2, <3>b DEF Admit, BeginWrite
    <3>4. ThreadOf(f)' /\ RowOf(f)'
      BY <1>5, <1>t, <2>1, <3>1, <3>2 DEF Admit, BeginWrite, ThreadOf, RowOf, Mounted
    <3>5. QED
      BY <3>3, <3>4, Others
  <2>2. QED
    BY <1>5, <1>r, <2>1 DEF Admit
<1>6. CASE Place(f)
  <2>1. ASSUME Step(f, "catalog"),
               loc' = [loc EXCEPT ![f] = IF thread[f].to \in Mounted THEN thread[f].to ELSE "under"]
        PROVE IInv'
    <3>1. SavingTypes' /\ OnlyOf(f)
      BY <1>6, <1>s, <1>t, <2>1, StepTo DEF Place, UseTypeOK, ThreadOf
    <3>2. ThreadOf(f)' /\ RowOf(f)'
      BY <1>6, <1>s, <1>t, <2>1, StepTo DEF Place, ThreadOf, RowOf, Mounted
    <3>3. QED
      BY <3>1, <3>2, Others
  <2>2. QED
    BY <1>6, <1>r, <2>1 DEF Place
<1>7. CASE CatalogRow(f)
  <2>1. ASSUME rows' = [rows EXCEPT ![f] = thread[f].to], thread[f].at = "catalog",
               NEW b \in BOOLEAN, NEW s \in {"lock", "uncount"},
               thread' = [thread EXCEPT ![f] = [@ EXCEPT !.ok = b, !.at = s]]
        PROVE IInv'
    <3> DEFINE t == [thread[f] EXCEPT !.ok = b, !.at = s]
    <3>1. /\ t \in ThreadType /\ t.at = s /\ t.to = thread[f].to
          /\ t.counted = thread[f].counted
      BY <1>t, <1>s DEF ThreadType
    <3>2. /\ thread' \in [Frames -> ThreadType] /\ thread'[f] = t
          /\ \A g \in Frames \ {f} : thread'[g] = thread[g]
      BY <2>1, <3>1, Stepped
    <3> HIDE DEF t
    <3>3. SavingTypes' /\ OnlyOf(f)
      BY <1>7, <1>t, <2>1, <3>2 DEF CatalogRow, UseTypeOK, ThreadOf
    <3>4. ThreadOf(f)' /\ RowOf(f)'
      BY <1>7, <1>t, <2>1, <3>1, <3>2 DEF CatalogRow, ThreadOf, RowOf, Mounted
    <3>5. QED
      BY <3>3, <3>4, Others
  <2>2. thread[f].locks \in BOOLEAN
    BY <1>t DEF ThreadType
  <2>3. QED
    BY <1>7, <1>r, <2>1, <2>2 DEF CatalogRow
<1>8. CASE LockNight(f)
  <2>1. ASSUME config' = [config EXCEPT !.lock = [night |-> Night[f], to |-> thread[f].to]],
               thread' = [thread EXCEPT ![f] = [@ EXCEPT !.ok = TRUE, !.at = "uncount"]]
        PROVE IInv'
    <3> DEFINE t == [thread[f] EXCEPT !.ok = TRUE, !.at = "uncount"]
               l == [night |-> Night[f], to |-> thread[f].to]
    <3>1. /\ t \in ThreadType /\ t.at = "uncount" /\ t.to = thread[f].to
          /\ t.counted = thread[f].counted
      BY <1>t, <1>s DEF ThreadType
    <3>2. /\ thread' \in [Frames -> ThreadType] /\ thread'[f] = t
          /\ \A g \in Frames \ {f} : thread'[g] = thread[g]
      BY <2>1, <3>1, Stepped
    <3>3. l \in [night : Nat, to : Volumes \cup {None}]
      BY <1>t, SavingAssumption DEF ThreadType
    <3>4. config' \in ConfigType
      BY <2>1, <3>3 DEF ConfigType
    <3> HIDE DEF t, l
    <3>5. SavingTypes' /\ OnlyOf(f)
      BY <1>8, <3>2, <3>4 DEF LockNight, UseTypeOK
    <3>6. ThreadOf(f)' /\ RowOf(f)'
      BY <1>8, <1>t, <3>1, <3>2 DEF LockNight, ThreadOf, RowOf, Mounted
    <3>7. QED
      BY <3>5, <3>6, Others
  <2>2. QED
    BY <1>8, <1>r, <2>1 DEF LockNight
<1>9. CASE Saved(f)
  <2>1. ASSUME NEW s \in {"keep", "none"}, thread' = [thread EXCEPT ![f] = [Resting EXCEPT !.at = s]]
        PROVE IInv'
    <3> DEFINE t == [Resting EXCEPT !.at = s]
    <3>1. t \in ThreadType /\ t.at = s /\ t.counted = FALSE
      BY <1>s DEF ThreadType, Resting, None
    <3>2. /\ thread' \in [Frames -> ThreadType] /\ thread'[f] = t
          /\ \A g \in Frames \ {f} : thread'[g] = thread[g]
      BY <2>1, <3>1, Stepped
    <3> HIDE DEF t
    <3>3. OnlyOf(f) /\ UseTypeOK'
      BY <1>9, <1>t, <3>2 DEF Saved, EndWrite, UseTypeOK, ThreadOf
    <3>4. SavingTypes'
      BY <1>9, <3>2, <3>3 DEF Saved, Active
    <3>5. ThreadOf(f)' /\ RowOf(f)'
      BY <1>9, <1>t, <3>1, <3>2 DEF Saved, EndWrite, ThreadOf, RowOf, Mounted
    <3>6. QED
      BY <3>3, <3>4, <3>5, Others
  <2>2. QED
    BY <1>9, <2>1 DEF Saved
<1>10. CASE KeepUnsaved(f)
  <2>1. Step(f, "none")
    BY <1>10 DEF KeepUnsaved
  <2>2. rows[f] # "incoming"
    BY SavingAssumption DEF Volumes, Internal, None
  <2>3. SavingTypes' /\ OnlyOf(f)
    BY <1>10, <1>s, <2>1, StepTo DEF KeepUnsaved, UseTypeOK
  <2>4. ThreadOf(f)' /\ RowOf(f)'
    BY <1>10, <1>s, <1>t, <2>1, <2>2, StepTo DEF KeepUnsaved, ThreadOf, RowOf, Mounted
  <2>5. QED
    BY <2>3, <2>4, Others
<1>11. QED
  BY <1>1, <1>2, <1>3, <1>4, <1>5, <1>6, <1>7, <1>8, <1>9, <1>10 DEF Saver

LEMMA ChooseKeeps == ASSUME IInv, NEW v \in Volumes \cup {Automatic}, Choose(v) PROVE IInv'
<1> USE DEF IInv, SavingTypes, Choose, frames, useVars, locks
<1>1. NoLock \in [night : Nat, to : Volumes \cup {None}]
  BY DEF NoLock
<1>2. config' \in ConfigType
  BY <1>1 DEF ConfigType
<1>3. SavingTypes'
  BY <1>2 DEF UseTypeOK
<1>4. ASSUME NEW f \in Frames PROVE ThreadOf(f)' /\ RowOf(f)'
  BY DEF ThreadOf, RowOf, Mounted
<1>5. QED
  BY <1>3, <1>4

\* A new nocsd: no thread is left, and a frame that was in the incoming directory had no row.
LEMMA CrashKeeps == ASSUME IInv, Crash PROVE IInv'
<1> USE DEF IInv, SavingTypes, Crash
<1>1. Resting \in ThreadType /\ Resting.at = "none" /\ Resting.counted = FALSE
  BY DEF Resting, ThreadType, None
<1>2. UseTypeOK'
  BY DEF ForgetUse, UseTypeOK
<1>3. thread' \in [Frames -> ThreadType]
  BY <1>1
<1>4. SavingTypes'
  BY <1>2, <1>3 DEF Active
<1>5. "incoming" \notin Volumes
  BY SavingAssumption DEF Volumes, Internal
<1>6. ASSUME NEW f \in Frames PROVE ThreadOf(f)' /\ RowOf(f)'
  <2>1. ThreadOf(f) /\ RowOf(f)
    OBVIOUS
  <2>2. thread'[f] = Resting /\ slipped' = slipped /\ rows' = rows
    OBVIOUS
  <2>3. loc[f] # "incoming" => loc'[f] = loc[f]
    OBVIOUS
  <2>4. rows[f] \in Volumes \cup {None}
    OBVIOUS
  <2>5. job'[f] \in {"none", "exposing"} => job[f] = "none"
    BY DEF Active
  <2>6. QED
    BY <1>1, <1>5, <2>1, <2>2, <2>3, <2>4, <2>5 DEF ThreadOf, RowOf
<1>7. QED
  BY <1>4, <1>6

\* A drive that goes under a thread which checked it makes the frame an exception.
LEMMA DriveKeeps == ASSUME IInv, NEW d \in Drives, DriveStep(d) PROVE IInv'
<1> USE DEF IInv, SavingTypes, DriveStep, frames, more
<1>1. UseTypeOK'
  BY DEF Appears, Disappears, BeginEject, EndEject, locks, UseTypeOK
<1>2. SavingTypes'
  BY <1>1
<1>3. ASSUME NEW f \in Frames PROVE ThreadOf(f)' /\ RowOf(f)'
  <2>1. ThreadOf(f) /\ RowOf(f) /\ thread' = thread /\ loc' = loc /\ rows' = rows /\ job' = job
    OBVIOUS
  <2>2. slipped \subseteq slipped'
    OBVIOUS
  <2>3. thread[f].at \in {"count", "place"} /\ f \notin slipped'
          => thread[f].to \in mounted' \cup {Internal}
    OBVIOUS
  <2>4. QED
    BY <2>1, <2>2, <2>3 DEF ThreadOf, RowOf, Mounted
<1>4. QED
  BY <1>2, <1>3

LEMMA StepKeeps == IInv /\ [Next]_vars => IInv'
<1> SUFFICES ASSUME IInv, [Next]_vars PROVE IInv'
  OBVIOUS
<1>1. CASE Next
  BY <1>1, ThreadSteps, ChooseKeeps, CrashKeeps, DriveKeeps DEF Next
<1>2. CASE UNCHANGED vars
  BY <1>2 DEF vars, useVars, locks, frames, more, IInv, SavingTypes, UseTypeOK,
              ThreadOf, RowOf, Mounted
<1>3. QED
  BY <1>1, <1>2

LEMMA Inductive == Spec => []IInv
<1>1. QED
  BY InitInv, StepKeeps, PTL DEF Spec

\* A row of the catalog (catalog.py: add_frame, called by storage.service: _save) names the
\* volume its frame is on, whatever fails, is cancelled or restarts on its way, but for a frame
\* whose drive went between _checked and place.  Only of frames that have a row: one that was
\* placed when nocsd crashed, or when add_frame failed, has none.
THEOREM CatalogTrue == Spec => []CatalogIsTrue
<1>1. IInv => CatalogIsTrue
  BY DEF IInv, RowOf, CatalogIsTrue
<1>2. QED
  BY <1>1, Inductive, PTL

----------------------------------------------------------------------------
(* Frames that are kept *)

Put == Volumes \cup {"unsaved", "under"}

\* A frame that its thread has put somewhere stays there; one that is still in the incoming
\* directory has a thread that knows, or was given up.
KeptOf(f) ==
  /\ thread[f].at \in Saves \cup {"keep"} => loc[f] \in {"incoming"} \cup Put
  /\ thread[f].at \in {"catalog", "lock"} \/ thread[f].ok => loc[f] \in Put
  /\ job[f] \in {"none", "exposing"} => ~thread[f].ok
  /\ job[f] = "keeping" => thread[f].at = "keep"
  /\ job[f] \in {"done", "failed"} => loc[f] \in Put \/ f \in excused

KeptInv == \A f \in Frames : KeptOf(f)

\* A step of f's own thread.
Turned(f) ==
  thread' \in [Frames -> ThreadType] /\ \A g \in Frames \ {f} : thread'[g] = thread[g]

\* It goes to s with all it had.
Goes(f, s) ==
  /\ Turned(f) /\ thread'[f].at = s /\ thread'[f].to = thread[f].to
  /\ thread'[f].locks = thread[f].locks /\ thread'[f].ok = thread[f].ok

LEMMA StepGoes ==
  ASSUME IInv, NEW f \in Frames, NEW s \in Saves \cup {"none", "keep"}, Step(f, s)
  PROVE  Goes(f, s)
BY StepTo DEF IInv, SavingTypes, Goes, Turned

LEMMA ResolveTurns ==
  ASSUME IInv, NEW f \in Frames, Resolve(f)
  PROVE  \/ Goes(f, "uncount")
         \/ /\ Turned(f) /\ thread'[f].at = "count" /\ thread'[f].to \in Destinations(f)
            /\ thread'[f].ok = thread[f].ok
<1> USE DEF IInv, SavingTypes
<1>1. {"uncount", "count"} \subseteq Saves
  BY DEF Saves
<1>2. Refused(f) => Goes(f, "uncount")
  BY <1>1, StepGoes DEF Refused
<1>3. ASSUME NEW v \in Destinations(f),
             thread' = [thread EXCEPT ![f] = [@ EXCEPT !.at = "count", !.to = v]]
      PROVE  Turned(f) /\ thread'[f].at = "count" /\ thread'[f].to = v /\ thread'[f].ok = thread[f].ok
  <2> DEFINE t == [thread[f] EXCEPT !.at = "count", !.to = v]
  <2>1. v \in Volumes
    BY DEF Destinations, Mounted, Volumes, UseTypeOK
  <2>2. t \in ThreadType /\ t.at = "count" /\ t.to = v /\ t.ok = thread[f].ok
    BY <1>1, <2>1 DEF ThreadType
  <2>3. thread' \in [Frames -> ThreadType] /\ thread'[f] = t
        /\ \A g \in Frames \ {f} : thread'[g] = thread[g]
    BY <1>3, <2>2, Stepped
  <2>4. QED
    BY <2>2, <2>3 DEF Turned
<1>4. QED
  BY <1>2, <1>3 DEF Resolve

LEMMA AdmitTurns ==
  ASSUME IInv, NEW f \in Frames, Admit(f)
  PROVE  \/ Goes(f, "uncount")
         \/ /\ Turned(f) /\ thread'[f].at = "place" /\ thread'[f].to = thread[f].to
            /\ thread'[f].ok = thread[f].ok
            /\ thread'[f].locks <=> /\ config.dest = Automatic /\ thread[f].to # Internal
                                   /\ config.lock.night # Night[f]
<1> USE DEF IInv, SavingTypes
<1>1. {"uncount", "place"} \subseteq Saves
  BY DEF Saves
<1>2. Refused(f) => Goes(f, "uncount")
  BY <1>1, StepGoes DEF Refused
<1> DEFINE b == config.dest = Automatic /\ thread[f].to # Internal /\ config.lock.night # Night[f]
           t == [thread[f] EXCEPT !.at = "place", !.counted = TRUE, !.locks = b]
<1>3. CASE thread' = [thread EXCEPT ![f] = [@ EXCEPT !.at = "place", !.counted = TRUE, !.locks = b]]
  <2>1. b \in BOOLEAN
    OBVIOUS
  <2> HIDE DEF b
  <2>2. t \in ThreadType /\ t.at = "place" /\ t.to = thread[f].to /\ t.locks = b /\ t.ok = thread[f].ok
    BY <1>1, <2>1 DEF ThreadType
  <2>3. thread' = [thread EXCEPT ![f] = t]
    BY <1>3
  <2> HIDE DEF t
  <2>4. thread' \in [Frames -> ThreadType] /\ thread'[f] = t
        /\ \A g \in Frames \ {f} : thread'[g] = thread[g]
    BY <2>2, <2>3, Stepped
  <2>5. QED
    BY <2>2, <2>4 DEF Turned, b
<1>4. QED
  BY <1>2, <1>3 DEF Admit

LEMMA PlaceTurns ==
  ASSUME IInv, NEW f \in Frames, Place(f)
  PROVE  \/ Goes(f, "uncount") /\ loc' = loc
         \/ Goes(f, "catalog") /\ loc'[f] \in Volumes \cup {"under"}
<1>1. {"uncount", "catalog"} \subseteq Saves
  BY DEF Saves
<1>2. (Step(f, "uncount") => Goes(f, "uncount")) /\ (Step(f, "catalog") => Goes(f, "catalog"))
  BY <1>1, StepGoes
<1>3. thread[f].to \in Volumes /\ loc \in [Frames -> Volumes \cup {"none", "incoming", "unsaved", "under", "gone"}]
  BY DEF Place, ThreadAt, IInv, SavingTypes, ThreadOf
<1>4. QED
  BY <1>2, <1>3 DEF Place, Refused, Moved

LEMMA RowTurns ==
  ASSUME IInv, NEW f \in Frames, CatalogRow(f)
  PROVE  \/ Goes(f, "uncount") /\ rows' = rows
         \/ /\ Turned(f) /\ thread'[f].to = thread[f].to
            /\ thread'[f].at = (IF thread[f].locks THEN "lock" ELSE "uncount")
            /\ rows' = [rows EXCEPT ![f] = thread[f].to]
<1> USE DEF IInv, SavingTypes
<1>1. {"uncount", "lock"} \subseteq Saves
  BY DEF Saves
<1>2. Refused(f) => Goes(f, "uncount")
  BY <1>1, StepGoes DEF Refused
<1> DEFINE s == IF thread[f].locks THEN "lock" ELSE "uncount"
           t == [thread[f] EXCEPT !.ok = ~thread[f].locks, !.at = s]
<1>3. ASSUME thread' = [thread EXCEPT ![f] = [@ EXCEPT !.ok = ~thread[f].locks, !.at = s]]
      PROVE  Turned(f) /\ thread'[f].to = thread[f].to /\ thread'[f].at = s
  <2>1. t \in ThreadType /\ t.at = s /\ t.to = thread[f].to
    BY <1>1 DEF ThreadType
  <2>2. thread' = [thread EXCEPT ![f] = t]
    BY <1>3
  <2> HIDE DEF t, s
  <2>3. thread' \in [Frames -> ThreadType] /\ thread'[f] = t
        /\ \A g \in Frames \ {f} : thread'[g] = thread[g]
    BY <2>1, <2>2, Stepped
  <2>4. QED
    BY <2>1, <2>3 DEF Turned, s
<1>4. QED
  BY <1>2, <1>3 DEF CatalogRow

LEMMA LockTurns ==
  ASSUME IInv, NEW f \in Frames, LockNight(f)
  PROVE  \/ Goes(f, "uncount") /\ config' = config /\ loose' = loose \cup {Night[f]}
         \/ /\ Turned(f) /\ thread'[f].at = "uncount" /\ loose' = loose
            /\ config' = [config EXCEPT !.lock = [night |-> Night[f], to |-> thread[f].to]]
<1> USE DEF IInv, SavingTypes
<1>1. "uncount" \in Saves
  BY DEF Saves
<1>2. Refused(f) => Goes(f, "uncount")
  BY <1>1, StepGoes DEF Refused
<1> DEFINE t == [thread[f] EXCEPT !.ok = TRUE, !.at = "uncount"]
<1>3. ASSUME thread' = [thread EXCEPT ![f] = [@ EXCEPT !.ok = TRUE, !.at = "uncount"]]
      PROVE  Turned(f) /\ thread'[f].at = "uncount"
  <2>1. t \in ThreadType /\ t.at = "uncount"
    BY <1>1 DEF ThreadType
  <2>2. thread' = [thread EXCEPT ![f] = t]
    BY <1>3
  <2> HIDE DEF t
  <2>3. thread' \in [Frames -> ThreadType] /\ thread'[f] = t
        /\ \A g \in Frames \ {f} : thread'[g] = thread[g]
    BY <2>1, <2>2, Stepped
  <2>4. QED
    BY <2>1, <2>3 DEF Turned
<1>4. QED
  BY <1>2, <1>3 DEF LockNight

LEMMA SavedTurns ==
  ASSUME IInv, NEW f \in Frames, Saved(f)
  PROVE  /\ Turned(f) /\ ~thread'[f].ok
         /\ thread'[f].at = IF job[f] = "saving" /\ ~thread[f].ok THEN "keep" ELSE "none"
<1> DEFINE s == IF job[f] = "saving" /\ ~thread[f].ok THEN "keep" ELSE "none"
           t == [Resting EXCEPT !.at = s]
<1>1. t \in ThreadType /\ t.at = s /\ ~t.ok
  BY DEF ThreadType, Resting, None
<1>2. thread' = [thread EXCEPT ![f] = t] /\ thread \in [Frames -> ThreadType]
  BY DEF Saved, IInv, SavingTypes
<1> HIDE DEF t, s
<1>3. thread' \in [Frames -> ThreadType] /\ thread'[f] = t
      /\ \A g \in Frames \ {f} : thread'[g] = thread[g]
  BY <1>1, <1>2, Stepped
<1>4. QED
  BY <1>1, <1>3 DEF Turned, s

\* The frames but f are as they were.
LEMMA KeptBut ==
  ASSUME KeptInv, NEW f \in Frames, excused \subseteq excused',
         \A g \in Frames \ {f} : /\ thread'[g] = thread[g] /\ job'[g] = job[g]
                                 /\ loc'[g] = loc[g],
         KeptOf(f)'
  PROVE  KeptInv'
<1>1. ASSUME NEW g \in Frames \ {f} PROVE KeptOf(g)'
  BY DEF KeptInv, KeptOf
<1>2. QED
  BY <1>1 DEF KeptInv

LEMMA SaverKeepsFrames ==
  ASSUME IInv, KeptInv, NEW f \in Frames, Saver(f)
  PROVE  KeptInv'
<1>k. KeptOf(f) /\ RowOf(f)
  BY DEF KeptInv, IInv
<1>t. job \in [Frames -> Active \cup {"none", "done", "failed", "cancelled"}]
      /\ loc \in [Frames -> Volumes \cup {"none", "incoming", "unsaved", "under", "gone"}]
  BY DEF IInv, SavingTypes
<1>s. Saves = {"resolve", "count", "place", "catalog", "lock", "uncount"}
  BY DEF Saves
<1>p. "incoming" \notin Put /\ Volumes \cup {"under", "unsaved"} \subseteq Put
  BY SavingAssumption DEF Put, Volumes, Internal
\* Up to the place, a step moves the thread only.
<1>1. ASSUME Turned(f), UNCHANGED <<job, loc, excused>>, thread[f].at \in Saves,
             thread'[f].at \in {"count", "place", "uncount"}, thread'[f].ok = thread[f].ok
      PROVE  KeptInv'
  <2>1. KeptOf(f)'
    BY <1>1, <1>k, <1>s DEF KeptOf, RowOf, Put
  <2>2. QED
    BY <1>1, <2>1, KeptBut DEF Turned
<1>2. CASE Resolve(f)
  <2>1. thread[f].at \in Saves /\ UNCHANGED <<job, loc, excused>>
    BY <1>2, <1>s DEF Resolve, ThreadAt
  <2>2. QED
    BY <1>1, <1>2, <2>1, ResolveTurns DEF Goes
<1>3. CASE Admit(f)
  <2>1. thread[f].at \in Saves /\ UNCHANGED <<job, loc, excused>>
    BY <1>3, <1>s DEF Admit, ThreadAt
  <2>2. QED
    BY <1>1, <1>3, <2>1, AdmitTurns DEF Goes
<1>4. CASE Place(f)
  <2>1. thread[f].at = "place" /\ UNCHANGED <<job, excused>>
    BY <1>4 DEF Place, ThreadAt
  <2>2. CASE Goes(f, "uncount") /\ loc' = loc
    BY <1>1, <1>s, <2>1, <2>2 DEF Goes
  <2>3. CASE Goes(f, "catalog") /\ loc'[f] \in Volumes \cup {"under"}
    <3>1. \A g \in Frames \ {f} : loc'[g] = loc[g]
      BY <1>4, <1>t DEF Place, Moved
    <3>2. KeptOf(f)'
      BY <1>k, <1>s, <2>1, <2>3 DEF KeptOf, RowOf, Goes, Put
    <3>3. QED
      BY <2>1, <2>3, <3>1, <3>2, KeptBut DEF Goes, Turned
  <2>4. QED
    BY <1>4, <2>2, <2>3, PlaceTurns
\* From there on the frame is where it was put.
<1>5. ASSUME Turned(f), UNCHANGED <<job, loc, excused>>, thread[f].at \in {"catalog", "lock"},
             thread'[f].at \in {"lock", "uncount"}
      PROVE  KeptInv'
  <2>1. KeptOf(f)'
    BY <1>5, <1>k, <1>s DEF KeptOf, RowOf, Put
  <2>2. QED
    BY <1>5, <2>1, KeptBut DEF Turned
<1>6. CASE CatalogRow(f)
  BY <1>5, <1>6, RowTurns DEF CatalogRow, ThreadAt, Goes
<1>7. CASE LockNight(f)
  BY <1>5, <1>7, LockTurns DEF LockNight, ThreadAt, Goes
<1>8. CASE Saved(f)
  <2>1. thread[f].at = "uncount" /\ UNCHANGED <<loc, excused>>
    BY <1>8 DEF Saved, ThreadAt
  <2>2. /\ job'[f] = (IF job[f] = "saving" THEN IF thread[f].ok THEN "done" ELSE "keeping"
                                           ELSE job[f])
        /\ \A g \in Frames \ {f} : job'[g] = job[g]
    BY <1>8, <1>t DEF Saved, Job
  <2>3. KeptOf(f)'
    BY <1>8, <1>k, <1>s, <2>1, <2>2, SavedTurns DEF KeptOf, RowOf
  <2>4. QED
    BY <1>8, <2>1, <2>2, <2>3, SavedTurns, KeptBut DEF Turned
<1>9. CASE KeepUnsaved(f)
  <2>1. thread[f].at = "keep" /\ Goes(f, "none")
    BY <1>9, StepGoes DEF KeepUnsaved, ThreadAt
  <2>2. /\ job'[f] = (IF job[f] = "keeping" THEN "failed" ELSE job[f])
        /\ \A g \in Frames \ {f} : job'[g] = job[g] /\ loc'[g] = loc[g]
        /\ excused \subseteq excused'
    BY <1>9, <1>t DEF KeepUnsaved, Job, Moved
  <2>3. \/ loc'[f] \in Put
        \/ loc[f] = "incoming" /\ f \in excused'
    BY <1>9, <1>k, <1>t, <1>p, <2>1 DEF KeepUnsaved, Moved, KeptOf
  <2>4. KeptOf(f)'
    BY <1>k, <1>p, <1>s, <2>1, <2>2, <2>3 DEF KeptOf, RowOf, Goes
  <2>5. QED
    BY <2>1, <2>2, <2>4, KeptBut DEF Goes, Turned
<1>10. QED
  BY <1>2, <1>3, <1>4, <1>6, <1>7, <1>8, <1>9 DEF Saver

LEMMA KeptStep == IInv /\ KeptInv /\ [Next]_vars => KeptInv'
<1> SUFFICES ASSUME IInv, KeptInv, [Next]_vars PROVE KeptInv'
  OBVIOUS
<1>s. Saves = {"resolve", "count", "place", "catalog", "lock", "uncount"}
  BY DEF Saves
<1>t. job \in [Frames -> Active \cup {"none", "done", "failed", "cancelled"}]
      /\ loc \in [Frames -> Volumes \cup {"none", "incoming", "unsaved", "under", "gone"}]
  BY DEF IInv, SavingTypes
<1>p. "incoming" \notin Put
  BY SavingAssumption DEF Put, Volumes, Internal
<1>1. ASSUME NEW f \in Frames, Expose(f) \/ Cancel(f) PROVE KeptInv'
  <2>1. KeptOf(f) /\ RowOf(f)
    BY DEF KeptInv, IInv
  <2>2. /\ UNCHANGED <<thread, loc, excused>> /\ \A g \in Frames \ {f} : job'[g] = job[g]
        /\ (job[f] = "none" /\ job'[f] = "exposing") \/ job'[f] = "cancelled"
    BY <1>1, <1>t DEF Expose, Cancel, Job
  <2>3. KeptOf(f)'
    BY <2>1, <2>2 DEF KeptOf
  <2>4. QED
    BY <2>2, <2>3, KeptBut
<1>2. ASSUME NEW f \in Frames, Exposed(f) PROVE KeptInv'
  <2>1. KeptOf(f) /\ RowOf(f)
    BY DEF KeptInv, IInv
  <2>2. Goes(f, "resolve")
    BY <1>2, <1>s, StepGoes DEF Exposed
  <2>3. /\ job[f] = "exposing" /\ job'[f] = "saving" /\ loc'[f] = "incoming" /\ excused' = excused
        /\ \A g \in Frames \ {f} : job'[g] = job[g] /\ loc'[g] = loc[g]
    BY <1>2, <1>t DEF Exposed, Job, Moved
  <2>4. KeptOf(f)'
    BY <2>1, <2>2, <2>3 DEF KeptOf, Goes
  <2>5. QED
    BY <2>2, <2>3, <2>4, KeptBut DEF Goes, Turned
<1>3. ASSUME UNCHANGED <<job, thread, loc, excused>> PROVE KeptInv'
  BY <1>3 DEF KeptInv, KeptOf
<1>4. CASE Crash
  <2>1. ASSUME NEW f \in Frames PROVE KeptOf(f)'
    <3>1. KeptOf(f)
      BY DEF KeptInv
    <3>2. thread'[f].at = "none" /\ ~thread'[f].ok /\ excused' = excused
      BY <1>4 DEF Crash, Resting
    <3>3. /\ job'[f] = (IF job[f] \in Active THEN "cancelled" ELSE job[f])
          /\ loc'[f] = (IF loc[f] = "incoming" THEN "gone" ELSE loc[f])
      BY <1>4 DEF Crash
    <3>4. job'[f] \in {"done", "failed"} => job'[f] = job[f]
      BY <3>3 DEF Active
    <3>5. job'[f] # "keeping"
      BY <3>3 DEF Active
    <3>6. QED
      BY <1>s, <1>p, <3>1, <3>2, <3>3, <3>4, <3>5 DEF KeptOf
  <2>2. QED
    BY <2>1 DEF KeptInv
<1>5. QED
  BY <1>1, <1>2, <1>3, <1>4, SaverKeepsFrames
     DEF Next, DriveStep, Choose, frames, more, vars

LEMMA KeptInductive == Spec => []KeptInv
<1>1. Init => KeptInv
  <2> SUFFICES ASSUME Init, NEW f \in Frames PROVE KeptOf(f)
    BY DEF KeptInv
  <2>1. job[f] = "none" /\ thread[f].at = "none" /\ ~thread[f].ok
    BY DEF Init, Resting
  <2>2. QED
    BY <2>1 DEF KeptOf, Saves
<1>2. QED
  BY <1>1, KeptStep, Inductive, PTL DEF Spec

\* A frame whose job ended by itself (capture.py: _finish) was put on a volume, or aside by
\* keep_unsaved, and stays there through whatever comes: cancelled jobs, drives that go,
\* restarts, which delete the incoming directory's frames only.
THEOREM FramesKept == Spec => []FramesAreKept
<1>1. KeptInv => FramesAreKept
  BY DEF KeptInv, KeptOf, Put, FramesAreKept
<1>2. QED
  BY <1>1, KeptInductive, PTL

----------------------------------------------------------------------------
(* Nights that stay together *)

\* What the theorem asks of the nights: the clock that names them does not go back.
NightsInOrder == \A f, g \in Frames : f <= g => Night[f] <= Night[g]

Tied(f) == Night[f] \notin loose

\* No frame of the night is being saved, or will be.
Over(n) ==
  \A g \in Frames : Night[g] = n => job[g] \notin {"none", "exposing"} /\ thread[g].at \notin Saves

\* The frames come one after the other, and a tied one has its thread to itself.
Ordered ==
  \A f, g \in Frames :
    /\ g < f /\ job[f] # "none" => job[g] \notin {"none", "exposing"}
    /\ f # g /\ thread[f].at \in Saves /\ thread[g].at \in Saves => ~Tied(f)
    /\ g < f /\ thread[g].at \in Saves /\ Tied(f) => rows[f] = None

\* What a thread knows of the lock of its night agrees with it.
LockAgrees(f) ==
  /\ thread[f].at = "lock" => rows[f] = thread[f].to
  /\ Tied(f) => config.dest = Automatic
  /\ Tied(f) /\ thread[f].at = "count" /\ config.lock.night = Night[f]
       => thread[f].to = config.lock.to
  /\ Tied(f) /\ thread[f].at \in {"place", "catalog"} /\ ~thread[f].locks /\ thread[f].to \in Drives
       => config.lock = [night |-> Night[f], to |-> thread[f].to]

\* A night's frame on a drive has had the drive noted, or its thread is about to note it,
\* or no frame of the night comes any more.
Noted(f) ==
  Tied(f) /\ rows[f] \in Drives =>
    \/ Over(Night[f])
    \/ thread[f].at = "lock"
    \/ config.lock = [night |-> Night[f], to |-> rows[f]]

\* A thread is bound for where its night's frames are.
Follows(f) ==
  Tied(f) /\ thread[f].at \in {"count", "place", "catalog", "lock"} =>
    \A g \in Frames \ {f} : Night[g] = Night[f] /\ rows[g] \in Drives => thread[f].to = rows[g]

TogetherInv == Ordered /\ \A f \in Frames : LockAgrees(f) /\ Noted(f) /\ Follows(f)

\* The job came to a file, or to its end.
Begun(g) == job[g] \notin {"none", "exposing"}

\* What is over stays over.
LEMMA OverStays ==
  ASSUME \A g \in Frames : /\ Begun(g) => Begun(g)'
                           /\ thread'[g].at \in Saves => thread[g].at \in Saves \/ ~Begun(g)
  PROVE  \A n \in Nat : Over(n) => Over(n)'
BY DEF Over, Begun

\* A step of f that enters neither Saves nor the catalog and leaves the configuration alone.
LEMMA TogetherBut ==
  ASSUME TogetherInv, NEW f \in Frames, UNCHANGED <<rows, config>>, loose \subseteq loose',
         \A g \in Frames \ {f} : thread'[g] = thread[g] /\ job'[g] = job[g],
         job[f] # "none", Begun(f) => Begun(f)', job'[f] # "none",
         thread'[f].at \in Saves => thread[f].at \in Saves,
         thread[f].at = "lock" => Night[f] \in loose',
         LockAgrees(f)', Follows(f)', job'[f] # "exposing" \/ job'[f] = job[f]
  PROVE  TogetherInv'
<1>1. \A n \in Nat : Over(n) => Over(n)'
  <2>1. \A g \in Frames : Begun(g) => Begun(g)'
    BY DEF Begun
  <2>2. QED
    BY <2>1, OverStays
<1>2. \A g \in Frames : Tied(g)' => Tied(g)
  BY DEF Tied
<1>3. Ordered'
  BY <1>2 DEF TogetherInv, Ordered, Begun
<1>4. ASSUME NEW g \in Frames PROVE Noted(g)'
  BY <1>1, <1>2, SavingAssumption DEF TogetherInv, Noted, Tied
<1>5. ASSUME NEW g \in Frames \ {f} PROVE LockAgrees(g)' /\ Follows(g)'
  BY <1>2 DEF TogetherInv, LockAgrees, Follows
<1>6. QED
  BY <1>3, <1>4, <1>5 DEF TogetherInv

\* A thread that goes on or gives up, its destination in hand.
LEMMA TogetherGoes ==
  ASSUME IInv, TogetherInv, NEW f \in Frames, NEW s \in {"catalog", "uncount", "none"}, Goes(f, s),
         UNCHANGED <<rows, config>>, loose \subseteq loose',
         \A g \in Frames \ {f} : job'[g] = job[g],
         thread[f].at # "none", Begun(f)',
         s = "catalog" => thread[f].at = "place",
         s # "none" => thread[f].at \in Saves,
         thread[f].at = "lock" => Night[f] \in loose'
  PROVE  TogetherInv'
<1>1. LockAgrees(f) /\ Follows(f) /\ RowOf(f)
  BY DEF TogetherInv, IInv
<1>2. LockAgrees(f)' /\ Follows(f)'
  BY <1>1 DEF LockAgrees, Follows, Goes, Turned, Tied
<1>3. thread'[f].at \in Saves => thread[f].at \in Saves
  BY DEF Goes, Saves
<1>4. job[f] # "none"
  BY <1>1 DEF RowOf
<1>5. QED
  BY <1>2, <1>3, <1>4, TogetherBut DEF Goes, Turned, Begun

LEMMA ResolveTogether ==
  ASSUME IInv, TogetherInv, NEW f \in Frames, Resolve(f)
  PROVE  TogetherInv'
<1>1. /\ thread[f].at = "resolve" /\ RowOf(f) /\ LockAgrees(f)
      /\ UNCHANGED <<job, rows, config, loose>>
  BY DEF Resolve, ThreadAt, IInv, TogetherInv
<1>s. thread[f].at \in Saves
  BY <1>1 DEF Saves
<1>b. Begun(f)
  BY <1>1 DEF RowOf, Begun
<1>2. CASE Goes(f, "uncount")
  BY <1>1, <1>2, <1>s, <1>b, TogetherGoes DEF Begun
<1>3. CASE Turned(f) /\ thread'[f].at = "count" /\ thread'[f].to \in Destinations(f)
  <2>1. LockAgrees(f)'
    BY <1>1, <1>3 DEF LockAgrees, Tied, Destinations
  <2>2. ASSUME Tied(f), NEW g \in Frames \ {f}, Night[g] = Night[f], rows[g] \in Drives
        PROVE  thread'[f].to = rows[g]
    <3>1. ~Over(Night[f]) /\ Tied(g) /\ thread[g].at \notin Saves
      BY <1>s, <2>2 DEF Over, Tied, TogetherInv, Ordered
    <3>2. config.lock = [night |-> Night[f], to |-> rows[g]]
      BY <2>2, <3>1 DEF TogetherInv, Noted, Saves
    <3>3. QED
      BY <1>1, <1>3, <2>2, <3>2 DEF Destinations, LockAgrees
  <2>3. Follows(f)'
    BY <1>1, <2>2 DEF Follows, Tied
  <2>4. QED
    BY <1>1, <1>3, <1>s, <1>b, <2>1, <2>3, TogetherBut DEF Turned, Begun
<1>4. QED
  BY <1>2, <1>3, ResolveTurns

LEMMA AdmitTogether ==
  ASSUME IInv, TogetherInv, NEW f \in Frames, Admit(f)
  PROVE  TogetherInv'
<1>1. /\ thread[f].at = "count" /\ RowOf(f) /\ LockAgrees(f) /\ Follows(f)
      /\ UNCHANGED <<job, rows, config, loose>>
  BY DEF Admit, ThreadAt, IInv, TogetherInv
<1>s. thread[f].at \in Saves
  BY <1>1 DEF Saves
<1>b. Begun(f)
  BY <1>1 DEF RowOf, Begun
<1>2. CASE Goes(f, "uncount")
  BY <1>1, <1>2, <1>s, <1>b, TogetherGoes DEF Begun
<1>3. CASE /\ Turned(f) /\ thread'[f].at = "place" /\ thread'[f].to = thread[f].to
           /\ thread'[f].locks <=> /\ config.dest = Automatic /\ thread[f].to # Internal
                                  /\ config.lock.night # Night[f]
  <2>1. ASSUME Tied(f), ~thread'[f].locks, thread[f].to \in Drives
        PROVE  config.lock = [night |-> Night[f], to |-> thread[f].to]
    <3>1. thread[f].to # Internal /\ config.dest = Automatic
      BY <1>1, <2>1, DriveUseAssumption DEF LockAgrees
    <3>2. config.lock.night = Night[f]
      BY <1>3, <2>1, <3>1
    <3>3. config.lock \in [night : Nat, to : Volumes \cup {None}]
      BY DEF IInv, SavingTypes, ConfigType
    <3>4. QED
      BY <1>1, <2>1, <3>2, <3>3 DEF LockAgrees
  <2>2. LockAgrees(f)'
    BY <1>1, <1>3, <2>1 DEF LockAgrees, Tied
  <2>3. Follows(f)'
    BY <1>1, <1>3 DEF Follows, Tied
  <2>4. QED
    BY <1>1, <1>3, <1>s, <1>b, <2>2, <2>3, TogetherBut DEF Turned, Begun
<1>4. QED
  BY <1>2, <1>3, AdmitTurns

LEMMA PlaceTogether ==
  ASSUME IInv, TogetherInv, NEW f \in Frames, Place(f)
  PROVE  TogetherInv'
<1>1. thread[f].at = "place" /\ RowOf(f) /\ UNCHANGED <<job, rows, config, loose>>
  BY DEF Place, ThreadAt, IInv
<1>2. thread[f].at \in Saves /\ Begun(f)
  BY <1>1 DEF Saves, RowOf, Begun
<1>3. QED
  BY <1>1, <1>2, PlaceTurns, TogetherGoes DEF Begun

\* The row goes where the night's rows are, and the lock is noted next if it was not.
LEMMA RowTogether ==
  ASSUME IInv, TogetherInv, NEW f \in Frames, CatalogRow(f)
  PROVE  TogetherInv'
<1>1. /\ thread[f].at = "catalog" /\ RowOf(f) /\ LockAgrees(f) /\ Follows(f)
      /\ UNCHANGED <<job, config, loose>>
  BY DEF CatalogRow, ThreadAt, IInv, TogetherInv
<1>s. thread[f].at \in Saves
  BY <1>1 DEF Saves
<1>b. Begun(f)
  BY <1>1 DEF RowOf, Begun
<1>2. CASE Goes(f, "uncount") /\ rows' = rows
  BY <1>1, <1>2, <1>s, <1>b, TogetherGoes DEF Begun
<1>3. CASE /\ Turned(f) /\ thread'[f].to = thread[f].to
           /\ thread'[f].at = (IF thread[f].locks THEN "lock" ELSE "uncount")
           /\ rows' = [rows EXCEPT ![f] = thread[f].to]
  <2>1. /\ rows'[f] = thread[f].to
        /\ \A g \in Frames \ {f} : rows'[g] = rows[g] /\ thread'[g] = thread[g]
    BY <1>3 DEF IInv, SavingTypes, Turned
  <2>t. \A g \in Frames : Tied(g)' <=> Tied(g)
    BY <1>1 DEF Tied
  <2>a. \A g \in Frames \ {f} : thread[g].at \in Saves => ~Tied(g) /\ ~Tied(f)
    BY <1>s DEF TogetherInv, Ordered
  <2>2. Ordered'
    <3>1. ASSUME NEW h \in Frames, NEW g \in Frames, h # g,
                 thread'[h].at \in Saves, thread'[g].at \in Saves
          PROVE  ~Tied(h)
      BY <1>s, <2>1, <2>a, <3>1 DEF TogetherInv, Ordered
    <3>2. ASSUME NEW h \in Frames, NEW g \in Frames, g < h, thread'[g].at \in Saves, Tied(h)
          PROVE  rows'[h] = None
      <4>1. h # f /\ h # g
        BY <2>1, <2>a, <3>2 DEF Frames
      <4>2. rows[h] = None
        BY <1>s, <2>1, <3>2 DEF TogetherInv, Ordered
      <4>3. QED
        BY <2>1, <4>1, <4>2
    <3>3. QED
      BY <1>1, <2>t, <3>1, <3>2 DEF TogetherInv, Ordered
  <2>3. LockAgrees(f)'
    BY <1>1, <1>3, <2>1, <2>t DEF LockAgrees
  <2>4. Noted(f)'
    BY <1>1, <1>3, <2>1, <2>t DEF LockAgrees, Noted
  <2>5. Follows(f)'
    BY <1>1, <1>3, <2>1, <2>t DEF Follows
  <2>6. \A n \in Nat : Over(n) => Over(n)'
    BY <1>1, <1>s, <2>1, OverStays DEF Begun
  <2>7. ASSUME NEW g \in Frames \ {f} PROVE LockAgrees(g)' /\ Noted(g)' /\ Follows(g)'
    <3>1. LockAgrees(g) /\ Noted(g) /\ Follows(g) /\ Night[g] \in Nat
      BY SavingAssumption DEF TogetherInv
    <3>2. LockAgrees(g)'
      BY <1>1, <2>1, <2>t, <3>1 DEF LockAgrees
    <3>3. Noted(g)'
      BY <1>1, <2>1, <2>t, <2>6, <3>1 DEF Noted
    <3>4. Follows(g)'
      BY <2>1, <2>t, <2>a DEF Follows, Saves
    <3>5. QED
      BY <3>2, <3>3, <3>4
  <2>8. QED
    BY <2>2, <2>3, <2>4, <2>5, <2>7 DEF TogetherInv
<1>4. QED
  BY <1>2, <1>3, RowTurns

\* The lock of the night: no other thread is at work, or the nights are loose; the nights
\* before this one are over.
LEMMA LockTogether ==
  ASSUME IInv, TogetherInv, NightsInOrder, NEW f \in Frames, LockNight(f)
  PROVE  TogetherInv'
<1>1. /\ thread[f].at = "lock" /\ RowOf(f) /\ LockAgrees(f) /\ Follows(f)
      /\ UNCHANGED <<job, rows>>
  BY DEF LockNight, ThreadAt, IInv, TogetherInv
<1>s. thread[f].at \in Saves
  BY <1>1 DEF Saves
<1>b. Begun(f)
  BY <1>1 DEF RowOf, Begun
<1>2. CASE Goes(f, "uncount") /\ config' = config /\ loose' = loose \cup {Night[f]}
  BY <1>1, <1>2, <1>s, <1>b, TogetherGoes DEF Begun
<1>3. CASE /\ Turned(f) /\ thread'[f].at = "uncount" /\ loose' = loose
           /\ config' = [config EXCEPT !.lock = [night |-> Night[f], to |-> thread[f].to]]
  <2>1. /\ config'.lock = [night |-> Night[f], to |-> thread[f].to] /\ config'.dest = config.dest
        /\ \A g \in Frames \ {f} : thread'[g] = thread[g]
    BY <1>3 DEF IInv, SavingTypes, ConfigType, Turned
  <2>t. \A g \in Frames : Tied(g)' <=> Tied(g)
    BY <1>3 DEF Tied
  <2>a. \A g \in Frames \ {f} : thread[g].at \in Saves => ~Tied(g) /\ ~Tied(f)
    BY <1>s DEF TogetherInv, Ordered
  <2>b. \A g \in Frames : thread'[g].at \in Saves => thread[g].at \in Saves
    BY <1>s, <2>1
  <2>2. Ordered'
    BY <1>1, <2>t, <2>b DEF TogetherInv, Ordered
  <2>3. LockAgrees(f)' /\ Follows(f)'
    BY <1>1, <1>3, <2>1, <2>t DEF LockAgrees, Follows
  <2>4. Noted(f)'
    BY <1>1, <2>1 DEF LockAgrees, Noted
  <2>6. \A n \in Nat : Over(n) => Over(n)'
    BY <1>1, <2>b, OverStays DEF Begun
  <2>7. ASSUME NEW g \in Frames \ {f} PROVE LockAgrees(g)' /\ Noted(g)' /\ Follows(g)'
    <3>1. LockAgrees(g) /\ Noted(g) /\ Follows(g) /\ Night[g] \in Nat
      BY SavingAssumption DEF TogetherInv
    <3>2. LockAgrees(g)'
      BY <1>1, <2>1, <2>t, <2>a, <3>1 DEF LockAgrees, Saves
    <3>3. Follows(g)'
      BY <1>1, <2>1, <2>t, <3>1 DEF Follows
    <3>4. ASSUME Tied(g), rows[g] \in Drives
          PROVE  Over(Night[g])' \/ config'.lock = [night |-> Night[g], to |-> rows[g]]
      <4>n. rows[g] # None
        BY <3>4, SavingAssumption
      <4>1. CASE Night[g] = Night[f]
        <5>1. Tied(f)
          BY <3>4, <4>1 DEF Tied
        <5>2. thread[f].to = rows[g]
          BY <1>1, <3>4, <4>1, <5>1 DEF Follows
        <5>3. QED
          BY <2>1, <4>1, <5>2
      <4>2. CASE Night[g] # Night[f]
        <5>1. ~(f < g)
          BY <1>s, <3>4, <4>n DEF TogetherInv, Ordered
        <5>2. g < f
          BY <5>1, <4>2 DEF Frames
        <5>3. ASSUME NEW h \in Frames, Night[h] = Night[g] PROVE Begun(h) /\ thread[h].at \notin Saves
          <6>1. h # f
            BY <4>2, <5>3
          <6>2. ~(f <= h)
            <7>1. Night[g] <= Night[f] /\ Night[f] \in Nat /\ Night[g] \in Nat
              BY <5>2, SavingAssumption DEF NightsInOrder, Frames
            <7>2. f <= h => Night[f] <= Night[h]
              BY DEF NightsInOrder
            <7>3. QED
              BY <4>2, <5>3, <7>1, <7>2
          <6>3. h < f
            BY <6>2 DEF Frames
          <6>4. Begun(h)
            BY <1>b, <6>3 DEF TogetherInv, Ordered, Begun
          <6>5. Tied(h)
            BY <3>4, <5>3 DEF Tied
          <6>6. QED
            BY <2>a, <6>1, <6>4, <6>5
        <5>4. Over(Night[g])
          BY <5>3 DEF Over, Begun
        <5>5. QED
          BY <2>6, <3>1, <5>4
      <4>3. QED
        BY <4>1, <4>2
    <3>5. Noted(g)'
      BY <1>1, <2>t, <3>4 DEF Noted
    <3>6. QED
      BY <3>2, <3>3, <3>5
  <2>8. QED
    BY <2>2, <2>3, <2>4, <2>7 DEF TogetherInv
<1>4. QED
  BY <1>2, <1>3, LockTurns

LEMMA EndTogether ==
  ASSUME IInv, TogetherInv, NEW f \in Frames, Saved(f) \/ KeepUnsaved(f) \/ Cancel(f)
  PROVE  TogetherInv'
<1>1. RowOf(f) /\ LockAgrees(f) /\ Follows(f) /\ UNCHANGED <<rows, config, loose>>
  BY DEF Saved, KeepUnsaved, Cancel, IInv, TogetherInv
<1>j. job \in [Frames -> Active \cup {"none", "done", "failed", "cancelled"}]
  BY DEF IInv, SavingTypes
<1>2. CASE Saved(f) \/ KeepUnsaved(f)
  <2>1. thread[f].at \in {"uncount", "keep"}
    BY <1>2 DEF Saved, KeepUnsaved, ThreadAt
  <2>2. Turned(f) /\ thread'[f].at \in {"keep", "none"}
    BY <1>2, SavedTurns, StepGoes DEF KeepUnsaved, Goes
  <2>3. Begun(f) /\ Begun(f)' /\ \A g \in Frames \ {f} : job'[g] = job[g]
    BY <1>1, <1>2, <1>j, <2>1 DEF RowOf, Begun, Saved, KeepUnsaved, Job
  <2>4. LockAgrees(f)' /\ Follows(f)'
    BY <1>1, <2>2 DEF LockAgrees, Follows, Tied
  <2>5. thread'[f].at \notin Saves /\ thread[f].at # "lock"
    BY <2>1, <2>2 DEF Saves
  <2>6. QED
    BY <1>1, <2>2, <2>3, <2>4, <2>5, TogetherBut DEF Turned, Begun
<1>3. CASE Cancel(f)
  <2>1. /\ thread' = thread /\ job[f] # "none" /\ job'[f] = "cancelled"
        /\ \A g \in Frames \ {f} : job'[g] = job[g]
    BY <1>3, <1>j DEF Cancel, Job, Active
  <2>2. LockAgrees(f)' /\ Follows(f)' /\ \A g \in Frames : Noted(g)'
    <3>1. LockAgrees(f)' /\ Follows(f)'
      BY <1>1, <2>1 DEF LockAgrees, Follows, Tied
    <3>2. \A n \in Nat : Over(n) => Over(n)'
      BY <2>1, OverStays DEF Begun
    <3>3. \A g \in Frames : Noted(g)'
      BY <1>1, <2>1, <3>2, SavingAssumption DEF TogetherInv, Noted, Tied
    <3>4. QED
      BY <3>1, <3>3
  <2>3. Ordered'
    BY <1>1, <2>1 DEF TogetherInv, Ordered, Tied
  <2>4. \A g \in Frames : LockAgrees(g)' /\ Follows(g)'
    BY <1>1, <2>1 DEF TogetherInv, LockAgrees, Follows, Tied
  <2>5. QED
    BY <2>2, <2>3, <2>4 DEF TogetherInv
<1>4. QED
  BY <1>2, <1>3

LEMMA ExposeTogether ==
  ASSUME IInv, TogetherInv, NEW f \in Frames, Expose(f)
  PROVE  TogetherInv'
<1>1. /\ UNCHANGED <<thread, rows, config, loose>> /\ job[f] = "none" /\ job'[f] = "exposing"
      /\ \A g \in Frames \ {f} : job'[g] = job[g]
  BY DEF Expose, Job, IInv, SavingTypes
<1>2. \A g \in Frames : Begun(g) => Begun(g)'
  BY <1>1 DEF Begun
<1>3. \A n \in Nat : Over(n) => Over(n)'
  BY <1>1, <1>2, OverStays
<1>4. Ordered'
  <2>1. ASSUME NEW h \in Frames, NEW g \in Frames, g < h, job'[h] # "none" PROVE Begun(g)'
    <3>1. CASE h = f
      <4>1. g \in 1..(f - 1)
        BY <2>1, <3>1 DEF Frames
      <4>2. job[g] # "none" /\ job[g] \notin Active
        BY <4>1 DEF Expose
      <4>3. QED
        BY <1>2, <4>2 DEF Begun, Active
    <3>2. CASE h # f
      <4>1. Begun(g)
        BY <1>1, <2>1, <3>2 DEF TogetherInv, Ordered, Begun
      <4>2. QED
        BY <1>2, <4>1
    <3>3. QED
      BY <3>1, <3>2
  <2>2. QED
    BY <1>1, <2>1 DEF TogetherInv, Ordered, Begun, Tied
<1>5. \A g \in Frames : LockAgrees(g)' /\ Follows(g)'
  BY <1>1 DEF TogetherInv, LockAgrees, Follows, Tied
<1>6. \A g \in Frames : Noted(g)'
  BY <1>1, <1>3, SavingAssumption DEF TogetherInv, Noted, Tied
<1>7. QED
  BY <1>4, <1>5, <1>6 DEF TogetherInv

\* A frame that is saved beside another one looses both their nights.
LEMMA ExposedTogether ==
  ASSUME IInv, TogetherInv, NEW f \in Frames, Exposed(f)
  PROVE  TogetherInv'
<1>1. /\ UNCHANGED <<rows, config>> /\ job[f] = "exposing" /\ job'[f] = "saving"
      /\ \A g \in Frames \ {f} : job'[g] = job[g]
  BY DEF Exposed, Job, IInv, SavingTypes
<1>g. Goes(f, "resolve")
  BY StepGoes DEF Exposed, Saves
<1>2. thread'[f].at = "resolve" /\ \A g \in Frames \ {f} : thread'[g] = thread[g]
  BY <1>g DEF Goes, Turned
<1>l. /\ \A g \in Frames : Tied(g)' => Tied(g)
      /\ \A g \in Frames \ {f} : thread[g].at \in Saves => ~Tied(g)' /\ ~Tied(f)'
  <2>1. loose \subseteq loose'
    BY DEF Exposed
  <2>2. ASSUME NEW g \in Frames \ {f}, thread[g].at \in Saves
        PROVE  {Night[g], Night[f]} \subseteq loose'
    <3>1. g \in Beside(f)
      BY <2>2 DEF Beside
    <3>2. loose' = loose \cup {Night[h] : h \in Beside(f) \cup {f}}
      BY <3>1 DEF Exposed
    <3>3. QED
      BY <3>1, <3>2
  <2>3. QED
    BY <2>1, <2>2 DEF Tied
<1>3. \A g \in Frames : Begun(g) => Begun(g)'
  BY <1>1 DEF Begun
<1>4. \A n \in Nat : Over(n) => Over(n)'
  <2>1. ~Begun(f)
    BY <1>1 DEF Begun
  <2>2. QED
    BY <1>2, <1>3, <2>1, OverStays
<1>5. Ordered'
  <2>1. ASSUME NEW h \in Frames, NEW g \in Frames, g < h, job'[h] # "none" PROVE Begun(g)'
    <3>1. Begun(g)
      BY <1>1, <2>1 DEF TogetherInv, Ordered, Begun
    <3>2. QED
      BY <1>3, <3>1
  <2>2. ASSUME NEW h \in Frames, NEW g \in Frames, h # g,
               thread'[h].at \in Saves, thread'[g].at \in Saves
        PROVE  ~Tied(h)'
    BY <1>2, <1>l, <2>2 DEF TogetherInv, Ordered
  <2>3. ASSUME NEW h \in Frames, NEW g \in Frames, g < h, thread'[g].at \in Saves, Tied(h)'
        PROVE  rows'[h] = None
    <3>1. CASE g = f
      <4>1. job[h] = "none"
        BY <1>1, <2>3, <3>1 DEF TogetherInv, Ordered
      <4>2. QED
        BY <1>1, <4>1 DEF IInv, RowOf
    <3>2. CASE g # f
      BY <1>1, <1>2, <1>l, <2>3, <3>2 DEF TogetherInv, Ordered
    <3>3. QED
      BY <3>1, <3>2
  <2>4. QED
    BY <2>1, <2>2, <2>3 DEF Ordered, Begun
<1>6. ASSUME NEW g \in Frames PROVE LockAgrees(g)' /\ Follows(g)' /\ Noted(g)'
  <2>1. LockAgrees(g) /\ Follows(g) /\ Noted(g) /\ Night[g] \in Nat
    BY SavingAssumption DEF TogetherInv
  <2>2. Noted(f) /\ thread[f].at = "none"
    BY <1>1 DEF TogetherInv, IInv, RowOf
  <2>3. LockAgrees(g)' /\ Follows(g)'
    BY <1>1, <1>2, <1>l, <2>1 DEF LockAgrees, Follows
  <2>4. Noted(g)'
    BY <1>1, <1>2, <1>4, <1>l, <2>1, <2>2 DEF Noted
  <2>5. QED
    BY <2>3, <2>4
<1>7. QED
  BY <1>5, <1>6 DEF TogetherInv

LEMMA CrashTogether ==
  ASSUME IInv, TogetherInv, Crash
  PROVE  TogetherInv'
<1>1. /\ UNCHANGED <<rows, config>> /\ loose \subseteq loose'
      /\ \A g \in Frames : thread'[g].at = "none" /\ thread'[g].at \notin Saves
  BY DEF Crash, Resting, Saves
<1>2. \A g \in Frames : (Begun(g) => Begun(g)') /\ (job'[g] # "none" => job[g] # "none")
  BY DEF Crash, Begun, Active
<1>3. \A n \in Nat : Over(n) => Over(n)'
  BY <1>1, <1>2, OverStays
<1>4. \A g \in Frames : (Tied(g)' => Tied(g)) /\ (thread[g].at = "lock" => ~Tied(g)')
  BY DEF Crash, Tied, ThreadAt
<1>5. Ordered'
  BY <1>1, <1>2 DEF TogetherInv, Ordered, Begun
<1>6. ASSUME NEW g \in Frames PROVE LockAgrees(g)' /\ Follows(g)' /\ Noted(g)'
  <2>1. LockAgrees(g) /\ Noted(g) /\ Night[g] \in Nat
    BY SavingAssumption DEF TogetherInv
  <2>2. QED
    BY <1>1, <1>3, <1>4, <2>1 DEF LockAgrees, Follows, Noted
<1>7. QED
  BY <1>5, <1>6 DEF TogetherInv

\* What the user chooses looses every night.
LEMMA ChooseTogether ==
  ASSUME IInv, TogetherInv, NEW v \in Volumes \cup {Automatic}, Choose(v)
  PROVE  TogetherInv'
<1>1. UNCHANGED <<thread, rows, job>> /\ \A g \in Frames : ~Tied(g)'
  BY DEF Choose, frames, Tied
<1>2. Ordered'
  BY <1>1 DEF TogetherInv, Ordered
<1>3. \A g \in Frames : LockAgrees(g)' /\ Follows(g)' /\ Noted(g)'
  BY <1>1 DEF TogetherInv, LockAgrees, Follows, Noted
<1>4. QED
  BY <1>2, <1>3 DEF TogetherInv

LEMMA TogetherStep == IInv /\ TogetherInv /\ NightsInOrder /\ [Next]_vars => TogetherInv'
<1> SUFFICES ASSUME IInv, TogetherInv, NightsInOrder, [Next]_vars PROVE TogetherInv'
  OBVIOUS
<1>1. ASSUME UNCHANGED <<frames, more>> PROVE TogetherInv'
  BY <1>1 DEF frames, more, TogetherInv, Ordered, LockAgrees, Noted, Follows, Tied, Over
<1>2. ASSUME NEW f \in Frames, Saver(f) PROVE TogetherInv'
  BY <1>2, ResolveTogether, AdmitTogether, PlaceTogether, RowTogether, LockTogether, EndTogether
     DEF Saver
<1>3. QED
  BY <1>1, <1>2, EndTogether, ExposeTogether, ExposedTogether, CrashTogether, ChooseTogether
     DEF Next, DriveStep, vars

LEMMA TogetherInductive ==
  ASSUME NightsInOrder PROVE Spec => []TogetherInv
<1>1. Init => TogetherInv
  <2> SUFFICES ASSUME Init PROVE TogetherInv
    OBVIOUS
  <2>1. /\ \A f \in Frames : job[f] = "none" /\ thread[f].at = "none" /\ rows[f] = None
        /\ config.dest = Automatic
    BY DEF Init, Resting
  <2>2. None \notin Drives
    BY SavingAssumption
  <2>3. QED
    BY <2>1, <2>2 DEF TogetherInv, Ordered, LockAgrees, Noted, Follows, Saves
<1>2. NightsInOrder
  OBVIOUS
<1>3. IInv /\ TogetherInv /\ [Next]_vars => TogetherInv'
  BY <1>2, TogetherStep
<1>4. QED
  BY <1>1, <1>3, Inductive, PTL DEF Spec

\* Automatic storage (storage.service: _resolve, _save's auto_lock) keeps a night on one
\* drive whatever frames are cancelled, fail or wait for their drive, and however drives come
\* and go, provided the nights come in order: only one night is locked at a time.
THEOREM NightsTogether ==
  ASSUME NightsInOrder PROVE Spec => NightStaysTogether
<1>1. ASSUME IInv, TogetherInv, [Next]_vars, NEW f \in Frames, NEW g \in Frames,
             rows'[g] # rows[g], rows[f] \in Drives, Night[f] = Night[g], Night[g] \notin loose
      PROVE  rows'[g] = rows[f]
  <2>1. CatalogRow(g)
    BY <1>1 DEF Next, Saver, DriveStep, Choose, Crash, Expose, Exposed, Cancel, Resolve, Admit,
                Place, CatalogRow, LockNight, Saved, KeepUnsaved, frames, vars,
                IInv, SavingTypes
  <2>2. rows' = [rows EXCEPT ![g] = thread[g].to] /\ thread[g].at = "catalog"
    BY <1>1, <2>1 DEF CatalogRow, ThreadAt
  <2>3. rows[g] = None /\ Follows(g) /\ Tied(g)
    BY <1>1, <2>2 DEF IInv, RowOf, TogetherInv, Tied
  <2>4. f # g
    BY <1>1, <2>3, SavingAssumption
  <2>5. thread[g].to = rows[f]
    BY <1>1, <2>2, <2>3, <2>4 DEF Follows
  <2>6. QED
    BY <1>1, <2>2, <2>5 DEF IInv, SavingTypes
<1>2. IInv /\ TogetherInv /\ [Next]_vars =>
        [\A f, g \in Frames :
           rows'[g] # rows[g] /\ rows[f] \in Drives /\ Night[f] = Night[g] /\ Night[g] \notin loose
             => rows'[g] = rows[f]]_vars
  BY <1>1
<1>3. Spec => []TogetherInv
  BY TogetherInductive
<1>4. QED
  BY <1>2, <1>3, Inductive, PTL DEF Spec, NightStaysTogether

----------------------------------------------------------------------------
(* Refinement *)

LEMMA UseSteps == IInv /\ [Next]_vars => [UseNext]_useVars
<1> SUFFICES ASSUME IInv, [Next]_vars PROVE [UseNext]_useVars
  OBVIOUS
<1> USE DEF useVars, locks, Rest
<1>1. ASSUME NEW f \in Frames, Admit(f) PROVE [UseNext]_useVars
  <2>1. thread[f].to \in Volumes
    BY <1>1 DEF Admit, ThreadAt, IInv, ThreadOf
  <2>2. QED
    BY <1>1, <2>1 DEF Admit, UseNext
<1>2. ASSUME NEW f \in Frames, Saved(f) PROVE [UseNext]_useVars
  <2>1. thread[f].counted => thread[f].to \in Volumes
    BY DEF IInv, ThreadOf
  <2>2. CASE thread[f].counted
    BY <1>2, <2>1, <2>2 DEF Saved, UseNext
  <2>3. CASE ~thread[f].counted
    BY <1>2, <2>3 DEF Saved
  <2>4. QED
    BY <2>2, <2>3
<1>3. ASSUME NEW f \in Frames,
             Expose(f) \/ Exposed(f) \/ Cancel(f) \/ Resolve(f) \/ Place(f) \/ CatalogRow(f)
               \/ LockNight(f) \/ KeepUnsaved(f)
      PROVE  UNCHANGED useVars
  BY <1>3 DEF Expose, Exposed, Cancel, Resolve, Place, CatalogRow, LockNight, KeepUnsaved
<1>4. ASSUME NEW d \in Drives, DriveStep(d) PROVE [UseNext]_useVars
  BY <1>4 DEF DriveStep, UseNext
<1>5. ASSUME NEW v \in Volumes \cup {Automatic}, Choose(v) PROVE [UseNext]_useVars
  BY <1>5 DEF Choose
<1>6. CASE Crash
  BY <1>6 DEF Crash, UseNext
<1>7. CASE UNCHANGED vars
  BY <1>7 DEF vars
<1>8. QED
  BY <1>1, <1>2, <1>3, <1>4, <1>5, <1>6, <1>7 DEF Next, Saver

\* Saving keeps what StorageService._lock is there for: each of its steps is one that those
\* who eject drives count on, or none of their business.
THEOREM SavingImplementsUse == Spec => ImplementsUse
<1>1. Init => UseInit
  BY DEF Init
<1>2. QED
  BY <1>1, UseSteps, Inductive, PTL DEF Spec, UseSpec, ImplementsUse

\* No frame is being saved to a drive that is marked as being ejected (_ejecting, _writing).
\* The mark goes when the request to eject times out, and nocs-system may unmount later.
THEOREM SavingLeavesEjected == Spec => []NoEjectWhileWriting
<1>1. QED
  BY SavingImplementsUse, UseExcludes, PTL DEF ImplementsUse

----------------------------------------------------------------------------
(* Mounting and ejecting drives *)

\* What a step of the refinement needs: only drives are plugged in, and asked to be ejected.
DriveSteps == {"idle", "found", "ejecting", "look", "sweep", "mounting", "again", "over"}

Asked ==
  /\ task \in [D!Callers -> [at : DriveSteps, drive : Drives \cup {D!NoDrive}, left : SUBSET Drives]]
  /\ \A c \in D!Callers : task[c].at \in {"found", "ejecting"} => task[c].drive \in Drives

DrivesInv == D!UseTypeOK /\ attached \subseteq Drives /\ unmounted \subseteq Drives /\ Asked

LEMMA DrivesInit == D!Init => DrivesInv
BY DEF D!Init, D!UseInit, D!UseTypeOK, DrivesInv, Asked, DriveSteps, D!Idle

\* Where a caller goes to another step, or to none; or to mount a drive.
LEMMA GoesKeeps ==
  ASSUME Asked, NEW c \in D!Callers, NEW s \in DriveSteps,
         s \in {"found", "ejecting"} => task[c].drive \in Drives, D!Goes(c, s)
  PROVE  Asked'
BY DEF Asked, D!Goes

LEMMA FinishesKeeps == ASSUME Asked, NEW c \in D!Callers, D!Finishes(c) PROVE Asked'
BY DEF Asked, DriveSteps, D!Finishes, D!Over, D!Idle

LEMMA MountNextKeeps ==
  ASSUME Asked, NEW c \in D!Callers, NEW left \in SUBSET Drives, NEW done, NEW out,
         NEW asked, D!MountNext(c, left, done, out, asked)
  PROVE  Asked'
<1>1. CASE left \subseteq done \cup out
  <2>1. task' = [task EXCEPT ![c] = [D!Idle EXCEPT !.at = "again"]] \/ D!Finishes(c)
    BY <1>1 DEF D!MountNext
  <2>2. CASE task' = [task EXCEPT ![c] = [D!Idle EXCEPT !.at = "again"]]
    BY <2>2 DEF Asked, DriveSteps, D!Idle
  <2>3. QED
    BY <2>1, <2>2, FinishesKeeps
<1>2. CASE ~(left \subseteq done \cup out)
  <2>1. PICK d \in left \ (done \cup out) :
          task' = [task EXCEPT ![c] = [at |-> "mounting", drive |-> d, left |-> left \ {d}]]
    BY <1>2 DEF D!MountNext
  <2>2. QED
    BY <2>1 DEF Asked, DriveSteps
<1>3. QED
  BY <1>1, <1>2

\* The steps that only one caller takes, but for what it asked nocs-system.
LEMMA CallerKeeps ==
  ASSUME DrivesInv, NEW c \in D!Callers, D!Look(c) \/ D!Sweep(c) \/ D!MountAnswered(c)
  PROVE  Asked'
<1>1. CASE D!Look(c)
  BY <1>1, GoesKeeps, FinishesKeeps DEF D!Look, DrivesInv, DriveSteps
<1>2. CASE D!Sweep(c)
  BY <1>2, MountNextKeeps DEF D!Sweep, DrivesInv
<1>3. CASE D!MountAnswered(c)
  <2>1. task[c].left \in SUBSET Drives
    BY DEF DrivesInv, Asked
  <2>2. QED
    BY <1>3, <2>1, MountNextKeeps DEF D!MountAnswered, DrivesInv
<1>4. QED
  BY <1>1, <1>2, <1>3

LEMMA EjectingKeeps ==
  ASSUME DrivesInv, NEW e \in Ejects, D!Ejecting(e) \/ \E d \in Drives : D!EjectAsked(e, d)
  PROVE  Asked'
<1> e \in D!Callers
  BY DEF D!Callers
<1>1. CASE D!EjectBegins(e)
  <2>1. task[e].drive \in Drives
    BY <1>1 DEF D!EjectBegins, D!At, DrivesInv, Asked
  <2>2. D!Finishes(e) \/ D!Goes(e, "ejecting")
    BY <1>1 DEF D!EjectBegins
  <2>3. QED
    BY <2>1, <2>2, GoesKeeps, FinishesKeeps DEF DrivesInv, DriveSteps
<1>2. CASE D!EjectAnswered(e)
  BY <1>2, GoesKeeps, FinishesKeeps DEF D!EjectAnswered, DrivesInv, DriveSteps
<1>3. ASSUME NEW d \in Drives, D!EjectAsked(e, d) PROVE Asked'
  <2> DEFINE t == [task[e] EXCEPT !.at = "found", !.drive = d]
  <2>1. t \in [at : DriveSteps, drive : Drives \cup {D!NoDrive}, left : SUBSET Drives] /\ t.drive = d
    BY DEF DrivesInv, Asked, DriveSteps
  <2>2. task' = [task EXCEPT ![e] = t]
    BY <1>3 DEF D!EjectAsked
  <2> HIDE DEF t
  <2>3. QED
    BY <2>1, <2>2 DEF DrivesInv, Asked
<1>4. QED
  BY <1>1, <1>2, <1>3 DEF D!Ejecting

LEMMA AskedKeeps == ASSUME DrivesInv, [D!Next]_(D!vars) PROVE Asked'
<1>1. CASE UNCHANGED task
  BY <1>1 DEF DrivesInv, Asked
<1>2. CASE D!PollWakes
  BY <1>2, GoesKeeps DEF D!PollWakes, DrivesInv, D!Callers, DriveSteps
<1>3. CASE D!Crash
  BY <1>3 DEF D!Crash, DrivesInv, Asked, DriveSteps, D!Over, D!Idle
<1>4. CASE \E e \in Ejects : D!Ejecting(e) \/ \E d \in Drives : D!EjectAsked(e, d)
  BY <1>4, EjectingKeeps
<1>5. CASE \E c \in D!Callers : D!Caller(c)
  BY <1>5, CallerKeeps DEF D!Caller
<1>6. ASSUME NEW d \in Drives, D!Plug(d) \/ D!Unplug(d) \/ D!FrameBegins(d) \/ D!FrameEnds(d)
      PROVE  UNCHANGED task
  BY <1>6 DEF D!Plug, D!Unplug, D!FrameBegins, D!FrameEnds
<1>7. ASSUME D!Helper \/ \E c \in D!Callers : D!CallTimesOut(c) PROVE UNCHANGED task
  BY <1>7 DEF D!Helper, D!Mount, D!Unmount, D!PowerOff, D!Reply, D!CallTimesOut
<1>8. UNCHANGED D!vars => UNCHANGED task
  BY DEF D!vars
<1>9. QED
  BY <1>1, <1>2, <1>3, <1>4, <1>5, <1>6, <1>7, <1>8 DEF D!Next

LEMMA DrivesKeep == ASSUME DrivesInv, [D!Next]_(D!vars) PROVE attached' \subseteq Drives /\ unmounted' \subseteq Drives
<1> USE DEF DrivesInv, D!drives, D!seen
<1>1. ASSUME NEW d \in Drives, D!Plug(d) \/ D!Unplug(d) \/ D!FrameBegins(d) \/ D!FrameEnds(d)
      PROVE  attached' \subseteq Drives /\ unmounted' \subseteq Drives
  BY <1>1 DEF D!Plug, D!Unplug, D!FrameBegins, D!FrameEnds
<1>2. CASE D!Helper
  BY <1>2 DEF D!Helper, D!Mount, D!Unmount, D!PowerOff, D!Reply
<1>3. CASE D!PollWakes
  BY <1>3 DEF D!PollWakes
<1>4. ASSUME NEW c \in D!Callers, D!CallTimesOut(c) \/ D!Caller(c)
      PROVE  attached' \subseteq Drives /\ unmounted' \subseteq Drives
  BY <1>4 DEF D!CallTimesOut, D!Caller, D!Look, D!Sweep, D!MountAnswered
<1>5. ASSUME NEW e \in Ejects, NEW d \in Drives, D!Ejecting(e) \/ D!EjectAsked(e, d)
      PROVE  attached' \subseteq Drives /\ unmounted' \subseteq Drives
  BY <1>5 DEF D!Ejecting, D!EjectBegins, D!EjectAnswered, D!EjectAsked
<1>6. CASE D!Crash
  BY <1>6 DEF D!Crash
<1>7. CASE UNCHANGED D!vars
  BY <1>7 DEF D!vars
<1>8. CASE \E e \in Ejects : D!Ejecting(e)
  BY <1>8 DEF D!Ejecting, D!EjectBegins, D!EjectAnswered
<1>9. QED
  BY <1>1, <1>2, <1>3, <1>4, <1>5, <1>6, <1>7, <1>8 DEF D!Next

----------------------------------------------------------------------------
LEMMA DrivesUse == DrivesInv /\ [D!Next]_(D!vars) => [D!UseNext]_(D!useVars)
<1> SUFFICES ASSUME DrivesInv, [D!Next]_(D!vars) PROVE [D!UseNext]_(D!useVars)
  OBVIOUS
<1> USE DEF D!useVars, D!drives, D!locks
<1>t. mounted \subseteq Drives /\ Drives \subseteq D!Volumes
  BY DEF DrivesInv, D!UseTypeOK, D!Volumes
<1>1. CASE D!Mount
  <2>1. UNCHANGED D!useVars \/ \E d \in attached : D!Appears(d)
    BY <1>1 DEF D!Mount, D!Appears
  <2>2. QED
    BY <2>1 DEF D!UseNext, DrivesInv
<1>2. CASE D!Unmount
  <2>1. UNCHANGED D!useVars \/ \E d \in mounted : D!Disappears(d)
    BY <1>2 DEF D!Unmount, D!Disappears
  <2>2. QED
    BY <1>t, <2>1 DEF D!UseNext
<1>3. ASSUME NEW d \in Drives, D!Unplug(d) PROVE [D!UseNext]_(D!useVars)
  <2>1. CASE d \in mounted
    BY <1>3, <2>1 DEF D!Unplug, D!UseNext, D!Disappears
  <2>2. CASE d \notin mounted
    BY <1>3, <2>2 DEF D!Unplug
  <2>3. QED
    BY <2>1, <2>2
<1>4. ASSUME NEW e \in Ejects, D!EjectBegins(e) PROVE [D!UseNext]_(D!useVars)
  <2>1. e \in D!Callers /\ task[e].drive \in Drives
    BY <1>4 DEF D!EjectBegins, D!At, DrivesInv, Asked, D!Callers
  <2>2. writing[task[e].drive] \in Nat
    BY <2>1, <1>t DEF DrivesInv, D!UseTypeOK
  <2>3. D!BeginEject(task[e].drive) \/ UNCHANGED D!useVars
    BY <1>4, <2>2 DEF D!EjectBegins, D!BeginEject
  <2>4. QED
    BY <2>1, <2>3 DEF D!UseNext
<1>5. ASSUME NEW e \in Ejects, D!EjectAnswered(e) PROVE [D!UseNext]_(D!useVars)
  <2>1. e \in D!Callers /\ task[e].drive \in Drives
    BY <1>5 DEF D!EjectAnswered, D!At, DrivesInv, Asked, D!Callers
  <2>2. D!EndEject(task[e].drive)
    BY <1>5 DEF D!EjectAnswered, D!EndEject
  <2>3. QED
    BY <2>1, <2>2 DEF D!UseNext
<1>6. ASSUME NEW d \in Drives, D!FrameBegins(d) \/ D!FrameEnds(d) PROVE [D!UseNext]_(D!useVars)
  BY <1>6, <1>t DEF D!FrameBegins, D!FrameEnds, D!UseNext
<1>7. CASE D!Crash
  BY <1>7 DEF D!Crash, D!UseNext
<1>8. ASSUME NEW c \in D!Callers, D!CallTimesOut(c) \/ D!Caller(c) PROVE UNCHANGED D!useVars
  BY <1>8 DEF D!CallTimesOut, D!Caller, D!Look, D!Sweep, D!MountAnswered
<1>9. ASSUME D!PowerOff \/ D!Reply \/ D!PollWakes \/ \E d \in Drives : D!Plug(d) PROVE UNCHANGED D!useVars
  BY <1>9 DEF D!PowerOff, D!Reply, D!PollWakes, D!Plug
<1>10. ASSUME NEW e \in Ejects, NEW d \in Drives, D!EjectAsked(e, d) PROVE UNCHANGED D!useVars
  BY <1>10 DEF D!EjectAsked
<1>11. UNCHANGED D!vars => UNCHANGED D!useVars
  BY DEF D!vars
<1>12. QED
  BY <1>1, <1>2, <1>3, <1>4, <1>5, <1>6, <1>7, <1>8, <1>9, <1>10, <1>11
     DEF D!Next, D!Helper, D!Ejecting

\* Drives and Saving extend one and the same DriveUse.
LEMMA SameUse ==
  /\ D!UseInit <=> UseInit
  /\ D!UseTypeOK <=> UseTypeOK
  /\ D!UseTypeOK' <=> UseTypeOK'
  /\ [D!UseNext]_(D!useVars) <=> [UseNext]_useVars
<1>1. D!Volumes = Volumes /\ D!locks = locks
  BY DEF D!Volumes, Volumes, D!Internal, Internal, D!locks, locks
<1>2. /\ D!UseInit <=> UseInit
      /\ D!UseTypeOK <=> UseTypeOK
      /\ D!UseTypeOK' <=> UseTypeOK'
  BY <1>1 DEF D!UseInit, UseInit, D!UseTypeOK, UseTypeOK
<1>3. ASSUME NEW d
      PROVE  /\ D!Appears(d) <=> Appears(d)
             /\ D!Disappears(d) <=> Disappears(d)
             /\ D!BeginEject(d) <=> BeginEject(d)
             /\ D!EndEject(d) <=> EndEject(d)
             /\ D!BeginWrite(d) <=> BeginWrite(d)
             /\ D!EndWrite(d) <=> EndWrite(d)
  BY <1>1 DEF D!Appears, Appears, D!Disappears, Disappears, D!BeginEject, BeginEject,
     D!EndEject, EndEject, D!BeginWrite, BeginWrite, D!EndWrite, EndWrite, D!locks, locks
<1>4. D!ForgetUse <=> ForgetUse
  BY <1>1 DEF D!ForgetUse, ForgetUse
<1>5. D!UseNext <=> UseNext
  BY <1>1, <1>3, <1>4 DEF D!UseNext, UseNext
<1>6. UNCHANGED D!useVars <=> UNCHANGED useVars
  BY DEF D!useVars, useVars, D!locks, locks
<1>7. QED
  BY <1>2, <1>5, <1>6

LEMMA DrivesInductive == D!Spec => []DrivesInv
<1>1. DrivesInv /\ [D!Next]_(D!vars) => DrivesInv'
  BY AskedKeeps, DrivesKeep, DrivesUse, UseTyped, SameUse DEF DrivesInv
<1>2. QED
  BY <1>1, DrivesInit, PTL DEF D!Spec

\* Every step of polling, mounting and ejecting is one that saving counts on (_ejecting,
\* _writing), or none of its business: whatever is plugged, times out, fails or restarts.
THEOREM DrivesImplementUse == D!Spec => D!ImplementsUse
<1>1. D!Init => D!UseInit
  BY DEF D!Init
<1>2. QED
  BY <1>1, DrivesUse, DrivesInductive, PTL DEF D!Spec, D!UseSpec, D!ImplementsUse
=============================================================================
