----------------------------- MODULE RigServices -----------------------------
(***************************************************************************)
(* Two services beside each other: the equipment service, and what becomes  *)
(* of the frames of a camera.  The models share no state, so that a         *)
(* behaviour here is one of either: `at' says which.                        *)
(***************************************************************************)
EXTENDS Naturals

CONSTANTS
  Roles, Drivers, DriverOf, MaxFaults, MaxAsks,
  Count, InJob, Saved, Others, Keep, MaxDeaths

VARIABLES
  at,
  linked, up, view, on, conn, status, resolved, started, restarting, listing,
  pass, parting, restart, role, broken, ours, crossed, missed, faults, asks,
  stage, holder, waiters, latest, pool, made, dead, workingIn, shown, jpgs, files,
  kept, preview, deleting, strays, wronged

equipmentVars ==
  <<linked, up, view, on, conn, status, resolved, started, restarting, listing,
    pass, parting, restart, role, broken, ours, crossed, missed, faults, asks>>
previewVars ==
  <<stage, holder, waiters, latest, pool, made, dead, workingIn, shown, jpgs, files,
    kept, preview, deleting, strays, wronged>>
vars == <<at, equipmentVars, previewVars>>

E == INSTANCE Equipment
P == INSTANCE Previews WITH broken <- dead, at <- workingIn

ASSUME RigServicesAssumption == E!EquipmentAssumption /\ P!PreviewsAssumption

Init ==
  /\ at \in {"equipment", "previews"}
  /\ E!Init /\ P!Init
  /\ at # "equipment" => up = [d \in Drivers |-> 0]

Equipment == at = "equipment" /\ E!Next /\ UNCHANGED <<at, previewVars>>
Previews == at = "previews" /\ P!Next /\ UNCHANGED <<at, equipmentVars>>

Next == Equipment \/ Previews

Spec == Init /\ [][Next]_vars

\* The fairness of each module.
FairSpec ==
  /\ Spec
  /\ WF_equipmentVars(at = "equipment" /\ E!PassSteps) /\ WF_equipmentVars(at = "equipment" /\ E!PartingSteps)
  /\ WF_equipmentVars(at = "equipment" /\ E!Linked)
  /\ \A o \in E!Owners, r \in Roles : WF_equipmentVars(at = "equipment" /\ E!RoleSteps(o, r))
  /\ \A d \in Drivers :
       /\ WF_equipmentVars(at = "equipment" /\ E!DriverDefines(d))
       /\ WF_equipmentVars(at = "equipment" /\ E!ListEnds(d))
  /\ WF_previewVars(at = "previews" /\ P!Granted)
  /\ \A f \in P!Frames : WF_previewVars(at = "previews" /\ P!Steps(f))

----------------------------------------------------------------------------

\* A role that is ready has a device that is there and connected.
ReadyIsThere == E!ReadyIsThere

\* Connecting ends, with an error at worst, and a disconnect ends that does not lose its
\* task with indiserver.
PassesEnd == E!PassCompletes /\ E!DisconnectEnds

\* Nothing is left behind: disconnecting stops the drivers NOCS started, and the files of
\* frames and previews are those that are still needed.
NothingLeft ==
  E!NothingLeftRunning /\ P!FilesAreOwned /\ P!KeptIsThere /\ P!PreviewsBounded

\* The frame behind the preview only gives way to a newer one, and every frame is done
\* with in the end.
FramesGoOn == P!KeptForward /\ P!EveryFrameEnds

\* What the repository says and the code does not do: a profile that is disconnecting is
\* disconnected in the end.
DisconnectIsDone == E!DisconnectIsDone
=============================================================================
