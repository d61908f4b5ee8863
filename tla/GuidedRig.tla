------------------------------ MODULE GuidedRig ------------------------------
(***************************************************************************)
(* The locks of the rig while a sequence and PHD2 share the mount          *)
(* (nocs.jobs, nocs.guiding.service, nocs.sequence.rig).  Everything here  *)
(* is synchronous code that calls across services, so it is written as     *)
(* functions from a rig to a rig, to be composed into steps.               *)
(*                                                                         *)
(* A rig g is a record                                                     *)
(*   lock      who holds each role: "sequence" (the run's job), "guide"    *)
(*             (the job of a guide command), "guiding" (the reservation    *)
(*             GuidingService holds the mount with), "user" (any other     *)
(*             command) or None                                            *)
(*   lent      what the paused sequence lent back (JobManager._suspended)  *)
(*   running   the sequence's job is published as running                  *)
(*   guiding   PHD2 is in one of GUIDING_STATES                            *)
(*   linked    NOCS is connected to PHD2                                   *)
(*   under     _under: the sequence's job, or None                         *)
(*   starting  _starting: whose start of guiding runs, or None             *)
(***************************************************************************)
CONSTANT None

\* "camera" stands for all the roles a sequence holds besides the mount; "phd2"
\* is the resource the guide command locks.
Roles == {"camera", "mount", "phd2"}
SequenceRoles == {"camera", "mount"}
Owners == {"sequence", "guide", "guiding", "user"}
Holders == Owners \cup {None}
Callers == {"sequence", "guide"}

Rigs == [lock : [Roles -> Holders], lent : {{}, SequenceRoles}, running : BOOLEAN,
         guiding : BOOLEAN, linked : BOOLEAN,
         under : {"sequence", None}, starting : Callers \cup {None}]

FreshRig ==
  [lock |-> [r \in Roles |-> None], lent |-> {}, running |-> FALSE, guiding |-> FALSE,
   linked |-> TRUE, under |-> None, starting |-> None]

----------------------------------------------------------------------------
(* The lock table (Jobs models it in full) *)

CheckFree(g, R) == \A r \in R : g.lock[r] = None

Take(g, o, R) == [g EXCEPT !.lock = [r \in Roles |-> IF r \in R THEN o ELSE g.lock[r]]]

Free(g, o) == [g EXCEPT !.lock = [r \in Roles |-> IF g.lock[r] = o THEN None ELSE g.lock[r]]]

HoldsRig(g) == \A r \in SequenceRoles : g.lock[r] = "sequence"

\* suspend: nothing when already suspended.
Suspend(g) ==
  IF g.lent # {} THEN g
  ELSE [Free(g, "sequence") EXCEPT !.lent = {r \in Roles : g.lock[r] = "sequence"}]

\* resume, when the lent roles are free.
Resume(g) == [Take(g, "sequence", g.lent) EXCEPT !.lent = {}]

\* _finish of the sequence's job.
Ended(g) == [Free(g, "sequence") EXCEPT !.lent = {}, !.running = FALSE]

----------------------------------------------------------------------------
(* The mount under guiding *)

\* GuidingService.guiding
GuidingNow(g) == g.starting # None \/ g.guiding

\* _hold_mount reserves the mount unless the job guiding runs in holds it.
NeedsHold(g) == g.lock["mount"] # "guiding" /\ g.lock["mount"] \notin {g.starting, g.under} \ {None}
CanHoldMount(g) == NeedsHold(g) => g.lock["mount"] = None
HoldMount(g) == IF NeedsHold(g) THEN Take(g, "guiding", {"mount"}) ELSE g

\* _sync_mount_hold.  A free mount is not taken while the job PHD2 guides under
\* still runs, and _under is forgotten once it does not.
SyncMountHold(g) ==
  IF GuidingNow(g) /\ g.lock["mount"] # "guiding" /\ g.linked
  THEN IF g.lock["mount"] # None \/ (g.under # None /\ g.running) THEN g
       ELSE HoldMount([g EXCEPT !.under = None])
  ELSE IF ~GuidingNow(g) THEN Free(g, "guiding")
  ELSE g

\* guide_under
GuideUnder(g, job) ==
  SyncMountHold(IF job # None THEN [Free(g, "guiding") EXCEPT !.under = job]
                              ELSE [g EXCEPT !.under = None])

\* start, up to its first await.
StartGuiding(g, c) ==
  [(IF g.lock["mount"] = c THEN GuideUnder(g, c) ELSE g) EXCEPT !.starting = c]

\* start's finally.
StartEnds(g) == SyncMountHold([g EXCEPT !.starting = None])

\* _set_app_state
AppState(g, guiding) ==
  IF guiding = g.guiding THEN g ELSE SyncMountHold([g EXCEPT !.guiding = guiding])

----------------------------------------------------------------------------
(* Lending and taking back (nocs.sequence.rig) *)

\* RigExecutor.paused
Lend(g) == GuideUnder(Suspend(g), None)

\* take_back: guide_under has taken effect also when resume refuses.
TakeBackRefused(g) == ~CheckFree(GuideUnder(g, "sequence"), g.lent)
TakeBack(g) ==
  LET under == GuideUnder(g, "sequence")
  IN IF TakeBackRefused(g) THEN under ELSE Resume(under)
=============================================================================
