------------------------- MODULE SequenceRuns_proofs -------------------------
(***************************************************************************)
(* The run of a sequence works only while it holds the whole rig, lends all *)
(* of it while it is paused and leaves nothing behind; and of its night      *)
(* nothing is left out, and little repeated, through any crashes.           *)
(***************************************************************************)
EXTENDS SequenceRuns, TLAPS

(* The rig *)

\* PHD2's resource is the guide command's, the camera is never guiding's, and the mount
\* is not the guide command's.
Shares(g) ==
  /\ g.lock["phd2"] \in {None, "guide"}
  /\ g.lock["camera"] \in {None, "sequence", "user"}
  /\ g.lock["mount"] \in {None, "sequence", "guiding", "user"}

\* The sequence has the whole rig, has lent the whole rig, or has nothing to do with it.
Holds(g) == g.lent = {} /\ g.lock["camera"] = "sequence" /\ g.lock["mount"] = "sequence"
HoldsNothing(g) == g.lock["camera"] # "sequence" /\ g.lock["mount"] # "sequence"
Lends(g) == g.lent = C!SequenceRoles /\ HoldsNothing(g)
Apart(g) == g.lent = {} /\ HoldsNothing(g)

\* Guiding holds the mount only while PHD2 guides or a start runs.
Reason(g, s) == g.lock["mount"] = "guiding" => g.guiding \/ \E c \in C!Callers : s[c] # "idle"

\* Whose start _starting names, runs.
StartRuns(g, s) == \A c \in C!Callers : g.starting = c => s[c] # "idle"

\* What each step leaves true of the rig.
RigInv(g, s) == g \in C!Rigs /\ Shares(g) /\ Reason(g, s) /\ StartRuns(g, s)

\* What the operators on the rig keep of the sequence's part in it.
SamePart(g, h) ==
  /\ h.lent = g.lent /\ h.running = g.running
  /\ h.lock["camera"] = g.lock["camera"]
  /\ h.lock["mount"] = "sequence" <=> g.lock["mount"] = "sequence"

USE DEF C!Roles, C!SequenceRoles, C!Owners, C!Holders, C!Callers


\* h is g with other locks.
OnlyLocks(g, h) ==
  /\ h \in C!Rigs
  /\ h.lent = g.lent /\ h.running = g.running /\ h.guiding = g.guiding
  /\ h.linked = g.linked /\ h.under = g.under /\ h.starting = g.starting

LEMMA FreeLocks ==
  ASSUME NEW g \in C!Rigs, NEW o \in C!Owners
  PROVE  /\ OnlyLocks(g, C!Free(g, o))
         /\ \A r \in C!Roles :
              C!Free(g, o).lock[r] = IF g.lock[r] = o THEN None ELSE g.lock[r]
  BY DEF C!Rigs, C!Free, OnlyLocks

LEMMA TakeLocks ==
  ASSUME NEW g \in C!Rigs, NEW o \in C!Owners, NEW R \in SUBSET C!Roles
  PROVE  /\ OnlyLocks(g, C!Take(g, o, R))
         /\ \A r \in C!Roles :
              C!Take(g, o, R).lock[r] = IF r \in R THEN o ELSE g.lock[r]
  BY DEF C!Rigs, C!Take, OnlyLocks


\* h is g with guiding's hold of the mount as it should be.
Synced(g, h) ==
  /\ h \in C!Rigs /\ Shares(h) /\ SamePart(g, h)
  /\ h.starting = g.starting /\ h.guiding = g.guiding /\ h.under \in {g.under, None}
  /\ h.lock["mount"] = "guiding" => C!GuidingNow(h)

LEMMA SyncMountHoldKeeps ==
  ASSUME C!ControlAssumption, NEW g \in C!Rigs, Shares(g)
  PROVE  Synced(g, C!SyncMountHold(g))
<1> DEFINE f == [g EXCEPT !.under = None]
<1> HIDE DEF f
<1>1. f \in C!Rigs /\ f.lock = g.lock /\ f.under = None /\ f.lent = g.lent /\ f.running = g.running
      /\ f.starting = g.starting /\ f.guiding = g.guiding /\ f.linked = g.linked
  BY DEF C!Rigs, f
<1>2. None \notin C!Owners
  BY DEF C!ControlAssumption
<1>3. CASE ~C!GuidingNow(g)
  <2>1. C!SyncMountHold(g) = C!Free(g, "guiding")
    BY <1>3 DEF C!SyncMountHold
  <2>2. QED
    BY <1>2, <2>1, FreeLocks DEF Synced, OnlyLocks, Shares, SamePart
<1>4. CASE /\ C!GuidingNow(g) /\ g.linked /\ g.lock["mount"] = None
           /\ ~(g.under # None /\ g.running)
  <2>1. C!SyncMountHold(g) = C!Take(f, "guiding", {"mount"})
    BY <1>1, <1>2, <1>4 DEF C!SyncMountHold, C!HoldMount, C!NeedsHold, f
  <2>2. /\ OnlyLocks(f, C!Take(f, "guiding", {"mount"}))
        /\ \A r \in C!Roles : C!Take(f, "guiding", {"mount"}).lock[r]
                              = IF r \in {"mount"} THEN "guiding" ELSE f.lock[r]
    BY <1>1, TakeLocks
  <2>3. QED
    BY <1>1, <1>2, <1>4, <2>1, <2>2 DEF Synced, OnlyLocks, Shares, SamePart, C!GuidingNow
<1>5. CASE C!GuidingNow(g) /\ C!SyncMountHold(g) = g
  BY <1>5 DEF Synced, SamePart, Shares
<1>6. QED
  BY <1>3, <1>4, <1>5 DEF C!SyncMountHold, Shares

\* Nothing is taken from the sequence or given to it, and PHD2 is told of no job.
Kept(g, h) == SamePart(g, h) /\ h.under \in {g.under, None}

StartPcs == [C!Callers -> {"idle", "connecting", "starting"}]

\* _sync_mount_hold is what gives guiding its reason to hold the mount.
LEMMA SyncInv ==
  ASSUME C!ControlAssumption, NEW g \in C!Rigs, Shares(g), NEW s \in StartPcs, StartRuns(g, s)
  PROVE  /\ RigInv(C!SyncMountHold(g), s) /\ Kept(g, C!SyncMountHold(g))
         /\ C!SyncMountHold(g).starting = g.starting
<1>1. Synced(g, C!SyncMountHold(g))
  BY SyncMountHoldKeeps
<1>2. QED
  BY <1>1 DEF Synced, RigInv, Reason, StartRuns, Kept, C!GuidingNow, C!ControlAssumption, C!Rigs

LEMMA GuideUnderInv ==
  ASSUME C!ControlAssumption, NEW g \in C!Rigs, Shares(g), NEW s \in StartPcs, StartRuns(g, s),
         NEW job \in {"sequence", None}
  PROVE  /\ RigInv(C!GuideUnder(g, job), s) /\ SamePart(g, C!GuideUnder(g, job))
         /\ C!GuideUnder(g, job).under \in {job, None}
         /\ C!GuideUnder(g, job).starting = g.starting
<1> DEFINE f == IF job # None THEN [C!Free(g, "guiding") EXCEPT !.under = job]
                ELSE [g EXCEPT !.under = None]
<1>1. OnlyLocks(g, C!Free(g, "guiding"))
      /\ \A r \in C!Roles : C!Free(g, "guiding").lock[r]
                            = IF g.lock[r] = "guiding" THEN None ELSE g.lock[r]
  BY FreeLocks
<1>2. f \in C!Rigs /\ f.under = job /\ f.lent = g.lent /\ f.running = g.running
      /\ f.starting = g.starting
      /\ \A r \in C!Roles : f.lock[r] = g.lock[r] \/ (g.lock[r] = "guiding" /\ f.lock[r] = None)
  BY <1>1 DEF C!Rigs, OnlyLocks
<1>3. C!GuideUnder(g, job) = C!SyncMountHold(f)
  BY DEF C!GuideUnder
<1> HIDE DEF f
<1>4. Shares(f) /\ StartRuns(f, s) /\ SamePart(g, f)
  BY <1>2 DEF Shares, StartRuns, SamePart, C!ControlAssumption
<1>5. RigInv(C!SyncMountHold(f), s) /\ Kept(f, C!SyncMountHold(f))
      /\ C!SyncMountHold(f).starting = f.starting
  BY <1>2, <1>4, SyncInv
<1>6. QED
  BY <1>2, <1>3, <1>4, <1>5 DEF Kept, SamePart

LEMMA StartGuidingInv ==
  ASSUME C!ControlAssumption, NEW s \in StartPcs, NEW g, RigInv(g, s), NEW c \in C!Callers
  PROVE  /\ RigInv(C!StartGuiding(g, c), [s EXCEPT ![c] = "connecting"])
         /\ SamePart(g, C!StartGuiding(g, c))
         /\ c = "guide" => C!StartGuiding(g, c).under = g.under
<1> DEFINE f == IF g.lock["mount"] = c THEN C!GuideUnder(g, c) ELSE g
           t == [s EXCEPT ![c] = "connecting"]
<1>1. g \in C!Rigs /\ Shares(g) /\ StartRuns(g, s)
  BY DEF RigInv
<1>2. c = "guide" => f = g
  BY <1>1 DEF Shares, C!ControlAssumption
<1>3. RigInv(f, s) /\ SamePart(g, f)
  BY <1>1, <1>2, GuideUnderInv DEF SamePart
<1>4. C!StartGuiding(g, c) = [f EXCEPT !.starting = c]
  BY DEF C!StartGuiding
<1> HIDE DEF f
<1>5. QED
  BY <1>2, <1>3, <1>4 DEF RigInv, C!Rigs, Shares, Reason, StartRuns, SamePart, StartPcs, C!ControlAssumption

LEMMA StartEndsInv ==
  ASSUME C!ControlAssumption, NEW s \in StartPcs, NEW g, RigInv(g, s), NEW c \in C!Callers
  PROVE  /\ RigInv(C!StartEnds(g), [s EXCEPT ![c] = "idle"])
         /\ Kept(g, C!StartEnds(g))
<1> DEFINE f == [g EXCEPT !.starting = None]
           t == [s EXCEPT ![c] = "idle"]
<1>1. f \in C!Rigs /\ Shares(f) /\ StartRuns(f, t) /\ SamePart(g, f) /\ f.under = g.under
  BY DEF RigInv, C!Rigs, Shares, StartRuns, SamePart, C!ControlAssumption
<1>2. t \in StartPcs
  BY DEF StartPcs
<1>3. C!StartEnds(g) = C!SyncMountHold(f)
  BY DEF C!StartEnds
<1> HIDE DEF f, t
<1>4. RigInv(C!SyncMountHold(f), t) /\ Kept(f, C!SyncMountHold(f))
  BY <1>1, <1>2, SyncInv
<1>5. QED
  BY <1>1, <1>3, <1>4 DEF Kept, SamePart, t

LEMMA AppStateInv ==
  ASSUME C!ControlAssumption, NEW s \in StartPcs, NEW g, RigInv(g, s), NEW guiding \in BOOLEAN
  PROVE  RigInv(C!AppState(g, guiding), s) /\ Kept(g, C!AppState(g, guiding))
<1> DEFINE f == [g EXCEPT !.guiding = guiding]
<1>1. f \in C!Rigs /\ Shares(f) /\ StartRuns(f, s) /\ SamePart(g, f) /\ f.under = g.under
  BY DEF RigInv, C!Rigs, Shares, StartRuns, SamePart
<1>2. C!AppState(g, guiding) = g \/ C!AppState(g, guiding) = C!SyncMountHold(f)
  BY DEF C!AppState
<1> HIDE DEF f
<1>3. RigInv(C!SyncMountHold(f), s) /\ Kept(f, C!SyncMountHold(f))
  BY <1>1, SyncInv
<1>4. QED
  BY <1>1, <1>2, <1>3 DEF Kept, SamePart

LEMMA StartCancelledInv ==
  ASSUME C!ControlAssumption, NEW s \in StartPcs, NEW g, RigInv(g, s), NEW c \in C!Callers,
         startPc = s
  PROVE  /\ RigInv(C!StartCancelled(g, c), [s EXCEPT ![c] = "idle"])
         /\ Kept(g, C!StartCancelled(g, c))
<1>1. CASE s[c] = "idle"
  <2>1. C!StartCancelled(g, c) = g /\ [s EXCEPT ![c] = "idle"] = s
    BY <1>1 DEF C!StartCancelled, StartPcs
  <2>2. QED
    BY <2>1 DEF Kept, SamePart
<1>2. CASE s[c] = "connecting"
  BY <1>2, StartEndsInv DEF C!StartCancelled
<1>3. CASE s[c] = "starting"
  <2>1. C!StartCancelled(g, c) = C!StartEnds(C!AppState(g, FALSE))
    BY <1>3 DEF C!StartCancelled
  <2>2. RigInv(C!AppState(g, FALSE), s) /\ Kept(g, C!AppState(g, FALSE))
    BY AppStateInv
  <2>3. /\ RigInv(C!StartEnds(C!AppState(g, FALSE)), [s EXCEPT ![c] = "idle"])
        /\ Kept(C!AppState(g, FALSE), C!StartEnds(C!AppState(g, FALSE)))
    BY <2>2, StartEndsInv
  <2>4. QED
    BY <2>1, <2>2, <2>3 DEF Kept, SamePart
<1>4. QED
  BY <1>1, <1>2, <1>3 DEF StartPcs

\* A rig in which only locks of the sequence, and what it lent, differ.
LEMMA EndedInv ==
  ASSUME C!ControlAssumption, NEW s \in StartPcs, NEW g, RigInv(g, s)
  PROVE  /\ RigInv(C!Ended(g), s) /\ Apart(C!Ended(g))
         /\ C!Ended(g).under = g.under /\ C!Ended(g).starting = g.starting
<1>1. g \in C!Rigs
  BY DEF RigInv
<1>2. OnlyLocks(g, C!Free(g, "sequence"))
      /\ \A r \in C!Roles : C!Free(g, "sequence").lock[r]
                            = IF g.lock[r] = "sequence" THEN None ELSE g.lock[r]
  BY <1>1, FreeLocks
<1> DEFINE f == C!Free(g, "sequence")
           h == [f EXCEPT !.lent = {}, !.running = FALSE]
<1>3. C!Ended(g) = h
  BY DEF C!Ended
<1> HIDE DEF f
<1>4. h \in C!Rigs /\ h.lock = f.lock /\ h.lent = {} /\ h.guiding = g.guiding
      /\ h.under = g.under /\ h.starting = g.starting
  BY <1>2 DEF OnlyLocks, C!Rigs, f
<1> HIDE DEF h
<1>5. QED
  BY <1>2, <1>3, <1>4 DEF RigInv, Shares, Reason, StartRuns, Apart, HoldsNothing,
                          C!ControlAssumption, f

LEMMA LendInv ==
  ASSUME C!ControlAssumption, NEW s \in StartPcs, NEW g, RigInv(g, s), Holds(g)
  PROVE  /\ RigInv(C!Lend(g), s) /\ Lends(C!Lend(g))
<1>1. g \in C!Rigs
  BY DEF RigInv
<1>2. OnlyLocks(g, C!Free(g, "sequence"))
      /\ \A r \in C!Roles : C!Free(g, "sequence").lock[r]
                            = IF g.lock[r] = "sequence" THEN None ELSE g.lock[r]
  BY <1>1, FreeLocks
<1> DEFINE f == C!Free(g, "sequence")
           h == [f EXCEPT !.lent = C!SequenceRoles]
<1>3. C!Suspend(g) = h
  <2>1. {r \in C!Roles : g.lock[r] = "sequence"} = C!SequenceRoles
    BY DEF Holds, RigInv, Shares, C!ControlAssumption
  <2>2. QED
    BY <2>1 DEF C!Suspend, Holds
<1> HIDE DEF f
<1>4. h \in C!Rigs /\ h.lock = f.lock /\ h.lent = C!SequenceRoles
      /\ h.starting = g.starting
  BY <1>2 DEF OnlyLocks, C!Rigs, f
<1> HIDE DEF h
<1>5. Shares(h) /\ StartRuns(h, s) /\ Lends(h)
  BY <1>2, <1>4 DEF RigInv, Shares, StartRuns, Lends, HoldsNothing, C!ControlAssumption, f
<1>6. RigInv(C!GuideUnder(h, None), s) /\ SamePart(h, C!GuideUnder(h, None))
  BY <1>4, <1>5, GuideUnderInv
<1>7. QED
  BY <1>3, <1>5, <1>6 DEF C!Lend, Lends, HoldsNothing, SamePart

\* Taken back, the rig is the sequence's again; refused, it stays lent.
LEMMA TakeBackInv ==
  ASSUME C!ControlAssumption, NEW s \in StartPcs, NEW g, RigInv(g, s), Holds(g) \/ Lends(g)
  PROVE  /\ RigInv(C!TakeBack(g), s)
         /\ C!TakeBackRefused(g) => Lends(C!TakeBack(g))
         /\ ~C!TakeBackRefused(g) => Holds(C!TakeBack(g))
<1> DEFINE f == C!GuideUnder(g, "sequence")
           t == C!Take(f, "sequence", g.lent)
           h == [t EXCEPT !.lent = {}]
<1>1. g \in C!Rigs /\ Shares(g) /\ StartRuns(g, s)
  BY DEF RigInv
<1>2. RigInv(f, s) /\ SamePart(g, f)
  BY <1>1, GuideUnderInv
<1>3. C!TakeBackRefused(g) <=> \E r \in g.lent : f.lock[r] # None
  BY DEF C!TakeBackRefused, C!CheckFree
<1>4. CASE C!TakeBackRefused(g)
  <2>1. C!TakeBack(g) = f
    BY <1>4 DEF C!TakeBack
  <2>2. Lends(g)
    BY <1>3, <1>4 DEF Holds
  <2> HIDE DEF f
  <2>3. Lends(f)
    BY <1>2, <2>2 DEF Lends, HoldsNothing, SamePart
  <2>4. QED
    BY <1>2, <1>4, <2>1, <2>3
<1>5. CASE ~C!TakeBackRefused(g)
  <2> HIDE DEF f
  <2>1. f \in C!Rigs /\ g.lent \in SUBSET C!Roles /\ f.lent = g.lent
    BY <1>1, <1>2 DEF RigInv, C!Rigs, SamePart
  <2>2. OnlyLocks(f, t)
        /\ \A r \in C!Roles : t.lock[r] = IF r \in g.lent THEN "sequence" ELSE f.lock[r]
    BY <2>1, TakeLocks
  <2>3. C!TakeBack(g) = h
    BY <1>5, <2>1 DEF C!TakeBack, C!Resume, f
  <2> HIDE DEF t
  <2>4. h \in C!Rigs /\ h.lock = t.lock /\ h.lent = {} /\ h.guiding = f.guiding
        /\ h.starting = f.starting
    BY <2>2 DEF OnlyLocks, C!Rigs
  <2> HIDE DEF h
  <2>5. Holds(h)
    BY <1>2, <2>2, <2>4 DEF Holds, Lends, SamePart
  <2>6. \A r \in C!Roles : h.lock[r] = "sequence" \/ h.lock[r] = f.lock[r]
    BY <2>2, <2>4
  <2>7. RigInv(h, s)
    <3>1. Shares(h)
      BY <1>2, <2>4, <2>5, <2>2 DEF RigInv, Shares, Holds, C!Rigs
    <3>2. Reason(h, s) /\ StartRuns(h, s)
      BY <1>2, <2>4, <2>6 DEF RigInv, Reason, StartRuns
    <3>3. QED
      BY <2>4, <3>1, <3>2 DEF RigInv
  <2>8. QED
    BY <1>5, <2>3, <2>5, <2>7
<1>6. QED
  BY <1>4, <1>5

LEMMA HoldMountInv ==
  ASSUME C!ControlAssumption, NEW s \in StartPcs, NEW g, RigInv(g, s), NEW c \in C!Callers,
         C!CanHoldMount(g)
  PROVE  /\ RigInv(C!HoldMount(g), [s EXCEPT ![c] = "starting"])
         /\ Kept(g, C!HoldMount(g))
<1> DEFINE t == C!Take(g, "guiding", {"mount"})
<1>1. g \in C!Rigs
  BY DEF RigInv
<1>2. OnlyLocks(g, t)
      /\ \A r \in C!Roles : t.lock[r] = IF r \in {"mount"} THEN "guiding" ELSE g.lock[r]
  BY <1>1, TakeLocks
<1>3. C!HoldMount(g) = g \/ (C!HoldMount(g) = t /\ g.lock["mount"] = None)
  BY DEF C!HoldMount, C!CanHoldMount
<1> HIDE DEF t
<1>4. QED
  BY <1>2, <1>3 DEF RigInv, OnlyLocks, Shares, Reason, StartRuns, Kept, SamePart, StartPcs,
                    C!ControlAssumption

----------------------------------------------------------------------------
(* The run's control *)

\* Where the run's task is tells what part of the rig the sequence has.
PartOfRun ==
  /\ await = "none" <=> task # "running"
  /\ task = "none" => Apart(rig) /\ rig.under = None
  /\ task = "created" => Holds(rig) /\ rig.under = None
  /\ await \in {"safe", "step", "pausing"} => Holds(rig)
  /\ task = "running" => Holds(rig) \/ Lends(rig)

\* Only a step starts guiding for the sequence, and its end ends that start.
StartIsStep ==
  startPc["sequence"] # "idle" => await \in {"step", "endStep"} /\ doing = "guide"

\* A run that waits is paused, and has lent the rig, until something wakes it.
PauseInv ==
  await = "paused" =>
    /\ rstate \in {"paused", "stopping"}
    /\ ~woken => rstate = "paused" /\ Lends(rig)

ControlInv == C!TypeOK /\ RigInv(rig, startPc) /\ PartOfRun /\ StartIsStep /\ PauseInv

LEMMA ControlInvHolds == ASSUME C!ControlAssumption, ControlInv PROVE RigIsHeld
<1>1. C!WorkHoldsRig
  BY DEF ControlInv, PartOfRun, C!WorkHoldsRig, C!HoldsRig, Holds
<1>2. C!PausedLends
  BY DEF ControlInv, RigInv, Shares, PauseInv, C!PausedLends, Lends, HoldsNothing, C!ControlAssumption
<1>3. C!NothingLeft
  BY DEF ControlInv, RigInv, Shares, StartRuns, PartOfRun, StartIsStep, Apart, HoldsNothing,
         C!NothingLeft, C!TypeOK, C!ControlAssumption
<1>4. C!HoldHasReason
  BY DEF ControlInv, RigInv, Reason, C!HoldHasReason
<1>5. QED
  BY <1>1, <1>2, <1>3, <1>4 DEF RigIsHeld

LEMMA ControlInit == ASSUME C!ControlAssumption, C!Init PROVE ControlInv
<1> 0 \in 0..EndSteps
  BY DEF C!ControlAssumption
<1> C!FreshRig \in C!Rigs
  BY DEF C!Rigs, C!FreshRig
<1>1. C!TypeOK
  BY DEF C!Init, C!TypeOK, C!RunStates, C!StepKinds
<1>2. RigInv(rig, startPc)
  BY <1>1 DEF C!Init, C!FreshRig, C!TypeOK, RigInv, Shares, Reason, StartRuns, C!ControlAssumption
<1>3. Apart(rig)
  BY DEF C!Init, C!FreshRig, Apart, HoldsNothing, C!ControlAssumption
<1>4. QED
  BY <1>1, <1>2, <1>3 DEF C!Init, C!FreshRig, ControlInv, PartOfRun, StartIsStep, PauseInv

\* What a step that does not touch the rig has to keep.
LEMMA RigUntouched ==
  ASSUME ControlInv, UNCHANGED <<rig, startPc>>
  PROVE  RigInv(rig', startPc') /\ rig' \in C!Rigs
  BY DEF ControlInv, RigInv

LEMMA StartInv == ASSUME C!ControlAssumption, ControlInv, C!Start PROVE ControlInv'
<1> DEFINE t == C!Take(rig, "sequence", C!SequenceRoles)
           h == [t EXCEPT !.running = TRUE]
<1>1. OnlyLocks(rig, t)
      /\ \A r \in C!Roles : t.lock[r] = IF r \in C!SequenceRoles THEN "sequence" ELSE rig.lock[r]
  BY TakeLocks DEF ControlInv, C!TypeOK
<1> HIDE DEF t
<1>2. h \in C!Rigs /\ h.lock = t.lock /\ h.lent = rig.lent /\ h.under = rig.under
      /\ h.starting = rig.starting /\ h.guiding = rig.guiding
  BY <1>1 DEF OnlyLocks, C!Rigs
<1>3. rig' = h
  BY DEF C!Start, t
<1> HIDE DEF h
<1>4. RigInv(h, startPc) /\ Holds(h) /\ h.under = None
  BY <1>1, <1>2 DEF C!Start, ControlInv, PartOfRun, RigInv, Shares, Reason, StartRuns, Holds, Apart
<1>5. QED
  BY <1>2, <1>3, <1>4 DEF C!Start, C!guide, C!run, C!asks, ControlInv, C!TypeOK, PartOfRun,
                          StartIsStep, PauseInv

LEMMA BeginInv == ASSUME C!ControlAssumption, ControlInv, C!Begin PROVE ControlInv'
<1> EndSteps \in 0..EndSteps
  BY DEF C!ControlAssumption
<1>1. C!TypeOK'
  BY DEF C!Begin, C!guide, ControlInv, C!TypeOK, C!RunStates, C!StepKinds
<1>2. QED
  BY <1>1 DEF C!Begin, C!guide, ControlInv, RigInv, PartOfRun, StartIsStep, PauseInv

LEMMA NeverBeganInv == ASSUME C!ControlAssumption, ControlInv, C!NeverBegan PROVE ControlInv'
<1>1. startPc \in StartPcs /\ RigInv(rig, startPc)
  BY DEF ControlInv, C!TypeOK, StartPcs
<1>2. RigInv(C!Ended(rig), startPc) /\ Apart(C!Ended(rig)) /\ C!Ended(rig).under = rig.under
  BY <1>1, EndedInv
<1>3. RigInv(rig', startPc) /\ Apart(rig') /\ rig'.under = None /\ UNCHANGED startPc
  BY <1>2 DEF C!NeverBegan, C!guide, ControlInv, PartOfRun
<1>4. QED
  BY <1>3 DEF C!NeverBegan, C!guide, C!run, C!asks, ControlInv, RigInv, C!TypeOK, PartOfRun,
              StartIsStep, PauseInv

\* However the run's task ends, once no start of guiding is the sequence's.
LEMMA TaskEndsInv ==
  ASSUME C!ControlAssumption, ControlInv, NEW g, NEW s \in StartPcs, RigInv(g, s),
         s["sequence"] = "idle", startPc' = s, C!TaskEnds(g)
  PROVE  ControlInv'
<1> DEFINE f == C!GuideUnder(g, None)
<1>1. RigInv(f, s) /\ f.under = None
  BY GuideUnderInv DEF RigInv
<1> HIDE DEF f
<1>2. RigInv(C!Ended(f), s) /\ Apart(C!Ended(f)) /\ C!Ended(f).under = f.under
  BY <1>1, EndedInv
<1>3. rig' = C!Ended(f)
  BY DEF C!TaskEnds, f
<1>4. RigInv(rig', startPc') /\ Apart(rig') /\ rig'.under = None
  BY <1>1, <1>2, <1>3
<1>5. C!TypeOK'
  BY <1>4 DEF C!TaskEnds, C!asks, ControlInv, RigInv, C!TypeOK, StartPcs
<1>6. QED
  BY <1>4, <1>5 DEF C!TaskEnds, ControlInv, PartOfRun, StartIsStep, PauseInv

LEMMA UnwindInv == ASSUME C!ControlAssumption, ControlInv, C!Unwind PROVE ControlInv'
<1> DEFINE s == [startPc EXCEPT !["sequence"] = "idle"]
<1>1. startPc \in StartPcs /\ RigInv(rig, startPc) /\ s \in StartPcs /\ s["sequence"] = "idle"
  BY DEF ControlInv, C!TypeOK, StartPcs
<1>2. RigInv(C!StartCancelled(rig, "sequence"), s)
  BY <1>1, StartCancelledInv
<1>3. startPc' = s /\ C!TaskEnds(C!StartCancelled(rig, "sequence"))
  BY DEF C!Unwind
<1> HIDE DEF s
<1>4. QED
  BY <1>1, <1>2, <1>3, TaskEndsInv

\* The rest of the lemmas are about steps of the run's task while it runs.

LEMMA KeptPart ==
  ASSUME NEW g, NEW h, SamePart(g, h)
  PROVE  /\ Holds(g) => Holds(h)
         /\ Lends(g) => Lends(h)
         /\ Apart(g) => Apart(h)
  BY DEF SamePart, Holds, Lends, Apart, HoldsNothing

LEMMA CancelStartTypes ==
  ASSUME C!TypeOK, C!CancelStart
  PROVE  cancel' \in {"no", "user", "guiding"} /\ guideCancel' \in BOOLEAN
<1>1. CASE rig.starting = "sequence" /\ task # "none"
  BY <1>1 DEF C!CancelStart, C!TypeOK
<1>2. CASE ~(rig.starting = "sequence" /\ task # "none") /\ rig.starting = "guide"
  BY <1>2 DEF C!CancelStart, C!TypeOK
<1>3. CASE ~(rig.starting = "sequence" /\ task # "none") /\ rig.starting # "guide"
  BY <1>3 DEF C!CancelStart, C!TypeOK
<1>4. QED
  BY <1>1, <1>2, <1>3

\* The rest of the run waits for its end, in a rig that it has or has lent.
LEMMA EndsInv ==
  ASSUME C!ControlAssumption, ControlInv, task = "running", UNCHANGED C!job, UNCHANGED guideCancel,
         NEW runEnd \in BOOLEAN, C!Ends(runEnd),
         startPc' \in StartPcs, startPc'["sequence"] = "idle", RigInv(rig', startPc'),
         Holds(rig') \/ Lends(rig')
  PROVE  ControlInv'
<1> 0 \in 0..EndSteps
  BY DEF C!ControlAssumption
<1>1. C!TypeOK'
  BY DEF C!Ends, C!job, ControlInv, RigInv, C!TypeOK, StartPcs, C!RunStates
<1>2. QED
  BY <1>1 DEF C!Ends, C!job, ControlInv, PartOfRun, StartIsStep, PauseInv

LEMMA BeginStepInv ==
  ASSUME C!ControlAssumption, ControlInv, task = "running", startPc["sequence"] = "idle",
         NEW kind \in C!StepKinds, NEW n \in {"step", "endStep"}, C!BeginStep(kind, n),
         n = "step" => Holds(rig),
         UNCHANGED rstate, UNCHANGED C!asks, endLeft' \in 0..EndSteps
  PROVE  ControlInv'
<1>1. startPc \in StartPcs /\ RigInv(rig, startPc)
  BY DEF ControlInv, C!TypeOK, StartPcs
<1>2. RigInv(rig', startPc') /\ SamePart(rig, rig') /\ startPc' \in StartPcs
  <2>1. CASE kind = "guide"
    <3>1. /\ rig' = C!StartGuiding(rig, "sequence")
          /\ startPc' = [startPc EXCEPT !["sequence"] = "connecting"]
      BY <2>1 DEF C!BeginStep
    <3>2. RigInv(C!StartGuiding(rig, "sequence"), [startPc EXCEPT !["sequence"] = "connecting"])
          /\ SamePart(rig, C!StartGuiding(rig, "sequence"))
      BY <1>1, StartGuidingInv
    <3>3. QED
      BY <1>1, <3>1, <3>2 DEF StartPcs
  <2>2. CASE kind # "guide"
    BY <1>1, <2>2 DEF C!BeginStep, SamePart
  <2>3. QED
    BY <2>1, <2>2
<1>3. cancel' \in {"no", "user", "guiding"} /\ guideCancel' \in BOOLEAN
  BY CancelStartTypes DEF C!BeginStep, ControlInv, C!TypeOK
<1>4. doing' \in C!StepKinds \cup {"stopping"} /\ (startPc'["sequence"] # "idle" => doing' = "guide")
  BY DEF C!BeginStep, C!StepKinds
<1>5. C!TypeOK'
  BY <1>2, <1>3, <1>4 DEF C!BeginStep, C!asks, ControlInv, RigInv, C!TypeOK, StartPcs
<1>6. QED
  BY <1>2, <1>4, <1>5, KeptPart DEF C!BeginStep, ControlInv, PartOfRun, StartIsStep, PauseInv

LEMMA SafePointInv == ASSUME C!ControlAssumption, ControlInv, C!SafePoint PROVE ControlInv'
<1>1. /\ task = "running" /\ await = "safe" /\ startPc["sequence"] = "idle" /\ Holds(rig)
      /\ startPc \in StartPcs
  BY DEF C!SafePoint, C!Runs, ControlInv, PartOfRun, StartIsStep, C!TypeOK, StartPcs
<1>2. ASSUME NEW runEnd \in BOOLEAN, C!Ends(runEnd), UNCHANGED <<rig, C!guide, C!job>>
      PROVE  ControlInv'
  <2>1. RigInv(rig', startPc') /\ Holds(rig') /\ startPc' = startPc /\ UNCHANGED guideCancel
    BY <1>1, <1>2 DEF C!guide, ControlInv
  <2>2. QED
    BY <1>1, <1>2, <2>1, EndsInv
<1>3. CASE /\ pauseAsked' = FALSE /\ await' = "pausing"
           /\ UNCHANGED <<rig, C!guide, C!job, rstate, stopAsked, woken, doing, dropped, endLeft>>
  BY <1>1, <1>3 DEF C!guide, C!job, ControlInv, C!TypeOK, RigInv, PartOfRun, StartIsStep, PauseInv
<1>4. ASSUME NEW kind \in C!StepKinds, C!BeginStep(kind, "step"),
             UNCHANGED <<rstate, C!asks, endLeft>>
      PROVE  ControlInv'
  <2>1. endLeft' \in 0..EndSteps
    BY <1>4 DEF ControlInv, C!TypeOK
  <2>2. QED
    BY <1>1, <1>4, <2>1, BeginStepInv
<1>5. (stopAsked = "end") \in BOOLEAN
  OBVIOUS
<1>6. QED
  BY <1>2, <1>3, <1>4, <1>5 DEF C!SafePoint

LEMMA GuidingStoppedInv == ASSUME C!ControlAssumption, ControlInv, C!GuidingStopped PROVE ControlInv'
<1>1. RigInv(rig', startPc') /\ rig' \in C!Rigs
  BY RigUntouched DEF C!GuidingStopped, C!guide
<1>2. QED
  BY <1>1 DEF C!GuidingStopped, C!InStep, C!guide, C!job, C!asks, ControlInv, C!TypeOK, C!StepKinds,
              PartOfRun, StartIsStep, PauseInv

\* The rig once a step ended by itself.
LEMMA StepRig ==
  ASSUME C!ControlAssumption, ControlInv, task = "running",
         rig' = (IF doing = "guide" THEN C!StartEnds(rig) ELSE rig),
         startPc' = [startPc EXCEPT !["sequence"] = "idle"]
  PROVE  /\ RigInv(rig', startPc') /\ SamePart(rig, rig')
         /\ startPc' \in StartPcs /\ startPc'["sequence"] = "idle"
<1>1. startPc \in StartPcs /\ RigInv(rig, startPc)
  BY DEF ControlInv, C!TypeOK, StartPcs
<1>2. startPc' \in StartPcs /\ startPc'["sequence"] = "idle"
  BY <1>1 DEF StartPcs
<1>3. CASE doing = "guide"
  <2>1. RigInv(C!StartEnds(rig), [startPc EXCEPT !["sequence"] = "idle"]) /\ Kept(rig, C!StartEnds(rig))
    BY <1>1, StartEndsInv
  <2>2. QED
    BY <1>2, <1>3, <2>1 DEF Kept
<1>4. CASE doing # "guide"
  <2>1. startPc' = startPc /\ rig' = rig
    BY <1>1, <1>4 DEF ControlInv, StartIsStep, StartPcs
  <2>2. QED
    BY <1>1, <1>2, <2>1 DEF SamePart
<1>5. QED
  BY <1>3, <1>4

\* A step is over and the run, which may have been asked to pause, goes on.
LEMMA StepOverInv ==
  ASSUME C!ControlAssumption, ControlInv, task = "running", C!InStep,
         RigInv(rig', startPc'), SamePart(rig, rig'),
         startPc' \in StartPcs, startPc'["sequence"] = "idle",
         await' \in {"safe", "end"}, await' = "safe" => await = "step",
         doing' = "nothing", dropped' = FALSE,
         UNCHANGED <<guideCancel, C!job, endLeft>>, UNCHANGED <<rstate, C!asks>> \/ C!AskPause
  PROVE  ControlInv'
<1>1. rstate' \in C!RunStates /\ pauseAsked' \in BOOLEAN /\ woken' \in BOOLEAN
      /\ UNCHANGED stopAsked
  BY DEF C!AskPause, C!asks, ControlInv, C!TypeOK, C!RunStates
<1>2. C!TypeOK'
  BY <1>1 DEF C!job, ControlInv, RigInv, C!TypeOK, StartPcs
<1>3. (Holds(rig) => Holds(rig')) /\ (Lends(rig) => Lends(rig'))
  BY KeptPart
<1>4. QED
  BY <1>2, <1>3 DEF C!InStep, C!job, ControlInv, PartOfRun, StartIsStep, PauseInv

LEMMA StepEndsInv == ASSUME C!ControlAssumption, ControlInv, C!StepEnds PROVE ControlInv'
<1>1. CASE C!StepReturns
  <2>1. /\ RigInv(rig', startPc') /\ SamePart(rig, rig')
        /\ startPc' \in StartPcs /\ startPc'["sequence"] = "idle"
    BY <1>1, StepRig DEF C!StepReturns, C!StepOver, C!Runs
  <2>2. QED
    BY <1>1, <2>1, StepOverInv DEF C!StepReturns, C!StepOver, C!Runs
<1>2. CASE C!StepDropped
  <2>1. startPc \in StartPcs /\ RigInv(rig, startPc)
    BY DEF ControlInv, C!TypeOK, StartPcs
  <2>2. RigInv(C!StartCancelled(rig, "sequence"), [startPc EXCEPT !["sequence"] = "idle"])
        /\ Kept(rig, C!StartCancelled(rig, "sequence"))
    BY <2>1, StartCancelledInv
  <2>3. rig' = C!StartCancelled(rig, "sequence")
        /\ startPc' = [startPc EXCEPT !["sequence"] = "idle"]
    BY <1>2 DEF C!StepDropped, C!StepOver
  <2>4. /\ RigInv(rig', startPc') /\ SamePart(rig, rig')
        /\ startPc' \in StartPcs /\ startPc'["sequence"] = "idle"
    BY <2>1, <2>2, <2>3 DEF Kept, StartPcs
  <2>5. QED
    BY <1>2, <2>4, StepOverInv DEF C!StepDropped, C!StepOver, C!Runs
<1>3. CASE C!PolicyPauses
  <2>1. /\ RigInv(rig', startPc') /\ SamePart(rig, rig')
        /\ startPc' \in StartPcs /\ startPc'["sequence"] = "idle"
    BY <1>3, StepRig DEF C!PolicyPauses, C!StepOver, C!Runs
  <2>2. QED
    BY <1>3, <2>1, StepOverInv DEF C!PolicyPauses, C!StepOver, C!Runs, C!InStep
<1>4. CASE C!PolicyEnds
  <2>1. /\ RigInv(rig', startPc') /\ SamePart(rig, rig')
        /\ startPc' \in StartPcs /\ startPc'["sequence"] = "idle"
    BY <1>4, StepRig DEF C!PolicyEnds, C!Runs
  <2>2. Holds(rig) \/ Lends(rig)
    BY <1>4 DEF C!PolicyEnds, C!Runs, ControlInv, PartOfRun
  <2>3. QED
    BY <1>4, <2>1, <2>2, KeptPart, EndsInv DEF C!PolicyEnds, C!Runs
<1>5. QED
  BY <1>1, <1>2, <1>3, <1>4 DEF C!StepEnds

LEMMA GoOnInv ==
  ASSUME C!ControlAssumption, ControlInv, task = "running", startPc["sequence"] = "idle",
         NEW g, RigInv(g, startPc), Holds(g) \/ Lends(g), C!GoOn(g)
  PROVE  ControlInv'
<1>1. startPc \in StartPcs /\ startPc' = startPc /\ UNCHANGED <<guideCancel, C!job>>
      /\ rig' = C!TakeBack(g)
  BY DEF C!GoOn, C!guide, ControlInv, C!TypeOK, StartPcs
<1>2. /\ RigInv(rig', startPc')
      /\ C!TakeBackRefused(g) => Lends(rig')
      /\ ~C!TakeBackRefused(g) => Holds(rig')
  BY <1>1, TakeBackInv
<1>3. CASE C!TakeBackRefused(g)
  <2>1. C!Ends(TRUE)
    BY <1>3 DEF C!GoOn
  <2>2. QED
    BY <1>1, <1>2, <1>3, <2>1, EndsInv
<1>4. CASE ~C!TakeBackRefused(g)
  BY <1>1, <1>2, <1>4 DEF C!GoOn, C!job, C!asks, ControlInv, C!TypeOK, RigInv, C!RunStates,
                          PartOfRun, StartIsStep, PauseInv
<1>5. QED
  BY <1>3, <1>4

LEMMA PausingInv == ASSUME C!ControlAssumption, ControlInv, C!Paused \/ C!WakeUp PROVE ControlInv'
<1>1. startPc["sequence"] = "idle" /\ startPc \in StartPcs /\ RigInv(rig, startPc)
      /\ task = "running" /\ (Holds(rig) \/ Lends(rig))
  BY DEF C!Paused, C!WakeUp, C!Runs, ControlInv, C!TypeOK, StartPcs, StartIsStep, PartOfRun
<1>2. CASE C!Paused
  <2>1. Holds(rig)
    BY <1>2 DEF C!Paused, ControlInv, PartOfRun
  <2>2. RigInv(C!Lend(rig), startPc) /\ Lends(C!Lend(rig))
    BY <1>1, <2>1, LendInv
  <2>3. CASE woken
    BY <1>1, <1>2, <2>2, <2>3, GoOnInv DEF C!Paused
  <2>4. CASE ~woken
    <3>1. RigInv(rig', startPc') /\ Lends(rig') /\ startPc' = startPc
      BY <1>2, <2>2, <2>4 DEF C!Paused, C!guide
    <3>2. QED
      BY <1>1, <1>2, <2>4, <3>1 DEF C!Paused, C!guide, C!job, C!asks, ControlInv, C!TypeOK, RigInv,
                                    C!RunStates, PartOfRun, StartIsStep, PauseInv
  <2>5. QED
    BY <2>3, <2>4
<1>3. CASE C!WakeUp
  BY <1>1, <1>3, GoOnInv DEF C!WakeUp
<1>4. QED
  BY <1>2, <1>3

LEMMA EndOfSessionInv ==
  ASSUME C!ControlAssumption, ControlInv,
         C!BeginEnd \/ C!EndStep \/ C!EndOver \/ C!FinalSave \/ C!Drained \/ C!SaveFails
  PROVE  ControlInv'
<1>1. startPc["sequence"] = "idle" /\ startPc \in StartPcs /\ RigInv(rig, startPc)
      /\ task = "running" /\ (Holds(rig) \/ Lends(rig))
  BY DEF C!BeginEnd, C!EndStep, C!EndOver, C!FinalSave, C!Drained, C!SaveFails, C!Runs,
         ControlInv, C!TypeOK, StartPcs, StartIsStep, PartOfRun
<1>2. CASE C!BeginEnd \/ C!EndOver
  BY <1>1, <1>2 DEF C!BeginEnd, C!EndOver, C!guide, C!job, C!asks, ControlInv, C!TypeOK,
                    PartOfRun, StartIsStep, PauseInv
<1>3. CASE C!EndStep
  <2>1. PICK kind \in C!StepKinds : C!BeginStep(kind, "endStep")
    BY <1>3 DEF C!EndStep
  <2>2. endLeft' \in 0..EndSteps
    BY <1>3 DEF C!EndStep, ControlInv, C!TypeOK, C!ControlAssumption
  <2>3. QED
    BY <1>1, <1>3, <2>1, <2>2, BeginStepInv DEF C!EndStep
<1>4. CASE C!FinalSave
  BY <1>1, <1>4 DEF C!FinalSave, C!guide, C!job, C!asks, ControlInv, C!TypeOK, C!RunStates,
                    PartOfRun, StartIsStep, PauseInv
<1>5. CASE C!TaskEnds(rig) /\ UNCHANGED startPc
  BY <1>1, <1>5, TaskEndsInv
<1>6. CASE C!Ends(TRUE) /\ UNCHANGED <<rig, C!guide, C!job>>
  <2>1. RigInv(rig', startPc') /\ (Holds(rig') \/ Lends(rig')) /\ startPc' = startPc
        /\ UNCHANGED <<guideCancel, C!job>>
    BY <1>1, <1>6 DEF C!guide
  <2>2. QED
    BY <1>1, <1>6, <2>1, EndsInv
<1>7. QED
  BY <1>2, <1>3, <1>4, <1>5, <1>6 DEF C!Drained, C!SaveFails

LEMMA CommandInv == ASSUME C!ControlAssumption, ControlInv, C!Command PROVE ControlInv'
<1>1. CASE C!Start
  BY <1>1, StartInv
<1>2. CASE C!Pause
  <2>1. dropped' \in BOOLEAN
    BY <1>2 DEF C!Pause, C!Drop
  <2>2. C!TypeOK'
    BY <1>2, <2>1 DEF C!Pause, C!AskPause, C!guide, C!job, ControlInv, C!TypeOK, C!RunStates
  <2>3. QED
    BY <1>2, <2>2 DEF C!Pause, C!AskPause, C!guide, C!job, ControlInv, RigInv, PartOfRun,
                      StartIsStep, PauseInv
<1>3. CASE C!ResumeCommand
  <2>1. startPc \in StartPcs /\ RigInv(rig, startPc) /\ (Holds(rig) \/ Lends(rig)) /\ UNCHANGED startPc
        /\ task = "running" /\ UNCHANGED C!job
    BY <1>3 DEF C!ResumeCommand, C!Active, C!guide, ControlInv, C!TypeOK, StartPcs, PartOfRun
  <2>2. /\ RigInv(rig', startPc')
        /\ C!TakeBackRefused(rig) => Lends(rig')
        /\ ~C!TakeBackRefused(rig) => Holds(rig')
    BY <1>3, <2>1, TakeBackInv DEF C!ResumeCommand
  <2>3. await \in {"safe", "step", "pausing"} => ~C!TakeBackRefused(rig)
    BY DEF ControlInv, PartOfRun, Holds, C!TakeBackRefused, C!CheckFree
  <2>4. rstate' \in C!RunStates /\ pauseAsked' \in BOOLEAN /\ woken' \in BOOLEAN
    BY <1>3 DEF C!ResumeCommand, ControlInv, C!TypeOK, C!RunStates
  <2>5. C!TypeOK'
    BY <1>3, <2>1, <2>2, <2>4 DEF C!ResumeCommand, C!guide, C!job, ControlInv, C!TypeOK, C!RunStates, RigInv
  <2>6. PartOfRun'
    BY <1>3, <2>1, <2>2, <2>3 DEF C!ResumeCommand, C!job, ControlInv, PartOfRun
  <2>7. StartIsStep' /\ PauseInv'
    BY <1>3, <2>1, <2>2 DEF C!ResumeCommand, ControlInv, StartIsStep, PauseInv
  <2>8. QED
    BY <2>2, <2>5, <2>6, <2>7 DEF ControlInv
<1>4. CASE C!Stop
  BY <1>4 DEF C!Stop, C!Drop, C!Active, C!guide, C!job, ControlInv, C!TypeOK, C!RunStates, RigInv,
              PartOfRun, StartIsStep, PauseInv
<1>5. CASE C!CancelJob
  BY <1>5 DEF C!CancelJob, C!guide, C!run, C!asks, ControlInv, C!TypeOK, RigInv,
              PartOfRun, StartIsStep, PauseInv
<1>6. QED
  BY <1>1, <1>2, <1>3, <1>4, <1>5 DEF C!Command

\* Guiding and other commands leave the sequence its part, and its job to it.
LEMMA OthersInv ==
  ASSUME C!ControlAssumption, ControlInv, RigInv(rig', startPc'), Kept(rig, rig'),
         startPc' \in StartPcs, startPc["sequence"] = "idle" => startPc'["sequence"] = "idle",
         cancel' \in {"no", "user", "guiding"}, guideCancel' \in BOOLEAN,
         UNCHANGED <<task, busy, C!run>>
  PROVE  ControlInv'
<1>1. /\ Holds(rig) => Holds(rig')
      /\ Lends(rig) => Lends(rig')
      /\ Apart(rig) => Apart(rig')
      /\ rig.under = None => rig'.under = None
  BY KeptPart DEF Kept
<1>2. C!TypeOK'
  BY DEF C!run, C!asks, ControlInv, C!TypeOK, RigInv, StartPcs
<1>3. QED
  BY <1>1, <1>2 DEF C!run, C!asks, ControlInv, PartOfRun, StartIsStep, PauseInv

LEMMA GuideJobInv ==
  ASSUME C!ControlAssumption, ControlInv,
         C!GuideCommand \/ C!GuideReturns \/ C!StopGuidingCommand
  PROVE  ControlInv'
<1>1. startPc \in StartPcs /\ RigInv(rig, startPc) /\ cancel \in {"no", "user", "guiding"}
      /\ guideCancel \in BOOLEAN
  BY DEF ControlInv, C!TypeOK, StartPcs
<1>2. CASE C!GuideCommand
  <2> DEFINE t == C!Take(rig, "guide", {"phd2"})
             s == [startPc EXCEPT !["guide"] = "connecting"]
  <2>1. OnlyLocks(rig, t)
        /\ \A r \in C!Roles : t.lock[r] = IF r \in {"phd2"} THEN "guide" ELSE rig.lock[r]
    BY <1>1, TakeLocks DEF RigInv
  <2> HIDE DEF t
  <2>2. RigInv(t, startPc) /\ SamePart(rig, t) /\ t.under = rig.under
    BY <1>1, <2>1 DEF OnlyLocks, RigInv, Shares, Reason, StartRuns, SamePart
  <2>3. RigInv(C!StartGuiding(t, "guide"), s) /\ SamePart(t, C!StartGuiding(t, "guide"))
        /\ C!StartGuiding(t, "guide").under = t.under
    BY <1>1, <2>2, StartGuidingInv
  <2>4. rig' = C!StartGuiding(t, "guide") /\ startPc' = s
    BY <1>2 DEF C!GuideCommand, t
  <2>5. Kept(rig, rig')
    BY <2>2, <2>3, <2>4 DEF Kept, SamePart
  <2>6. s \in StartPcs /\ s["sequence"] = startPc["sequence"]
    BY <1>1 DEF StartPcs
  <2>7. QED
    BY <1>1, <1>2, <2>3, <2>4, <2>5, <2>6, OthersInv DEF C!GuideCommand, C!job
<1>3. CASE C!GuideReturns
  <2> DEFINE g == IF guideCancel THEN C!StartCancelled(rig, "guide") ELSE C!StartEnds(rig)
             s == [startPc EXCEPT !["guide"] = "idle"]
  <2>1. RigInv(g, s) /\ Kept(rig, g)
    BY <1>1, StartCancelledInv, StartEndsInv
  <2> HIDE DEF g
  <2>2. OnlyLocks(g, C!Free(g, "guide"))
        /\ \A r \in C!Roles : C!Free(g, "guide").lock[r]
                              = IF g.lock[r] = "guide" THEN None ELSE g.lock[r]
    BY <2>1, FreeLocks DEF RigInv
  <2>3. RigInv(C!Free(g, "guide"), s) /\ Kept(rig, C!Free(g, "guide"))
    BY <2>1, <2>2 DEF OnlyLocks, RigInv, Shares, Reason, StartRuns, Kept, SamePart
  <2>4. rig' = C!Free(g, "guide") /\ startPc' = s
    BY <1>3 DEF C!GuideReturns, g
  <2>5. s \in StartPcs /\ s["sequence"] = startPc["sequence"]
    BY <1>1 DEF StartPcs
  <2>6. QED
    BY <1>1, <1>3, <2>3, <2>4, <2>5, OthersInv DEF C!GuideReturns, C!job
<1>4. CASE C!StopGuidingCommand
  <2>1. cancel' \in {"no", "user", "guiding"} /\ guideCancel' \in BOOLEAN
    BY <1>4, CancelStartTypes DEF C!StopGuidingCommand, ControlInv
  <2>2. Kept(rig, rig)
    BY DEF Kept, SamePart
  <2>3. QED
    BY <1>1, <1>4, <2>1, <2>2, OthersInv DEF C!StopGuidingCommand
<1>5. QED
  BY <1>2, <1>3, <1>4

LEMMA Phd2Inv ==
  ASSUME C!ControlAssumption, ControlInv,
         \/ \E c \in C!Callers : C!Connected(c)
         \/ C!Phd2Guides \/ C!Phd2Stops \/ C!Phd2Step \/ C!Phd2Lost \/ C!Phd2Found
  PROVE  ControlInv'
<1>1. startPc \in StartPcs /\ RigInv(rig, startPc) /\ cancel \in {"no", "user", "guiding"}
      /\ guideCancel \in BOOLEAN /\ rig \in C!Rigs /\ Shares(rig) /\ StartRuns(rig, startPc)
  BY DEF ControlInv, C!TypeOK, StartPcs, RigInv
<1>2. ASSUME NEW c \in C!Callers, C!Connected(c) PROVE ControlInv'
  <2>1. rig' = C!HoldMount(rig) /\ startPc' = [startPc EXCEPT ![c] = "starting"]
        /\ startPc[c] = "connecting"
    BY <1>2 DEF C!Connected
  <2>2. RigInv(rig', startPc') /\ Kept(rig, rig')
    BY <1>1, <1>2, <2>1, HoldMountInv DEF C!Connected
  <2>3. startPc' \in StartPcs /\ (startPc["sequence"] = "idle" => startPc'["sequence"] = "idle")
    BY <1>1, <2>1 DEF StartPcs
  <2>4. QED
    BY <1>1, <1>2, <2>2, <2>3, OthersInv DEF C!Connected, C!job
<1>3. ASSUME RigInv(rig', startPc), Kept(rig, rig'), UNCHANGED <<C!guide, C!job, C!run>>
      PROVE  ControlInv'
  BY <1>1, <1>3, OthersInv DEF C!guide, C!job
<1>4. CASE C!Phd2Guides
  BY <1>1, <1>3, <1>4, AppStateInv DEF C!Phd2Guides
<1>5. CASE C!Phd2Stops
  BY <1>1, <1>3, <1>5, AppStateInv DEF C!Phd2Stops
<1>6. CASE C!Phd2Step
  BY <1>1, <1>3, <1>6, SyncInv DEF C!Phd2Step
<1>7. CASE C!Phd2Lost
  <2> DEFINE f == [rig EXCEPT !.linked = FALSE, !.guiding = FALSE]
  <2>1. f \in C!Rigs /\ Shares(f) /\ StartRuns(f, startPc) /\ SamePart(rig, f) /\ f.under = rig.under
    BY <1>1 DEF C!Rigs, Shares, StartRuns, SamePart
  <2>2. rig' = C!SyncMountHold(f)
    BY <1>7 DEF C!Phd2Lost
  <2> HIDE DEF f
  <2>3. RigInv(rig', startPc) /\ Kept(f, rig')
    BY <1>1, <2>1, <2>2, SyncInv
  <2>4. Kept(rig, rig')
    BY <2>1, <2>3 DEF Kept, SamePart
  <2>5. QED
    BY <1>3, <1>7, <2>3, <2>4 DEF C!Phd2Lost
<1>8. CASE C!Phd2Found
  <2>1. RigInv([rig EXCEPT !.linked = TRUE], startPc) /\ Kept(rig, [rig EXCEPT !.linked = TRUE])
    BY <1>1 DEF RigInv, C!Rigs, Shares, Reason, StartRuns, Kept, SamePart
  <2>2. QED
    BY <1>3, <1>8, <2>1 DEF C!Phd2Found
<1>9. QED
  BY <1>2, <1>4, <1>5, <1>6, <1>7, <1>8

LEMMA UserInv == ASSUME C!ControlAssumption, ControlInv, C!UserStep PROVE ControlInv'
<1>1. startPc \in StartPcs /\ RigInv(rig, startPc) /\ cancel \in {"no", "user", "guiding"}
      /\ guideCancel \in BOOLEAN /\ rig \in C!Rigs
  BY DEF ControlInv, C!TypeOK, StartPcs, RigInv
<1>2. ASSUME RigInv(rig', startPc), Kept(rig, rig'), UNCHANGED <<C!guide, C!job, C!run>>
      PROVE  ControlInv'
  BY <1>1, <1>2, OthersInv DEF C!guide, C!job
<1>3. ASSUME NEW r \in UserRoles, C!UserTakes(r) PROVE ControlInv'
  <2> DEFINE t == C!Take(rig, "user", {r})
  <2>1. r \in C!SequenceRoles /\ rig.lock[r] = None
    BY <1>3 DEF C!UserTakes, C!CheckFree, C!ControlAssumption
  <2>2. OnlyLocks(rig, t)
        /\ \A q \in C!Roles : t.lock[q] = IF q \in {r} THEN "user" ELSE rig.lock[q]
    BY <1>1, <2>1, TakeLocks
  <2>3. rig' = t
    BY <1>3 DEF C!UserTakes
  <2> HIDE DEF t
  <2>4. RigInv(t, startPc)
    BY <1>1, <2>1, <2>2 DEF OnlyLocks, RigInv, Shares, Reason, StartRuns
  <2>5. ~Holds(rig)
    BY <2>1 DEF Holds, C!ControlAssumption
  <2>6. (Lends(rig) => Lends(t)) /\ (Apart(rig) => Apart(t)) /\ t.under = rig.under
    BY <2>2 DEF OnlyLocks, Lends, Apart, HoldsNothing
  <2>7. C!TypeOK'
    BY <1>3, <2>3, <2>4 DEF C!UserTakes, C!guide, C!job, C!run, C!asks, ControlInv, C!TypeOK, RigInv
  <2>8. QED
    BY <1>3, <2>3, <2>4, <2>5, <2>6, <2>7 DEF C!UserTakes, C!guide, C!job, C!run, C!asks, ControlInv,
                                              PartOfRun, StartIsStep, PauseInv
<1>4. CASE C!UserFrees
  <2> DEFINE f == C!Free(rig, "user")
  <2>1. OnlyLocks(rig, f)
        /\ \A r \in C!Roles : f.lock[r] = IF rig.lock[r] = "user" THEN None ELSE rig.lock[r]
    BY <1>1, FreeLocks
  <2>2. rig' = f
    BY <1>4 DEF C!UserFrees
  <2> HIDE DEF f
  <2>3. RigInv(f, startPc) /\ f.lent = rig.lent /\ f.under = rig.under
    BY <1>1, <2>1 DEF OnlyLocks, RigInv, Shares, Reason, StartRuns, C!ControlAssumption
  <2>4. (Holds(rig) => Holds(f)) /\ (Lends(rig) => Lends(f)) /\ (Apart(rig) => Apart(f))
    BY <2>1 DEF OnlyLocks, Holds, Lends, Apart, HoldsNothing, C!ControlAssumption
  <2>5. C!TypeOK'
    BY <1>4, <2>2, <2>3 DEF C!UserFrees, C!guide, C!job, C!run, C!asks, ControlInv, C!TypeOK, RigInv
  <2>6. QED
    BY <1>4, <2>2, <2>3, <2>4, <2>5 DEF C!UserFrees, C!guide, C!job, C!run, C!asks, ControlInv,
                                        PartOfRun, StartIsStep, PauseInv
<1>5. QED
  BY <1>3, <1>4 DEF C!UserStep

LEMMA ControlStep == ASSUME C!ControlAssumption, ControlInv, C!Next PROVE ControlInv'
<1>1. CASE C!RunStep
  BY <1>1, BeginInv, NeverBeganInv, UnwindInv, SafePointInv, GuidingStoppedInv, StepEndsInv,
     PausingInv, EndOfSessionInv DEF C!RunStep
<1>2. CASE C!Command
  BY <1>2, CommandInv
<1>3. CASE C!GuidingStep
  BY <1>3, GuideJobInv, Phd2Inv DEF C!GuidingStep
<1>4. CASE C!UserStep
  BY <1>4, UserInv
<1>5. QED
  BY <1>1, <1>2, <1>3, <1>4 DEF C!Next

LEMMA ControlUnchanged == ASSUME ControlInv, UNCHANGED controlVars PROVE ControlInv'
  BY DEF controlVars, ControlInv, C!TypeOK, RigInv, Shares, Reason, StartRuns, PartOfRun,
         StartIsStep, PauseInv, Holds, Lends, Apart, HoldsNothing

\* The run works only while it holds the whole rig, lends all of it while it waits to be
\* resumed and leaves nothing behind when it ended; and when guiding holds the mount, it
\* guides or a start of guiding is under way (SequenceService, RigExecutor and GuidingService
\* on the locks of JobManager).  Not the converse: guiding may go on without the mount.
THEOREM RunHoldsRig == Spec => []RigIsHeld
<1>1. Init => ControlInv
  BY SequenceRunsAssumption, ControlInit DEF Init
<1>2. ControlInv /\ [Next]_vars => ControlInv'
  <2> SUFFICES ASSUME ControlInv, [Next]_vars PROVE ControlInv'
    OBVIOUS
  <2>1. CASE Control
    BY <2>1, SequenceRunsAssumption, ControlStep DEF Control
  <2>2. CASE Night
    BY <2>2, ControlUnchanged DEF Night
  <2>3. CASE UNCHANGED vars
    BY <2>3, ControlUnchanged DEF vars
  <2>4. QED
    BY <2>1, <2>2, <2>3 DEF Next
<1>3. ControlInv => RigIsHeld
  BY SequenceRunsAssumption, ControlInvHolds
<1>4. QED
  BY <1>1, <1>2, <1>3, PTL DEF Spec

----------------------------------------------------------------------------
(* The night's progress *)

\* Frames of t that the checkpoint p vouches for: in this round, and in all rounds.
InRound(p, t) == IF t \in p.finished \/ p.iterations[t] = 1 THEN Frames ELSE p.plan[t]
Credit(p, t) ==
  IF K!Around \in p.finished THEN Rounds * Frames
  ELSE p.iterations[K!Around] * Frames + InRound(p, t)

\* The next round has not begun.
Empty(p) ==
  \A t \in K!Targets : t \notin p.finished /\ p.iterations[t] = 0 /\ p.plan[t] = 0

\* The shape of any checkpoint of the run.
Form(p) ==
  /\ p \in K!Checkpoint
  /\ \A c \in {K!Start} \cup K!Targets : p.iterations[c] <= 1
  /\ K!Around \in p.finished \/ p.iterations[K!Around] = Rounds => Empty(p)
  /\ p.ending /\ ~p.cut => K!Around \in p.finished

\* What a checkpoint says is true of the frames and of *end*.
Sane(p) ==
  /\ Form(p)
  /\ p.ended => endRan \/ p.waived
  /\ ~p.cut => \A t \in K!Targets : K!Good(t) >= Credit(p, t)

\* More frames are stored than p vouches for only by the crashes, and at most extra more.
Upper(p, extra) == \A t \in K!Targets : K!Good(t) <= Credit(p, t) + crashes + extra

\* The run's task is there; where it is, once the checkpoint is saved.
Live == pc \notin {"off", "up", "waiting"}
Place == IF pc = "save" THEN next ELSE pc
Working == Live /\ Place \in {"enter", "loop", "action", "plan", "iterate", "leave"}

\* Where the task is tells what the checkpoint holds.
PlaceInv ==
  /\ Working /\ at \in K!Targets =>
       /\ cp.iterations[K!Around] < Rounds /\ K!Around \notin cp.finished
       /\ \A t \in K!Targets : t < at => t \in cp.finished
  /\ Live /\ Place = "leave" => at \in cp.finished
  /\ Live /\ Place \in {"loop", "action", "plan", "iterate"} => at \notin cp.finished
  /\ Live /\ Place \in {"action", "plan", "iterate"} => cp.iterations[at] < K!Repeat(at)
  /\ Live /\ Place = "action" => at # K!Around
  /\ Live /\ Place = "plan" => at \in K!Targets
  /\ Live /\ Place = "iterate" /\ at \in K!Targets => cp.cut \/ cp.plan[at] = Frames
  /\ Live /\ Place = "iterate" /\ at = K!Around => K!Targets \subseteq cp.finished

\* The end of the session, once nothing is left to be done or something was cut.
EndInv ==
  /\ Live /\ Place = "beginEnd" => cp.cut \/ K!Around \in cp.finished
  /\ Live /\ Place = "final" => endRan \/ cp.waived
  /\ Live => (Place = "clear" <=> cp.ended)
  /\ pc = "clear" => disk # None /\ disk.ended
  /\ Working => ~cp.ending

\* What nocsd remembers of the run, and what it finds again.
LifeInv ==
  /\ life = "new" => pc \in {"up", "off"} /\ disk = None /\ \A t \in K!Targets : K!Good(t) = 0
  /\ Live => life = "live"
  /\ pc = "waiting" => life = "live" /\ disk # None /\ ~disk.ended
  /\ life = "live" /\ pc = "off" => disk # None
  /\ life \in {"over", "lost"} => disk = None \/ disk.ended
  /\ resumes <= crashes
  /\ pc \in {"off", "waiting"} => resumes < crashes /\ at = K!Start
  /\ \A t \in K!Targets : K!Good(t) \in Nat

\* The checkpoint on disk, or the one of a run that has saved none.
OnDisk == IF disk = None THEN K!Fresh ELSE disk

SameProgress(p, q) ==
  /\ \A c \in K!Containers : p.iterations[c] = q.iterations[c]
  /\ \A t \in K!Targets : p.plan[t] = q.plan[t]
  /\ \A c \in K!Containers \ {K!Start} : c \in p.finished <=> c \in q.finished

\* Besides the one being saved, the runner's checkpoint is the one on disk.
DiskInv ==
  /\ Live => Upper(cp, 0)
  /\ disk # None => Sane(disk) /\ Upper(disk, 1)
  /\ disk # None /\ pc \in {"off", "waiting"} => Upper(disk, 0)
  /\ Live /\ pc # "save" => SameProgress(cp, OnDisk)

NightInv ==
  /\ K!TypeOK /\ Sane(cp) /\ PlaceInv /\ EndInv /\ LifeInv /\ DiskInv
  /\ K!RepeatedPerCrash

LEMMA Products ==
  ASSUME K!CheckpointsAssumption
  PROVE  \A i \in Nat : /\ i * Frames \in Nat
                        /\ (i + 1) * Frames = i * Frames + Frames
                        /\ i <= Rounds => i * Frames <= Rounds * Frames
<1> Frames \in Nat /\ Rounds \in Nat
  BY DEF K!CheckpointsAssumption
<1>1. ASSUME NEW i \in Nat PROVE i * Frames \in Nat
  OBVIOUS
<1>2. ASSUME NEW i \in Nat PROVE (i + 1) * Frames = i * Frames + Frames
  OBVIOUS
<1>3. ASSUME NEW i \in Nat, i <= Rounds PROVE i * Frames <= Rounds * Frames
  BY <1>3
<1>4. QED
  BY <1>1, <1>2, <1>3

LEMMA Places ==
  ASSUME K!CheckpointsAssumption
  PROVE  /\ K!Start \in K!Containers /\ K!Around \in K!Containers \ {K!Start}
         /\ K!Targets \subseteq K!Containers \ {K!Start, K!Around}
         /\ K!Containers = {K!Start, K!Around} \cup K!Targets
         /\ K!Around \notin K!Targets /\ K!Start \notin K!Targets
  BY DEF K!CheckpointsAssumption, K!Start, K!Around, K!Targets, K!Containers

LEMMA CreditRange ==
  ASSUME K!CheckpointsAssumption, NEW p \in K!Checkpoint, NEW t \in K!Targets
  PROVE  InRound(p, t) \in 0..Frames /\ Credit(p, t) \in Nat
<1>1. InRound(p, t) \in 0..Frames
  BY DEF InRound, K!Checkpoint, K!CheckpointsAssumption
<1>2. p.iterations[K!Around] \in Nat
  BY Places DEF K!Checkpoint
<1>3. Rounds \in Nat /\ Frames \in Nat
  BY DEF K!CheckpointsAssumption
<1>4. p.iterations[K!Around] * Frames \in Nat /\ Rounds * Frames \in Nat
  BY <1>2, <1>3, Products
<1>5. QED
  BY <1>1, <1>3, <1>4 DEF Credit

LEMMA CreditBound ==
  ASSUME K!CheckpointsAssumption, NEW p \in K!Checkpoint, NEW t \in K!Targets,
         K!Around \in p.finished \/ p.iterations[K!Around] = Rounds => Empty(p)
  PROVE  Credit(p, t) <= Rounds * Frames
<1>1. InRound(p, t) \in 0..Frames /\ p.iterations[K!Around] \in 0..Rounds
  BY CreditRange, Places DEF K!Checkpoint
<1>2. Rounds \in Nat /\ Frames \in Nat /\ Rounds * Frames \in Nat
  BY Products DEF K!CheckpointsAssumption
<1>3. CASE K!Around \in p.finished
  BY <1>2, <1>3 DEF Credit
<1>4. CASE K!Around \notin p.finished /\ p.iterations[K!Around] = Rounds
  <2>1. InRound(p, t) = 0
    BY <1>4 DEF Empty, InRound
  <2>2. QED
    BY <1>2, <1>4, <2>1 DEF Credit
<1>5. CASE K!Around \notin p.finished /\ p.iterations[K!Around] # Rounds
  <2> DEFINE i == p.iterations[K!Around]
  <2>1. i \in Nat /\ i + 1 \in Nat /\ i + 1 <= Rounds
    BY <1>1, <1>2, <1>5
  <2> HIDE DEF i
  <2>2. i * Frames \in Nat /\ i * Frames + Frames <= Rounds * Frames
    BY <2>1, Products
  <2>3. Credit(p, t) = i * Frames + InRound(p, t)
    BY <1>5 DEF Credit, i
  <2>4. QED
    BY <1>1, <1>2, <2>2, <2>3
<1>6. QED
  BY <1>3, <1>4, <1>5

LEMMA SameCredit ==
  ASSUME K!CheckpointsAssumption, NEW p, NEW q, SameProgress(p, q), NEW t \in K!Targets
  PROVE  InRound(p, t) = InRound(q, t) /\ Credit(p, t) = Credit(q, t)
  BY Places DEF SameProgress, InRound, Credit

\* q vouches for no frame less than p, and for the same ones unless something was cut.
Grows(p, q) ==
  \A t \in K!Targets : /\ Credit(p, t) <= Credit(q, t)
                       /\ ~q.cut => Credit(p, t) = Credit(q, t) /\ ~p.cut

\* What the steps of the run leave alone in a checkpoint.
SameEnd(p, q) == q.ending = p.ending /\ q.ended = p.ended /\ q.waived = p.waived

\* p with other progress, and what stays then.
WithProgress(p, f, iter, plan) == [p EXCEPT !.finished = f, !.iterations = iter, !.plan = plan]
SameRest(p, q) == SameEnd(p, q) /\ q.cut = p.cut /\ q.restarts = p.restarts

LEMMA ProgressShape ==
  ASSUME NEW p \in K!Checkpoint, NEW f \in SUBSET K!Containers,
         NEW iter \in [K!Containers -> 0..Rounds], NEW plan \in [K!Targets -> 0..Frames]
  PROVE  /\ WithProgress(p, f, iter, plan) \in K!Checkpoint
         /\ SameRest(p, WithProgress(p, f, iter, plan))
         /\ WithProgress(p, f, iter, plan).finished = f
         /\ WithProgress(p, f, iter, plan).iterations = iter
         /\ WithProgress(p, f, iter, plan).plan = plan
  BY DEF K!Checkpoint, SameEnd, SameRest, WithProgress

LEMMA ForgetShape ==
  ASSUME K!CheckpointsAssumption, NEW p \in K!Checkpoint, NEW c \in K!Containers
  PROVE  /\ K!Forget(p, c) \in K!Checkpoint /\ SameRest(p, K!Forget(p, c))
         /\ K!Forget(p, c).finished = p.finished \ K!Inside(c)
         /\ \A d \in K!Containers : K!Forget(p, c).iterations[d]
                                    = IF d \in K!Inside(c) THEN 0 ELSE p.iterations[d]
         /\ \A t \in K!Targets : K!Forget(p, c).plan[t]
                                 = IF t = c \/ t \in K!Inside(c) THEN 0 ELSE p.plan[t]
<1> DEFINE f == p.finished \ K!Inside(c)
           iter == [d \in K!Containers |-> IF d \in K!Inside(c) THEN 0 ELSE p.iterations[d]]
           plan == [t \in K!Targets |-> IF t = c \/ t \in K!Inside(c) THEN 0 ELSE p.plan[t]]
<1>1. 0 \in 0..Rounds /\ 0 \in 0..Frames
  BY DEF K!CheckpointsAssumption
<1>2. /\ f \in SUBSET K!Containers /\ iter \in [K!Containers -> 0..Rounds]
      /\ plan \in [K!Targets -> 0..Frames]
  BY <1>1 DEF K!Checkpoint
<1>3. K!Forget(p, c) = WithProgress(p, f, iter, plan)
  BY DEF K!Forget, K!Checkpoint, WithProgress
<1> HIDE DEF f, iter, plan
<1>4. K!Forget(p, c) \in K!Checkpoint /\ SameRest(p, K!Forget(p, c))
      /\ K!Forget(p, c).finished = f /\ K!Forget(p, c).iterations = iter
      /\ K!Forget(p, c).plan = plan
  BY <1>2, <1>3, ProgressShape
<1>5. QED
  BY <1>4 DEF f, iter, plan

LEMMA FinishedShape ==
  ASSUME K!CheckpointsAssumption, NEW p \in K!Checkpoint, NEW c \in K!Containers
  PROVE  /\ K!Finished(p, c) \in K!Checkpoint /\ SameRest(p, K!Finished(p, c))
         /\ K!Finished(p, c).finished = p.finished \cup {c}
         /\ K!Finished(p, c).plan = p.plan
         /\ \A d \in K!Containers : K!Finished(p, c).iterations[d]
                                    = IF d = c THEN 0 ELSE p.iterations[d]
<1> DEFINE f == p.finished \cup {c}
           iter == [p.iterations EXCEPT ![c] = 0]
<1>1. 0 \in 0..Rounds
  BY DEF K!CheckpointsAssumption
<1>2. /\ f \in SUBSET K!Containers /\ iter \in [K!Containers -> 0..Rounds]
      /\ p.plan \in [K!Targets -> 0..Frames]
  BY <1>1 DEF K!Checkpoint
<1>3. K!Finished(p, c) = WithProgress(p, f, iter, p.plan)
  BY DEF K!Finished, K!Checkpoint, WithProgress
<1>4. iter = [d \in K!Containers |-> IF d = c THEN 0 ELSE p.iterations[d]]
  BY DEF K!Checkpoint
<1> HIDE DEF f, iter
<1>5. K!Finished(p, c) \in K!Checkpoint /\ SameRest(p, K!Finished(p, c))
      /\ K!Finished(p, c).finished = f /\ K!Finished(p, c).iterations = iter
      /\ K!Finished(p, c).plan = p.plan
  BY <1>2, <1>3, ProgressShape
<1>6. QED
  BY <1>4, <1>5 DEF f

\* One iteration more.
Counted(p, c) == [p EXCEPT !.iterations[c] = @ + 1]

LEMMA CountedShape ==
  ASSUME K!CheckpointsAssumption, NEW p \in K!Checkpoint, NEW c \in K!Containers,
         p.iterations[c] < Rounds
  PROVE  /\ Counted(p, c) \in K!Checkpoint /\ SameRest(p, Counted(p, c))
         /\ Counted(p, c).finished = p.finished /\ Counted(p, c).plan = p.plan
         /\ \A d \in K!Containers :
              Counted(p, c).iterations[d] = IF d = c THEN p.iterations[d] + 1 ELSE p.iterations[d]
<1> DEFINE iter == [p.iterations EXCEPT ![c] = p.iterations[c] + 1]
<1>1. p.iterations[c] \in 0..Rounds /\ p.iterations \in [K!Containers -> 0..Rounds]
  BY DEF K!Checkpoint
<1>2. p.iterations[c] + 1 \in 0..Rounds
  BY <1>1 DEF K!CheckpointsAssumption
<1>3. iter \in [K!Containers -> 0..Rounds]
      /\ iter = [d \in K!Containers |-> IF d = c THEN p.iterations[d] + 1 ELSE p.iterations[d]]
  BY <1>1, <1>2
<1>4. /\ p.finished \in SUBSET K!Containers /\ p.plan \in [K!Targets -> 0..Frames]
      /\ Counted(p, c) = WithProgress(p, p.finished, iter, p.plan)
  BY DEF K!Checkpoint, Counted, WithProgress
<1> HIDE DEF iter
<1>5. Counted(p, c) \in K!Checkpoint /\ SameRest(p, Counted(p, c))
      /\ Counted(p, c).finished = p.finished /\ Counted(p, c).iterations = iter
      /\ Counted(p, c).plan = p.plan
  BY <1>3, <1>4, ProgressShape
<1>6. QED
  BY <1>3, <1>5

\* A target is worked on in a round that is not over.
RoundOn(p, c) == c \in K!Targets => p.iterations[K!Around] < Rounds /\ K!Around \notin p.finished

\* An iteration more of c, whose children are through.
LEMMA IterateProgress ==
  ASSUME K!CheckpointsAssumption, NEW p, Form(p), NEW c \in K!Containers, RoundOn(p, c),
         c \notin p.finished, p.iterations[c] < K!Repeat(c),
         c \in K!Targets => p.cut \/ p.plan[c] = Frames,
         c = K!Around => K!Targets \subseteq p.finished
  PROVE  LET q == Counted(K!Forget(p, c), c)
         IN  Form(q) /\ Grows(p, q) /\ SameRest(p, q) /\ q.finished = p.finished \ K!Inside(c)
<1> DEFINE f == K!Forget(p, c)
           q == Counted(f, c)
<1>1. p \in K!Checkpoint /\ p.iterations \in [K!Containers -> 0..Rounds] /\ 1 <= Rounds
      /\ Rounds \in Nat
  BY DEF Form, K!Checkpoint, K!CheckpointsAssumption
<1>2. /\ f \in K!Checkpoint /\ SameRest(p, f) /\ f.finished = p.finished \ K!Inside(c)
      /\ \A d \in K!Containers :
           f.iterations[d] = IF d \in K!Inside(c) THEN 0 ELSE p.iterations[d]
      /\ \A t \in K!Targets : f.plan[t] = IF t = c \/ t \in K!Inside(c) THEN 0 ELSE p.plan[t]
  BY <1>1, ForgetShape
<1> HIDE DEF f
<1>3. c \notin K!Inside(c) /\ p.iterations[c] \in Nat /\ p.iterations[c] < Rounds
  BY <1>1, Places DEF K!Inside, K!Repeat
<1>4. /\ q \in K!Checkpoint /\ SameRest(f, q) /\ q.finished = f.finished /\ q.plan = f.plan
      /\ \A d \in K!Containers : q.iterations[d] = IF d = c THEN f.iterations[d] + 1 ELSE f.iterations[d]
  BY <1>2, <1>3, CountedShape
<1> HIDE DEF q
<1>5. SameRest(p, q) /\ q.finished = p.finished \ K!Inside(c)
  BY <1>2, <1>4 DEF SameRest, SameEnd
<1>6. CASE c = K!Start
  <2>1. \A t \in K!Targets : q.plan[t] = p.plan[t] /\ q.iterations[t] = p.iterations[t]
    BY <1>2, <1>4, <1>6, Places DEF K!Inside
  <2>2. q.finished = p.finished /\ q.iterations[K!Around] = p.iterations[K!Around]
        /\ q.iterations[K!Start] <= 1
    BY <1>2, <1>3, <1>4, <1>6, Places DEF K!Inside, K!Repeat
  <2>3. Form(q)
    BY <1>4, <1>5, <2>1, <2>2 DEF Form, Empty, SameRest, SameEnd
  <2>4. \A t \in K!Targets : Credit(q, t) = Credit(p, t)
    BY <2>1, <2>2 DEF Credit, InRound
  <2>5. QED
    BY <1>1, <1>5, <2>3, <2>4, CreditRange DEF Grows, SameRest, f, q
<1>7. CASE c \in K!Targets
  <2>1. \A t \in K!Targets \ {c} : q.plan[t] = p.plan[t] /\ q.iterations[t] = p.iterations[t]
    BY <1>2, <1>4, <1>7, Places DEF K!Inside
  <2>2. q.finished = p.finished /\ q.iterations[K!Around] = p.iterations[K!Around]
        /\ q.iterations[K!Start] = p.iterations[K!Start]
    BY <1>2, <1>4, <1>7, Places DEF K!Inside
  <2>3. p.iterations[c] = 0 /\ q.iterations[c] = 1
    BY <1>2, <1>3, <1>4, <1>7, Places DEF K!Inside, K!Repeat
  <2>4. Form(q)
    <3>1. q.iterations[K!Around] # Rounds /\ K!Around \notin q.finished
      BY <1>1, <1>7, <2>2, Places DEF RoundOn
    <3>2. \A d \in {K!Start} \cup K!Targets : q.iterations[d] <= 1
      BY <2>1, <2>2, <2>3 DEF Form
    <3>3. p.ending /\ ~p.cut => K!Around \in p.finished
      BY DEF Form
    <3>4. QED
      BY <1>4, <1>5, <2>2, <3>1, <3>2, <3>3 DEF Form, SameRest, SameEnd
  <2>5. \A t \in K!Targets \ {c} : Credit(q, t) = Credit(p, t)
    BY <1>7, <2>1, <2>2 DEF Credit, InRound
  <2>6. Credit(q, c) = p.iterations[K!Around] * Frames + Frames
    BY <1>7, <2>2, <2>3 DEF Credit, InRound, RoundOn
  <2>7. Credit(p, c) = p.iterations[K!Around] * Frames + p.plan[c]
    BY <1>7, <2>3 DEF Credit, InRound, RoundOn
  <2>8. p.iterations[K!Around] * Frames \in Nat /\ p.plan[c] \in 0..Frames /\ Frames \in Nat
    BY <1>1, <1>7, Products, Places DEF K!Checkpoint, K!CheckpointsAssumption
  <2>9. QED
    BY <1>1, <1>5, <1>7, <2>4, <2>5, <2>6, <2>7, <2>8, CreditRange DEF Grows, SameRest, f, q
<1>8. CASE c = K!Around
  <2> DEFINE i == p.iterations[K!Around]
  <2>1. \A t \in K!Targets : q.plan[t] = 0 /\ q.iterations[t] = 0 /\ t \notin q.finished
    BY <1>2, <1>4, <1>8, Places DEF K!Inside
  <2>2. K!Around \notin q.finished /\ K!Around \notin p.finished /\ q.iterations[K!Around] = i + 1
        /\ q.iterations[K!Start] = p.iterations[K!Start]
    BY <1>2, <1>4, <1>8, Places DEF K!Inside
  <2>3. Form(q)
    BY <1>4, <1>5, <1>8, <2>1, <2>2 DEF Form, Empty, SameRest, SameEnd
  <2>4. i \in Nat
    BY <1>3, <1>8
  <2>5. \A t \in K!Targets : Credit(q, t) = (i + 1) * Frames + 0
    BY <2>1, <2>2 DEF Credit, InRound
  <2>6. \A t \in K!Targets : Credit(p, t) = i * Frames + Frames
    BY <1>8, <2>2 DEF Credit, InRound
  <2> HIDE DEF i
  <2>7. (i + 1) * Frames = i * Frames + Frames /\ i * Frames \in Nat /\ Frames \in Nat
    BY <2>4, Products DEF K!CheckpointsAssumption
  <2>8. QED
    BY <1>5, <2>3, <2>5, <2>6, <2>7 DEF Grows, SameRest, f, q
<1>9. QED
  BY <1>6, <1>7, <1>8, Places

\* c is done with, whether its iterations are through or something cut it short.
LEMMA FinishProgress ==
  ASSUME K!CheckpointsAssumption, NEW p, Form(p), NEW c \in K!Containers, RoundOn(p, c),
         c \notin p.finished, p.iterations[c] >= K!Repeat(c)
  PROVE  LET q == K!Finished(p, c)
         IN  Form(q) /\ Grows(p, q) /\ SameRest(p, q) /\ q.finished = p.finished \cup {c}
<1> DEFINE q == K!Finished(p, c)
<1>1. p \in K!Checkpoint /\ p.iterations \in [K!Containers -> 0..Rounds] /\ Rounds \in Nat \ {0}
  BY DEF Form, K!Checkpoint, K!CheckpointsAssumption
<1>2. /\ q \in K!Checkpoint /\ SameRest(p, q) /\ q.finished = p.finished \cup {c} /\ q.plan = p.plan
      /\ \A d \in K!Containers : q.iterations[d] = IF d = c THEN 0 ELSE p.iterations[d]
  BY <1>1, FinishedShape
<1> HIDE DEF q
<1>3. /\ \A d \in {K!Start} \cup K!Targets : q.iterations[d] <= 1
      /\ q.ending /\ ~q.cut => K!Around \in q.finished
  BY <1>2, Places DEF Form, SameRest, SameEnd
<1>4. CASE c # K!Around
  <2>1. q.iterations[K!Around] = p.iterations[K!Around]
        /\ (K!Around \in q.finished <=> K!Around \in p.finished)
    BY <1>2, <1>4, Places
  <2>2. \A t \in K!Targets \ {c} : InRound(q, t) = InRound(p, t)
    BY <1>2, Places DEF InRound
  <2>3. c \in K!Targets => p.iterations[c] = 1 /\ InRound(p, c) = Frames /\ InRound(q, c) = Frames
    BY <1>1, <1>2, <1>4, Places DEF Form, InRound, K!Repeat
  <2>4. \A t \in K!Targets : Credit(q, t) = Credit(p, t)
    BY <2>1, <2>2, <2>3 DEF Credit
  <2>5. K!Around \in q.finished \/ q.iterations[K!Around] = Rounds => Empty(q)
    <3>1. c \in K!Targets => q.iterations[K!Around] # Rounds /\ K!Around \notin q.finished
      BY <1>1, <2>1, Places DEF RoundOn
    <3>2. c = K!Start => (Empty(p) => Empty(q))
      BY <1>2, Places DEF Empty
    <3>3. QED
      BY <1>4, <2>1, <3>1, <3>2, Places DEF Form
  <2>6. QED
    BY <1>1, <1>2, <1>3, <2>4, <2>5, CreditRange DEF Form, Grows, SameRest, q
<1>5. CASE c = K!Around
  <2>1. p.iterations[K!Around] = Rounds /\ Empty(p)
    BY <1>1, <1>5, Places DEF Form, K!Repeat
  <2>2. Empty(q) /\ K!Around \in q.finished
    BY <1>2, <1>5, <2>1, Places DEF Empty
  <2>3. \A t \in K!Targets : Credit(q, t) = Rounds * Frames /\ Credit(p, t) = Rounds * Frames + 0
    BY <1>5, <2>1, <2>2 DEF Credit, InRound, Empty
  <2>4. Rounds * Frames \in Nat
    BY <1>1, Products
  <2>5. QED
    BY <1>2, <1>3, <2>2, <2>3, <2>4 DEF Form, Grows, SameRest, q
<1>6. QED
  BY <1>4, <1>5

Cut(p) == [p EXCEPT !.cut = TRUE]

LEMMA CutProgress ==
  ASSUME K!CheckpointsAssumption, NEW p, Form(p), NEW c \in K!Containers, RoundOn(p, c)
  PROVE  LET q == Cut(K!Finished(K!Forget(p, c), c))
         IN  /\ Form(q) /\ Grows(p, q) /\ SameEnd(p, q) /\ q.cut
             /\ q.finished = (p.finished \ K!Inside(c)) \cup {c}
             /\ \A d \in K!Containers \ (K!Inside(c) \cup {c}) : q.iterations[d] = p.iterations[d]
<1> DEFINE f == K!Forget(p, c)
           g == K!Finished(f, c)
           q == Cut(g)
<1>1. p \in K!Checkpoint /\ p.iterations \in [K!Containers -> 0..Rounds] /\ Rounds \in Nat \ {0}
  BY DEF Form, K!Checkpoint, K!CheckpointsAssumption
<1>2. /\ f \in K!Checkpoint /\ SameRest(p, f) /\ f.finished = p.finished \ K!Inside(c)
      /\ \A d \in K!Containers :
           f.iterations[d] = IF d \in K!Inside(c) THEN 0 ELSE p.iterations[d]
      /\ \A t \in K!Targets : f.plan[t] = IF t = c \/ t \in K!Inside(c) THEN 0 ELSE p.plan[t]
  BY <1>1, ForgetShape
<1> HIDE DEF f
<1>3. /\ g \in K!Checkpoint /\ SameRest(f, g) /\ g.finished = f.finished \cup {c} /\ g.plan = f.plan
      /\ \A d \in K!Containers : g.iterations[d] = IF d = c THEN 0 ELSE f.iterations[d]
  BY <1>2, FinishedShape
<1> HIDE DEF g
<1>4. /\ q \in K!Checkpoint /\ q.cut /\ SameEnd(g, q) /\ q.finished = g.finished
      /\ q.iterations = g.iterations /\ q.plan = g.plan
  BY <1>3 DEF Cut, K!Checkpoint, SameEnd
<1> HIDE DEF q
<1>5. /\ SameEnd(p, q) /\ q.finished = (p.finished \ K!Inside(c)) \cup {c}
      /\ \A d \in K!Containers :
           q.iterations[d] = IF d \in K!Inside(c) \cup {c} THEN 0 ELSE p.iterations[d]
      /\ \A t \in K!Targets : q.plan[t] = IF t = c \/ t \in K!Inside(c) THEN 0 ELSE p.plan[t]
  BY <1>2, <1>3, <1>4 DEF SameRest, SameEnd
<1>6. \A d \in {K!Start} \cup K!Targets : q.iterations[d] <= 1
  BY <1>5, Places DEF Form
<1>7. CASE c # K!Around
  <2>1. q.iterations[K!Around] = p.iterations[K!Around] /\ K!Inside(c) = {}
        /\ (K!Around \in q.finished <=> K!Around \in p.finished)
    BY <1>5, <1>7, Places DEF K!Inside
  <2>2. \A t \in K!Targets \ {c} : InRound(q, t) = InRound(p, t)
    BY <1>5, <2>1, Places DEF InRound
  <2>3. c \in K!Targets => InRound(q, c) = Frames
    BY <1>5 DEF InRound
  <2>4. \A t \in K!Targets : InRound(p, t) \in 0..Frames
    BY <1>1, CreditRange
  <2>5. p.iterations[K!Around] * Frames \in Nat /\ Rounds * Frames \in Nat /\ Frames \in Nat
    BY <1>1, Products, Places DEF K!CheckpointsAssumption
  <2>6. ASSUME NEW t \in K!Targets PROVE InRound(p, t) <= InRound(q, t) /\ InRound(q, t) \in 0..Frames
    BY <1>4, <2>2, <2>3, <2>4, <2>5, CreditRange
  <2>7. \A t \in K!Targets : Credit(p, t) <= Credit(q, t)
    BY <2>1, <2>4, <2>5, <2>6 DEF Credit
  <2>8. K!Around \in q.finished \/ q.iterations[K!Around] = Rounds => Empty(q)
    <3>1. c \in K!Targets => q.iterations[K!Around] # Rounds /\ K!Around \notin q.finished
      BY <1>1, <2>1, Places DEF RoundOn
    <3>2. c = K!Start => (Empty(p) => Empty(q))
      BY <1>5, <2>1, Places DEF Empty
    <3>3. QED
      BY <1>7, <2>1, <3>1, <3>2, Places DEF Form
  <2>9. QED
    BY <1>4, <1>5, <1>6, <2>7, <2>8 DEF Form, Grows, q, g, f
<1>8. CASE c = K!Around
  <2>1. Empty(q) /\ K!Around \in q.finished
    BY <1>5, <1>8, Places DEF Empty, K!Inside
  <2>2. \A t \in K!Targets : Credit(q, t) = Rounds * Frames
    BY <2>1 DEF Credit
  <2>3. \A t \in K!Targets : Credit(p, t) <= Rounds * Frames
    BY <1>1, CreditBound DEF Form
  <2>4. QED
    BY <1>4, <1>5, <1>6, <2>1, <2>2, <2>3 DEF Form, Grows, q, g, f
<1>9. QED
  BY <1>7, <1>8

----------------------------------------------------------------------------
(* The steps of the night *)

LEMMA FreshProgress ==
  ASSUME K!CheckpointsAssumption
  PROVE  /\ Form(K!Fresh) /\ K!Fresh \in K!Checkpoint /\ K!Fresh # None
         /\ K!Fresh.ending = FALSE /\ K!Fresh.ended = FALSE
         /\ \A t \in K!Targets : Credit(K!Fresh, t) = 0
<1>1. K!Fresh \in K!Checkpoint
  BY DEF K!Fresh, K!Checkpoint, K!CheckpointsAssumption
<1>2. /\ K!Fresh.finished = {} /\ (\A c \in K!Containers : K!Fresh.iterations[c] = 0)
      /\ (\A t \in K!Targets : K!Fresh.plan[t] = 0)
      /\ K!Fresh.ending = FALSE /\ K!Fresh.ended = FALSE
  BY DEF K!Fresh
<1>3. Form(K!Fresh)
  BY <1>1, <1>2, Places DEF Form, Empty
<1>4. \A t \in K!Targets : Credit(K!Fresh, t) = 0
  <2>1. 0 * Frames = 0 /\ Rounds # 0
    BY DEF K!CheckpointsAssumption
  <2>2. QED
    BY <1>2, <2>1, Places DEF Credit, InRound
<1>5. K!Fresh # None
  BY <1>1 DEF K!CheckpointsAssumption
<1>6. QED
  BY <1>1, <1>2, <1>3, <1>4, <1>5

LEMMA NightInit == ASSUME K!CheckpointsAssumption, K!Init PROVE NightInv
<1>1. Sane(cp)
  <2>1. Form(K!Fresh) /\ K!Fresh.ended = FALSE /\ \A t \in K!Targets : Credit(K!Fresh, t) = 0
    BY FreshProgress
  <2>2. QED
    BY <2>1 DEF Sane, K!Init, K!Good
<1>2. K!TypeOK
  <2>1. 0 \in 0..MaxCrashes /\ 0 \in 0..MaxSpoiled
    BY DEF K!CheckpointsAssumption
  <2>2. QED
    BY <2>1, FreshProgress, Places DEF K!TypeOK, K!Init
<1>3. PlaceInv /\ EndInv /\ LifeInv /\ DiskInv
  BY DEF K!Init, PlaceInv, EndInv, LifeInv, DiskInv, Live, Working, Place, K!Good
<1>4. K!RepeatedPerCrash
  BY Products DEF K!RepeatedPerCrash, K!Init, K!CheckpointsAssumption, K!Good
<1>5. QED
  BY <1>1, <1>2, <1>3, <1>4 DEF NightInv

\* A step of the run that saves nothing: the task is at another place.
LEMMA MoveInv ==
  ASSUME K!CheckpointsAssumption, NightInv, Live, pc # "save",
         pc' \in {"enter", "loop", "action", "plan", "iterate", "leave", "beginEnd", "final"},
         at' \in K!Containers, Form(cp'), SameProgress(cp', cp), ~cp'.cut => ~cp.cut,
         ~cp'.ended, PlaceInv', EndInv',
         UNCHANGED <<disk, next, stored, endRan, K!world>>
  PROVE  NightInv'
<1>1. UNCHANGED <<disk, next, stored, endRan, life, crashes, resumes, spoiled, left, gone>>
  BY DEF K!world
<1>2. \A t \in K!Targets : Credit(cp', t) = Credit(cp, t)
  BY SameCredit
<1>3. Sane(cp)'
  BY <1>1, <1>2 DEF NightInv, Sane, K!Good
<1>4. K!TypeOK'
  BY <1>1 DEF NightInv, K!TypeOK, Form
<1>5. Live' /\ pc' # "save"
  BY DEF Live
<1>6. OnDisk' = OnDisk
  BY <1>1 DEF OnDisk
<1>7. DiskInv'
  <2>1. Upper(cp, 0) /\ SameProgress(cp, OnDisk)
    BY DEF NightInv, DiskInv
  <2>2. Upper(cp, 0)' /\ SameProgress(cp, OnDisk)'
    BY <1>1, <1>2, <1>6, <2>1 DEF Upper, SameProgress, K!Good
  <2>3. disk # None => Sane(disk)' /\ Upper(disk, 1)'
    BY <1>1 DEF NightInv, DiskInv, Sane, Form, Upper, Credit, InRound, Empty, K!Good
  <2>4. QED
    BY <1>1, <1>5, <1>6, <2>2, <2>3 DEF DiskInv, Upper, Sane, K!Good
<1>8. LifeInv' /\ K!RepeatedPerCrash'
  BY <1>1, <1>5 DEF NightInv, LifeInv, Live, K!RepeatedPerCrash, K!Good
<1>9. QED
  BY <1>3, <1>4, <1>7, <1>8 DEF NightInv

\* A step of the run whose checkpoint q is then saved; the frames are another matter.
LEMMA SaveThenInv ==
  ASSUME K!CheckpointsAssumption, NightInv, Live, pc # "save", NEW q, NEW n, K!SaveThen(q, n),
         n \in {"loop", "plan", "iterate", "leave", "end", "final", "clear"},
         at' \in K!Containers, Form(q), Grows(cp, q), PlaceInv', EndInv',
         endRan' \in BOOLEAN, endRan => endRan', q.ended => endRan' \/ q.waived,
         UNCHANGED <<disk, stored, K!world>>
  PROVE  NightInv'
<1>1. UNCHANGED <<disk, stored, life, crashes, resumes, spoiled, left, gone>> /\ cp' = q /\ pc' = "save" /\ next' = n
  BY DEF K!world, K!SaveThen
<1>2. \A t \in K!Targets : /\ Credit(q, t) \in Nat /\ Credit(cp, t) \in Nat /\ K!Good(t) \in Nat
                           /\ crashes \in Nat
  BY CreditRange DEF NightInv, LifeInv, K!TypeOK, Form, K!CheckpointsAssumption
<1>3. Sane(cp)'
  BY <1>1 DEF NightInv, Sane, Grows, K!Good
<1>4. K!TypeOK'
  BY <1>1 DEF NightInv, K!TypeOK, Form
<1>5. Upper(cp, 0)'
  <2>1. Upper(cp, 0)
    BY DEF NightInv, DiskInv
  <2>2. QED
    BY <1>1, <1>2, <2>1 DEF Upper, Grows, K!Good
<1>6. disk # None => Sane(disk)' /\ Upper(disk, 1)'
  BY <1>1 DEF NightInv, DiskInv, Sane, Form, Upper, Credit, InRound, Empty, K!Good
<1>7. Live' /\ DiskInv'
  BY <1>1, <1>5, <1>6 DEF DiskInv, Live, Upper, Sane, K!Good
<1>8. LifeInv' /\ K!RepeatedPerCrash'
  BY <1>1 DEF NightInv, LifeInv, Live, K!RepeatedPerCrash, K!Good
<1>9. QED
  BY <1>3, <1>4, <1>7, <1>8 DEF NightInv

LEMMA SaveInv == ASSUME K!CheckpointsAssumption, NightInv, K!Save PROVE NightInv'
<1>1. UNCHANGED <<cp, at, stored, endRan, life, crashes, resumes, spoiled, left, gone>> /\ next' = "loop"
      /\ disk' = cp /\ pc' = next /\ pc = "save" /\ cp # None
  BY DEF K!Save, K!world, NightInv, K!TypeOK, K!CheckpointsAssumption
<1>2. Live /\ Live' /\ pc' # "save" /\ Place' = Place /\ (Working' <=> Working)
  BY <1>1 DEF Live, Place, Working, NightInv, K!TypeOK
<1>3. K!TypeOK'
  BY <1>1 DEF NightInv, K!TypeOK
<1>4. Sane(cp)' /\ PlaceInv'
  BY <1>1, <1>2 DEF NightInv, Sane, Form, Empty, Credit, InRound, PlaceInv, K!Good
<1>5. EndInv'
  BY <1>1, <1>2 DEF NightInv, EndInv, Place
<1>6. LifeInv' /\ K!RepeatedPerCrash'
  BY <1>1, <1>2 DEF NightInv, LifeInv, Live, K!RepeatedPerCrash, K!Good
<1>7. DiskInv'
  <2>1. Upper(cp, 0)
    BY <1>2 DEF NightInv, DiskInv
  <2>2. \A t \in K!Targets : Credit(cp, t) \in Nat /\ K!Good(t) \in Nat /\ crashes \in Nat
    BY CreditRange DEF NightInv, LifeInv, K!TypeOK, K!CheckpointsAssumption
  <2>3. Upper(cp, 0)' /\ Upper(cp, 1)'
    BY <1>1, <2>1, <2>2 DEF Upper, K!Good
  <2>4. OnDisk' = cp'
    BY <1>1 DEF OnDisk
  <2>5. SameProgress(cp, OnDisk)'
    BY <2>4 DEF SameProgress
  <2>6. Sane(disk)' /\ Upper(disk, 1)'
    BY <1>1, <1>4, <2>3 DEF Sane, Upper, K!Good
  <2>7. QED
    BY <1>2, <2>3, <2>5, <2>6 DEF DiskInv, Live
<1>8. QED
  BY <1>3, <1>4, <1>5, <1>6, <1>7 DEF NightInv

LEMMA EnterInv ==
  ASSUME K!CheckpointsAssumption, NightInv, K!Enter \/ K!Loop \/ K!PlanDone \/ K!Leave
  PROVE  NightInv'
<1>1. UNCHANGED <<disk, cp, next, stored, endRan, K!world>>
      /\ pc \in {"enter", "loop", "plan", "leave"} /\ Live /\ Place = pc /\ Working
  BY DEF K!Enter, K!Loop, K!PlanDone, K!Leave, Live, Place, Working
<1>2. at \in K!Containers /\ cp.iterations \in [K!Containers -> 0..Rounds]
      /\ cp.plan \in [K!Targets -> 0..Frames]
  BY DEF NightInv, K!TypeOK, K!Checkpoint
<1>3. Form(cp') /\ SameProgress(cp', cp) /\ cp' = cp
  BY <1>1 DEF NightInv, Sane, SameProgress, K!Good
<1>4. ~cp.ended /\ ~cp.ending
  BY <1>1 DEF NightInv, EndInv
<1>5. CASE K!Enter
  <2>1. pc' = (IF at \in cp.finished THEN "leave" ELSE "loop") /\ at' = at
    BY <1>5 DEF K!Enter
  <2>2. PlaceInv' /\ EndInv'
    BY <1>1, <1>3, <1>4, <2>1 DEF NightInv, PlaceInv, EndInv, Live, Place, Working
  <2>3. QED
    BY <1>1, <1>2, <1>3, <1>4, <2>1, <2>2, MoveInv
<1>6. CASE K!Loop
  <2>1. CASE at = K!Around
    <3>1. at' = 1 /\ pc' = "enter" /\ cp.iterations[K!Around] < Rounds
      BY <1>6, <2>1 DEF K!Loop, K!Repeat
    <3>2. at' \in K!Containers /\ at' \in K!Targets /\ \A t \in K!Targets : ~(t < 1)
      BY <3>1 DEF K!Containers, K!Targets, K!Start, K!Around, K!CheckpointsAssumption
    <3>3. K!Around \notin cp.finished
      BY <1>1, <1>6, <2>1 DEF K!Loop, NightInv, PlaceInv
    <3>4. PlaceInv' /\ EndInv'
      BY <1>3, <1>4, <3>1, <3>2, <3>3 DEF PlaceInv, EndInv, Live, Place, Working
    <3>5. QED
      BY <1>1, <1>3, <1>4, <3>1, <3>2, <3>4, MoveInv
  <2>2. CASE at # K!Around
    <3>1. at' = at /\ pc' = "action" /\ cp.iterations[at] < K!Repeat(at)
      BY <1>6, <2>2 DEF K!Loop
    <3>2. PlaceInv' /\ EndInv'
      BY <1>1, <1>3, <1>4, <1>6, <2>2, <3>1
         DEF K!Loop, NightInv, PlaceInv, EndInv, Live, Place, Working
    <3>3. QED
      BY <1>1, <1>2, <1>3, <1>4, <3>1, <3>2, MoveInv
  <2>3. QED
    BY <2>1, <2>2
<1>7. CASE K!PlanDone
  <2>1. at' = at /\ pc' = "iterate" /\ pc = "plan" /\ cp.plan[at] = Frames
    BY <1>7 DEF K!PlanDone
  <2>2. at \in K!Targets /\ at # K!Around
    BY <1>1, <2>1, Places DEF NightInv, PlaceInv
  <2>3. PlaceInv' /\ EndInv'
    BY <1>1, <1>3, <1>4, <2>1, <2>2 DEF NightInv, PlaceInv, EndInv, Live, Place, Working
  <2>4. QED
    BY <1>1, <1>2, <1>3, <1>4, <2>1, <2>3, MoveInv
<1>8. CASE K!Leave
  <2>1. pc = "leave" /\ at \in cp.finished
    BY <1>1, <1>8 DEF K!Leave, NightInv, PlaceInv
  <2>2. CASE at = K!Start
    <3>1. at' = K!Around /\ pc' = "enter"
      BY <1>8, <2>2 DEF K!Leave, K!Targets, K!Start, K!Around, K!CheckpointsAssumption
    <3>2. PlaceInv' /\ EndInv'
      BY <1>3, <1>4, <3>1, Places DEF PlaceInv, EndInv, Live, Place, Working
    <3>3. QED
      BY <1>1, <1>3, <1>4, <3>1, <3>2, Places, MoveInv
  <2>3. CASE at = K!Around
    <3>1. at' = at /\ pc' = "beginEnd"
      BY <1>8, <2>3 DEF K!Leave, K!Targets, K!Start, K!Around, K!CheckpointsAssumption
    <3>2. PlaceInv' /\ EndInv'
      BY <1>3, <1>4, <2>1, <2>3, <3>1 DEF PlaceInv, EndInv, Live, Place, Working
    <3>3. QED
      BY <1>1, <1>2, <1>3, <1>4, <3>1, <3>2, MoveInv
  <2>4. CASE at \in K!Targets /\ at < Last
    <3>1. at' = at + 1 /\ pc' = "enter" /\ at' \in K!Targets
      BY <1>8, <2>4 DEF K!Leave, K!Targets, K!Start, K!Around, K!CheckpointsAssumption
    <3>2. \A t \in K!Targets : t < at + 1 => t < at \/ t = at
      BY <2>4 DEF K!Targets
    <3>3. cp.iterations[K!Around] < Rounds /\ K!Around \notin cp.finished
          /\ \A t \in K!Targets : t < at => t \in cp.finished
      BY <1>1, <2>4 DEF NightInv, PlaceInv
    <3>4. PlaceInv' /\ EndInv'
      BY <1>3, <1>4, <2>1, <3>1, <3>2, <3>3 DEF PlaceInv, EndInv, Live, Place, Working
    <3>5. QED
      BY <1>1, <1>3, <1>4, <3>1, <3>4, Places, MoveInv
  <2>5. CASE at = Last
    <3>1. at' = K!Around /\ pc' = "iterate" /\ at \in K!Targets
      BY <1>8, <2>5 DEF K!Leave, K!Targets, K!Start, K!Around, K!CheckpointsAssumption
    <3>2. cp.iterations[K!Around] < Rounds /\ K!Around \notin cp.finished
          /\ \A t \in K!Targets : t < at => t \in cp.finished
      BY <1>1, <3>1 DEF NightInv, PlaceInv
    <3>3. K!Targets \subseteq cp.finished
      BY <2>1, <2>5, <3>2 DEF K!Targets, K!CheckpointsAssumption
    <3>4. PlaceInv' /\ EndInv'
      BY <1>3, <1>4, <3>1, <3>2, <3>3, Places DEF PlaceInv, EndInv, Live, Place, Working, K!Repeat
    <3>5. QED
      BY <1>1, <1>3, <1>4, <3>1, <3>4, Places, MoveInv
  <2>6. QED
    BY <1>2, <2>2, <2>3, <2>4, <2>5 DEF K!Containers, K!Targets, K!Start, K!Around, K!CheckpointsAssumption
<1>9. QED
  BY <1>5, <1>6, <1>7, <1>8

LEMMA ActInv == ASSUME K!CheckpointsAssumption, NightInv, K!Act \/ K!Iterate \/ K!Finish PROVE NightInv'
<1>1. UNCHANGED <<disk, stored, K!world>> /\ endRan' = endRan /\ at' = at
      /\ pc \in {"action", "iterate", "loop"} /\ pc # "save" /\ Live /\ Place = pc /\ Working
  BY DEF K!Act, K!Iterate, K!Finish, Live, Place, Working, NightInv, K!TypeOK
<1>2. /\ at \in K!Containers /\ Form(cp) /\ RoundOn(cp, at) /\ at \notin cp.finished /\ cp \in K!Checkpoint
      /\ endRan \in BOOLEAN
  BY <1>1 DEF NightInv, K!TypeOK, Sane, PlaceInv, RoundOn, K!Good
<1>3. ~cp.ended /\ ~cp.ending
  BY <1>1 DEF NightInv, EndInv
<1>4. CASE K!Act
  <2> DEFINE n == IF at = K!Start THEN "iterate" ELSE "plan"
  <2>1. K!SaveThen(cp, n) /\ pc = "action"
    BY <1>4 DEF K!Act
  <2>2. /\ cp.iterations[at] < K!Repeat(at)
        /\ at # K!Around /\ (at # K!Start => at \in K!Targets) /\ (at = K!Start => at \notin K!Targets)
    BY <1>1, <1>2, <2>1, Places DEF NightInv, PlaceInv
  <2>3. cp' = cp /\ pc' = "save" /\ next' = n
    BY <2>1 DEF K!SaveThen
  <2>4. PlaceInv' /\ EndInv'
    BY <1>1, <1>2, <1>3, <2>2, <2>3 DEF NightInv, PlaceInv, EndInv, Live, Place, Working
  <2>5. Grows(cp, cp)
    BY <1>2, CreditRange DEF Grows
  <2>6. QED
    BY <1>1, <1>2, <1>3, <2>1, <2>4, <2>5, SaveThenInv
<1>5. CASE K!Iterate
  <2> DEFINE q == Counted(K!Forget(cp, at), at)
  <2>1. K!SaveThen(q, "loop") /\ pc = "iterate"
    BY <1>5 DEF K!Iterate, Counted
  <2>2. /\ cp.iterations[at] < K!Repeat(at)
        /\ at \in K!Targets => cp.cut \/ cp.plan[at] = Frames
        /\ at = K!Around => K!Targets \subseteq cp.finished
    BY <1>1, <2>1 DEF NightInv, PlaceInv
  <2>3. Form(q) /\ Grows(cp, q) /\ SameRest(cp, q) /\ q.finished = cp.finished \ K!Inside(at)
    BY <1>2, <2>2, IterateProgress
  <2>4. at \in K!Targets => q.iterations[K!Around] = cp.iterations[K!Around] /\ K!Inside(at) = {}
    <3> DEFINE f == K!Forget(cp, at)
    <3> SUFFICES ASSUME at \in K!Targets
                 PROVE  q.iterations[K!Around] = cp.iterations[K!Around] /\ K!Inside(at) = {}
      OBVIOUS
    <3>1. K!Inside(at) = {}
      BY Places DEF K!Inside
    <3>2. f \in K!Checkpoint
          /\ \A d \in K!Containers :
               f.iterations[d] = IF d \in K!Inside(at) THEN 0 ELSE cp.iterations[d]
      BY <1>2, ForgetShape
    <3>3. f.iterations[at] < Rounds
      BY <1>2, <2>2, <3>1, <3>2, Places DEF K!Repeat, K!CheckpointsAssumption, K!Checkpoint
    <3> HIDE DEF f
    <3>4. q.iterations[K!Around] = f.iterations[K!Around]
      <4>1. \A d \in K!Containers : Counted(f, at).iterations[d]
                                    = IF d = at THEN f.iterations[d] + 1 ELSE f.iterations[d]
        BY <1>2, <3>2, <3>3, CountedShape
      <4>2. QED
        BY <4>1, Places DEF f
    <3>5. QED
      BY <3>1, <3>2, <3>4, Places
  <2>5. cp' = q /\ pc' = "save" /\ next' = "loop"
    BY <2>1 DEF K!SaveThen
  <2> HIDE DEF q
  <2>6. PlaceInv' /\ EndInv'
    BY <1>1, <1>2, <1>3, <2>3, <2>4, <2>5
       DEF NightInv, PlaceInv, EndInv, Live, Place, Working, SameRest, SameEnd
  <2>7. ~q.ended
    BY <1>3, <2>3 DEF SameRest, SameEnd
  <2>8. QED
    BY <1>1, <1>2, <2>1, <2>3, <2>6, <2>7, SaveThenInv
<1>6. CASE K!Finish
  <2> DEFINE q == K!Finished(cp, at)
  <2>1. K!SaveThen(q, "leave") /\ pc = "loop" /\ cp.iterations[at] >= K!Repeat(at)
    BY <1>6 DEF K!Finish
  <2>2. Form(q) /\ Grows(cp, q) /\ SameRest(cp, q) /\ q.finished = cp.finished \cup {at}
    BY <1>2, <2>1, FinishProgress
  <2>3. at \in K!Targets => q.iterations[K!Around] = cp.iterations[K!Around]
    BY <1>2, FinishedShape, Places
  <2>4. cp' = q /\ pc' = "save" /\ next' = "leave"
    BY <2>1 DEF K!SaveThen
  <2> HIDE DEF q
  <2>5. PlaceInv' /\ EndInv'
    BY <1>1, <1>2, <1>3, <2>2, <2>3, <2>4, Places
       DEF NightInv, PlaceInv, EndInv, Live, Place, Working, SameRest, SameEnd
  <2>6. ~q.ended
    BY <1>3, <2>2 DEF SameRest, SameEnd
  <2>7. QED
    BY <1>1, <1>2, <2>1, <2>2, <2>5, <2>6, SaveThenInv
<1>7. QED
  BY <1>4, <1>5, <1>6

\* A frame is stored and counted; until it is saved, disk vouches for one less.
LEMMA TakeFrameInv == ASSUME K!CheckpointsAssumption, NightInv, K!TakeFrame PROVE NightInv'
<1> DEFINE q == [cp EXCEPT !.plan[at] = @ + 1]
<1>1. /\ UNCHANGED <<disk, at, endRan, life, crashes, resumes, spoiled, left, gone>>
      /\ stored' = [stored EXCEPT ![at] = @ + 1]
      /\ UNCHANGED spoiled /\ cp' = q /\ pc' = "save" /\ next' = "plan" /\ pc = "plan" /\ cp.plan[at] < Frames
  BY DEF K!TakeFrame, K!world, K!SaveThen
<1>2. Live /\ Place = "plan" /\ Working /\ at \in K!Targets /\ cp \in K!Checkpoint /\ Form(cp)
      /\ stored \in [K!Targets -> Nat] /\ spoiled \in [K!Targets -> Nat] /\ crashes \in Nat
  BY <1>1 DEF NightInv, K!TypeOK, Sane, PlaceInv, Live, Place, Working, K!CheckpointsAssumption, K!Good
<1>3. /\ cp.iterations[at] = 0 /\ at \notin cp.finished
      /\ cp.iterations[K!Around] < Rounds /\ K!Around \notin cp.finished /\ ~cp.ended /\ ~cp.ending
  <2>1. cp.iterations[at] < K!Repeat(at) /\ at \notin cp.finished
        /\ cp.iterations[K!Around] < Rounds /\ K!Around \notin cp.finished /\ ~cp.ended /\ ~cp.ending
    BY <1>2 DEF NightInv, PlaceInv, EndInv
  <2>2. cp.iterations[at] \in Nat /\ K!Repeat(at) = 1
    BY <1>2, Places DEF K!Checkpoint, K!Repeat
  <2>3. QED
    BY <2>1, <2>2
<1>4. cp.plan \in [K!Targets -> 0..Frames] /\ cp.iterations[K!Around] \in Nat /\ Rounds \in Nat
      /\ Frames \in Nat
  BY <1>2, Places DEF K!Checkpoint, K!CheckpointsAssumption
<1>5. /\ q \in K!Checkpoint /\ q.finished = cp.finished /\ q.iterations = cp.iterations
      /\ q.plan = [cp.plan EXCEPT ![at] = cp.plan[at] + 1] /\ SameRest(cp, q)
  <2>1. [cp.plan EXCEPT ![at] = cp.plan[at] + 1] \in [K!Targets -> 0..Frames]
    BY <1>1, <1>2, <1>4
  <2>2. QED
    BY <1>2, <2>1 DEF K!Checkpoint, SameRest, SameEnd
<1> HIDE DEF q
<1>6. Form(q)
  BY <1>2, <1>3, <1>4, <1>5 DEF Form, SameRest, SameEnd
<1>7. \A t \in K!Targets \ {at} : Credit(q, t) = Credit(cp, t) /\ stored'[t] - spoiled'[t] = stored[t] - spoiled[t]
  BY <1>1, <1>2, <1>4, <1>5 DEF Credit, InRound, K!Good
<1>8. Credit(q, at) = Credit(cp, at) + 1 /\ stored'[at] - spoiled'[at] = stored[at] - spoiled[at] + 1 /\ stored[at] - spoiled[at] \in Nat
  <2>1. cp.iterations[K!Around] * Frames \in Nat
    BY <1>4, Products
  <2>2. Credit(cp, at) = cp.iterations[K!Around] * Frames + cp.plan[at]
    BY <1>3 DEF Credit, InRound
  <2>3. Credit(q, at) = cp.iterations[K!Around] * Frames + (cp.plan[at] + 1)
    BY <1>2, <1>3, <1>4, <1>5 DEF Credit, InRound
  <2>4. stored'[at] - spoiled'[at] = stored[at] - spoiled[at] + 1 /\ stored[at] - spoiled[at] \in Nat
    BY <1>1, <1>2 DEF NightInv, LifeInv, K!Good
  <2>5. QED
    BY <1>1, <1>2, <1>4, <2>1, <2>2, <2>3, <2>4
<1>9. \A t \in K!Targets : Credit(cp, t) \in Nat /\ stored[t] - spoiled[t] \in Nat
  BY <1>2, CreditRange DEF NightInv, LifeInv, K!Good
<1>10. Sane(cp)'
  BY <1>1, <1>3, <1>5, <1>6, <1>7, <1>8, <1>9 DEF NightInv, Sane, SameRest, SameEnd, K!Good
<1>11. Upper(cp, 0)' /\ K!RepeatedPerCrash'
  <2>1. Upper(cp, 0)
    BY <1>2 DEF NightInv, DiskInv
  <2>2. \A t \in K!Targets : stored'[t] - spoiled'[t] <= Credit(q, t) + crashes
    BY <1>2, <1>7, <1>8, <1>9, <2>1 DEF Upper, K!Good
  <2>3. \A t \in K!Targets : Credit(q, t) <= Rounds * Frames /\ Credit(q, t) \in Nat
    BY <1>5, <1>6, CreditBound, CreditRange DEF Form
  <2>4. Rounds * Frames \in Nat
    BY <1>4, Products
  <2>5. \A t \in K!Targets : stored'[t] - spoiled'[t] \in Nat
    BY <1>7, <1>8, <1>9
  <2>6. QED
    BY <1>1, <1>2, <2>2, <2>3, <2>4, <2>5 DEF Upper, K!RepeatedPerCrash, K!Good
<1>12. disk # None => Sane(disk)' /\ Upper(disk, 1)'
  <2>1. SameProgress(cp, OnDisk) /\ Upper(cp, 0)
    BY <1>1, <1>2 DEF NightInv, DiskInv
  <2>2. \A t \in K!Targets : Credit(cp, t) = Credit(OnDisk, t)
    BY <2>1, SameCredit
  <2>3. ASSUME disk # None PROVE Sane(disk)' /\ Upper(disk, 1)'
    <3>1. disk' = disk /\ OnDisk = disk /\ Sane(disk)
      BY <1>1, <2>3 DEF OnDisk, NightInv, DiskInv
    <3>2. \A t \in K!Targets : stored'[t] - spoiled'[t] <= stored[t] - spoiled[t] + 1 /\ stored[t] - spoiled[t] <= stored'[t] - spoiled'[t]
      BY <1>7, <1>8, <1>9
    <3>3. \A t \in K!Targets : Credit(disk, t) \in Nat /\ stored'[t] - spoiled'[t] \in Nat
      BY <1>7, <1>8, <1>9, <2>2, <3>1
    <3>4. Upper(disk, 1)'
      BY <1>1, <1>2, <1>9, <2>1, <2>2, <3>1, <3>2, <3>3 DEF Upper, Credit, InRound, K!Good
    <3>5. Sane(disk)'
      BY <1>1, <1>9, <3>1, <3>2, <3>3 DEF Sane, Form, Empty, Credit, InRound, K!Good
    <3>6. QED
      BY <3>4, <3>5
  <2>4. QED
    BY <2>3
<1>13. DiskInv'
  BY <1>1, <1>11, <1>12 DEF DiskInv, Live
<1>14. PlaceInv' /\ EndInv'
  BY <1>1, <1>2, <1>3, <1>5 DEF NightInv, PlaceInv, EndInv, Live, Place, Working, SameRest, SameEnd
<1>15. K!TypeOK'
  BY <1>1, <1>2, <1>5 DEF NightInv, K!TypeOK
<1>16. LifeInv'
  BY <1>1, <1>2 DEF NightInv, LifeInv, Live, K!Good
<1>17. QED
  BY <1>10, <1>11, <1>13, <1>14, <1>15, <1>16 DEF NightInv

\* A frame whose try comes to nothing, and the deletion of the definition, are nothing to the
\* checkpoint.
LEMMA AsideInv ==
  ASSUME K!CheckpointsAssumption, NightInv, K!SpoilFrame \/ K!Delete
  PROVE  NightInv'
<1>1. UNCHANGED <<disk, cp, pc, at, next, life, crashes, resumes, endRan, left>>
  BY DEF K!SpoilFrame, K!Delete
<1>2. /\ stored' \in [K!Targets -> Nat] /\ spoiled' \in [K!Targets -> 0..MaxSpoiled]
      /\ gone' \in BOOLEAN /\ \A t \in K!Targets : K!Good(t)' = K!Good(t)
  <2>1. /\ stored \in [K!Targets -> Nat] /\ spoiled \in [K!Targets -> 0..MaxSpoiled]
        /\ gone \in BOOLEAN /\ MaxSpoiled \in Nat
    BY DEF NightInv, K!TypeOK, K!CheckpointsAssumption
  <2>2. CASE K!SpoilFrame
    <3>1. at \in K!Targets
      BY <2>2 DEF K!SpoilFrame, NightInv, PlaceInv, Live, Place
    <3>2. /\ spoiled[at] \in 0..MaxSpoiled /\ spoiled[at] < MaxSpoiled
          /\ stored' = [stored EXCEPT ![at] = stored[at] + 1]
          /\ spoiled' = [spoiled EXCEPT ![at] = spoiled[at] + 1] /\ gone' = gone
      BY <2>1, <2>2, <3>1 DEF K!SpoilFrame
    <3>3. QED
      BY <2>1, <3>1, <3>2 DEF K!Good
  <2>3. CASE K!Delete
    BY <2>1, <2>3 DEF K!Delete, K!Good
  <2>4. QED
    BY <2>2, <2>3
<1>3. K!TypeOK' /\ PlaceInv' /\ EndInv'
  BY <1>1, <1>2 DEF NightInv, K!TypeOK, PlaceInv, EndInv, Live, Place, Working
<1>4. Sane(cp)' /\ LifeInv' /\ K!RepeatedPerCrash'
  BY <1>1, <1>2 DEF NightInv, Sane, Form, Empty, Credit, InRound, LifeInv, Live, K!RepeatedPerCrash
<1>5. DiskInv'
  BY <1>1, <1>2 DEF NightInv, DiskInv, Sane, Form, Empty, Upper, Credit, InRound, SameProgress, OnDisk, Live
<1>6. QED
  BY <1>3, <1>4, <1>5 DEF NightInv

\* Something cuts the targets short: a condition, a policy, a stop.
LEMMA CutInv ==
  ASSUME K!CheckpointsAssumption, NightInv,
         \/ K!SkipPlan
         \/ \E c \in K!Containers : K!CutShort(c)
         \/ \E runEnd \in BOOLEAN : K!LeaveTargets(runEnd)
  PROVE  NightInv'
<1>1. UNCHANGED <<disk, stored, endRan, K!world>> /\ pc \in {"action", "plan"}
      /\ pc # "save" /\ Live /\ Place = pc /\ Working
  BY DEF K!SkipPlan, K!CutShort, K!LeaveTargets, K!SafePoint, Live, Place, Working
<1>2. /\ at \in K!Containers /\ Form(cp) /\ cp \in K!Checkpoint
      /\ RoundOn(cp, at) /\ at \notin cp.finished /\ ~cp.ended /\ ~cp.ending
      /\ endRan \in BOOLEAN
  BY <1>1 DEF NightInv, K!TypeOK, Sane, PlaceInv, EndInv, RoundOn, K!Good
<1>3. CASE K!SkipPlan
  <2> DEFINE q == [cp EXCEPT !.cut = TRUE]
  <2>1. cp' = q /\ pc' = "iterate" /\ at' = at /\ pc = "plan" /\ next' = next
    BY <1>3 DEF K!SkipPlan
  <2>2. /\ q \in K!Checkpoint /\ q.cut /\ SameEnd(cp, q) /\ q.finished = cp.finished
        /\ q.iterations = cp.iterations /\ q.plan = cp.plan
    BY <1>2 DEF K!Checkpoint, SameEnd
  <2> HIDE DEF q
  <2>3. Form(q) /\ SameProgress(q, cp)
    BY <1>2, <2>2 DEF Form, Empty, SameProgress
  <2>4. at \in K!Targets /\ at # K!Around
    BY <1>1, <2>1, Places DEF NightInv, PlaceInv
  <2>5. PlaceInv' /\ EndInv'
    BY <1>1, <1>2, <2>1, <2>2, <2>4 DEF NightInv, PlaceInv, EndInv, Live, Place, Working, SameEnd
  <2>6. QED
    BY <1>1, <1>2, <2>1, <2>2, <2>3, <2>5, MoveInv DEF SameEnd
<1>4. ASSUME NEW c \in K!Containers, K!CutShort(c) PROVE NightInv'
  <2> DEFINE q == Cut(K!Finished(K!Forget(cp, c), c))
  <2>1. K!SaveThen(q, "leave") /\ at' = c /\ (c = at \/ at \in K!Inside(c))
    BY <1>4 DEF K!CutShort, Cut
  <2>2. RoundOn(cp, c)
    <3>1. c = at \/ c = K!Around
      BY <2>1 DEF K!Inside
    <3>2. QED
      BY <1>2, <3>1, Places DEF RoundOn
  <2>3. /\ Form(q) /\ Grows(cp, q) /\ SameEnd(cp, q) /\ q.cut
        /\ q.finished = (cp.finished \ K!Inside(c)) \cup {c}
        /\ \A d \in K!Containers \ (K!Inside(c) \cup {c}) : q.iterations[d] = cp.iterations[d]
    BY <1>2, <2>2, CutProgress
  <2>4. cp' = q /\ pc' = "save" /\ next' = "leave"
    BY <2>1 DEF K!SaveThen
  <2> HIDE DEF q
  <2>5. PlaceInv'
    <3>1. CASE c \in K!Targets
      <4>1. c = at /\ K!Inside(c) = {} /\ K!Around \in K!Containers \ {c}
        BY <2>1, <3>1, Places DEF K!Inside
      <4>2. \A t \in K!Targets : t < at => t \in cp.finished
        BY <1>1, <3>1, <4>1 DEF NightInv, PlaceInv
      <4>3. q.iterations[K!Around] < Rounds /\ K!Around \notin q.finished
        BY <2>2, <2>3, <3>1, <4>1 DEF RoundOn
      <4>4. QED
        BY <2>1, <2>3, <2>4, <4>1, <4>2, <4>3 DEF PlaceInv, Live, Place, Working
    <3>2. CASE c \notin K!Targets
      BY <2>1, <2>3, <2>4, <3>2 DEF PlaceInv, Live, Place, Working
    <3>3. QED
      BY <3>1, <3>2
  <2>6. EndInv'
    BY <1>2, <2>3, <2>4 DEF EndInv, Live, Place, Working, SameEnd
  <2>7. QED
    BY <1>1, <1>2, <2>1, <2>3, <2>5, <2>6, SaveThenInv DEF SameEnd
<1>5. ASSUME NEW runEnd \in BOOLEAN, K!LeaveTargets(runEnd) PROVE NightInv'
  <2> DEFINE q == [cp EXCEPT !.cut = TRUE, !.waived = ~runEnd]
  <2>1. cp' = q /\ at' = at /\ next' = next /\ pc' = IF runEnd THEN "beginEnd" ELSE "final"
    BY <1>5 DEF K!LeaveTargets
  <2>2. /\ q \in K!Checkpoint /\ q.cut /\ q.ending = cp.ending /\ q.ended = cp.ended
        /\ q.finished = cp.finished
        /\ q.iterations = cp.iterations /\ q.plan = cp.plan /\ (~runEnd => q.waived)
    BY <1>2 DEF K!Checkpoint
  <2> HIDE DEF q
  <2>3. Form(q) /\ SameProgress(q, cp)
    BY <1>2, <2>2 DEF Form, Empty, SameProgress
  <2>4. PlaceInv' /\ EndInv'
    BY <1>1, <1>2, <2>1, <2>2 DEF PlaceInv, EndInv, Live, Place, Working
  <2>5. QED
    BY <1>1, <1>2, <2>1, <2>2, <2>3, <2>4, MoveInv
<1>6. QED
  BY <1>3, <1>4, <1>5

LEMMA NightEndsInv ==
  ASSUME K!CheckpointsAssumption, NightInv, K!BeginEnd \/ K!EndStep \/ K!Final
  PROVE  NightInv'
<1>1. UNCHANGED <<disk, stored, K!world>> /\ pc \in {"beginEnd", "end", "final"} /\ at' = at
      /\ pc # "save" /\ Live /\ Place = pc
  BY DEF K!BeginEnd, K!EndStep, K!Final, Live, Place
<1>2. /\ at \in K!Containers /\ Form(cp) /\ cp \in K!Checkpoint
      /\ ~cp.ended /\ endRan \in BOOLEAN
  BY <1>1 DEF NightInv, K!TypeOK, Sane, EndInv, K!Good
<1>3. ASSUME NEW q, q \in K!Checkpoint, q.cut = cp.cut, q.finished = cp.finished,
             q.iterations = cp.iterations, q.plan = cp.plan,
             q.ending /\ ~q.cut => K!Around \in q.finished
      PROVE  Form(q) /\ Grows(cp, q)
  BY <1>2, <1>3, CreditRange DEF Form, Empty, Grows, Credit, InRound
<1>4. CASE K!BeginEnd
  <2> DEFINE q == [cp EXCEPT !.ending = TRUE]
  <2>1. K!SaveThen(q, "end") /\ pc = "beginEnd" /\ endRan' = endRan
    BY <1>4 DEF K!BeginEnd
  <2>2. /\ q \in K!Checkpoint /\ q.cut = cp.cut /\ q.finished = cp.finished /\ q.ended = cp.ended
        /\ q.iterations = cp.iterations /\ q.plan = cp.plan
    BY <1>2 DEF K!Checkpoint
  <2>3. cp.cut \/ K!Around \in cp.finished
    BY <1>1, <2>1 DEF NightInv, EndInv
  <2>4. cp' = q /\ pc' = "save" /\ next' = "end"
    BY <2>1 DEF K!SaveThen
  <2> HIDE DEF q
  <2>5. PlaceInv' /\ EndInv'
    BY <1>2, <2>2, <2>4 DEF PlaceInv, EndInv, Live, Place, Working
  <2>6. QED
    BY <1>1, <1>2, <1>3, <2>1, <2>2, <2>3, <2>5, SaveThenInv
<1>5. CASE K!EndStep
  <2>1. K!SaveThen(cp, "final") /\ endRan' = TRUE
    BY <1>5 DEF K!EndStep
  <2>2. cp' = cp /\ pc' = "save" /\ next' = "final"
    BY <2>1 DEF K!SaveThen
  <2>3. PlaceInv' /\ EndInv'
    BY <1>2, <2>1, <2>2 DEF PlaceInv, EndInv, Live, Place, Working
  <2>4. Grows(cp, cp)
    BY <1>2, CreditRange DEF Grows
  <2>5. QED
    BY <1>1, <1>2, <2>1, <2>3, <2>4, SaveThenInv
<1>6. CASE K!Final
  <2> DEFINE q == [cp EXCEPT !.ended = TRUE]
  <2>1. K!SaveThen(q, "clear") /\ pc = "final" /\ endRan' = endRan
    BY <1>6 DEF K!Final
  <2>2. /\ q \in K!Checkpoint /\ q.cut = cp.cut /\ q.finished = cp.finished /\ q.ended
        /\ q.iterations = cp.iterations /\ q.plan = cp.plan /\ q.ending = cp.ending
        /\ q.waived = cp.waived
    BY <1>2 DEF K!Checkpoint
  <2>3. endRan \/ cp.waived
    BY <1>1, <2>1 DEF NightInv, EndInv
  <2>4. cp' = q /\ pc' = "save" /\ next' = "clear"
    BY <2>1 DEF K!SaveThen
  <2> HIDE DEF q
  <2>5. PlaceInv' /\ EndInv'
    BY <1>2, <2>2, <2>4 DEF PlaceInv, EndInv, Live, Place, Working
  <2>6. Form(q) /\ Grows(cp, q)
    BY <1>2, <1>3, <2>2 DEF Form
  <2>7. QED
    BY <1>1, <1>2, <2>1, <2>2, <2>3, <2>5, <2>6, SaveThenInv
<1>7. QED
  BY <1>4, <1>5, <1>6

\* What is on disk stays as true as it was when no more frames are stored.
LEMMA DiskKept ==
  ASSUME K!CheckpointsAssumption, NightInv, UNCHANGED <<stored, spoiled, endRan>>, disk' = disk, crashes' = crashes
  PROVE  disk # None => Sane(disk)' /\ Upper(disk, 1)' /\ (Upper(disk, 0) => Upper(disk, 0)')
  BY DEF NightInv, DiskInv, Sane, Form, Upper, Credit, InRound, Empty, K!Good

LEMMA StartRunInv == ASSUME K!CheckpointsAssumption, NightInv, K!StartRun PROVE NightInv'
<1>1. /\ UNCHANGED <<disk, next, crashes, resumes, stored, spoiled, endRan, left, gone>>
      /\ pc = "up" /\ life = "new" /\ life' = "live" /\ cp' = K!Fresh /\ pc' = "enter" /\ at' = K!Start
  BY DEF K!StartRun
<1>2. disk = None /\ (\A t \in K!Targets : K!Good(t) = 0) /\ crashes \in Nat
  BY <1>1 DEF NightInv, LifeInv, K!TypeOK, K!CheckpointsAssumption, K!Good
<1>3. Sane(cp)' /\ Upper(cp, 0)'
  <2>1. Form(K!Fresh) /\ K!Fresh.ended = FALSE /\ \A t \in K!Targets : Credit(K!Fresh, t) = 0
    BY FreshProgress
  <2>2. Sane(K!Fresh)' /\ Upper(K!Fresh, 0)'
    BY <1>1, <1>2, <2>1 DEF Sane, Upper, Form, Empty, Credit, InRound, K!Good
  <2>3. QED
    BY <1>1, <2>2
<1>4. K!TypeOK'
  BY <1>1, FreshProgress, Places DEF NightInv, K!TypeOK
<1>5. PlaceInv' /\ EndInv' /\ Live'
  BY <1>1, FreshProgress, Places DEF PlaceInv, EndInv, Live, Place, Working
<1>6. LifeInv' /\ K!RepeatedPerCrash'
  BY <1>1 DEF NightInv, LifeInv, K!RepeatedPerCrash, K!Good
<1>7. SameProgress(cp, OnDisk)'
  BY <1>1, <1>2 DEF SameProgress, OnDisk
<1>8. QED
  BY <1>1, <1>2, <1>3, <1>4, <1>5, <1>6, <1>7 DEF NightInv, DiskInv

\* The run's task is over, or never began: nothing is at work.
LEMMA ClearInv ==
  ASSUME K!CheckpointsAssumption, NightInv, K!Clear \/ K!Cancel \/ K!RecoverRefused
  PROVE  NightInv'
<1>1. /\ UNCHANGED <<stored, spoiled, endRan, crashes, resumes, gone>>
      /\ UNCHANGED <<cp, at, next>> \/ (cp' = K!Fresh /\ at' = K!Start /\ next' = "loop")
      /\ pc' = "up" /\ left' \in {"no", "cancelled", "refused"} /\ ~Live' /\ ~Working'
  <2>1. CASE K!Clear
    BY <2>1 DEF K!Clear, K!Forgotten, NightInv, K!TypeOK, Live, Working
  <2>2. CASE K!Cancel
    BY <2>2 DEF K!Cancel, K!Forgotten, NightInv, K!TypeOK, Live, Working
  <2>3. CASE K!RecoverRefused
    BY <2>3 DEF K!RecoverRefused, Live, Working
  <2>4. QED
    BY <2>1, <2>2, <2>3
<1>2. \/ disk' = None /\ life' = "over"
      \/ disk' = disk /\ life' = life /\ life = "live"
  <2>1. CASE K!Clear
    BY <2>1 DEF K!Clear
  <2>2. CASE K!Cancel
    BY <2>2 DEF K!Cancel, NightInv, LifeInv, Live, K!Good
  <2>3. CASE K!RecoverRefused
    BY <2>3 DEF K!RecoverRefused, NightInv, LifeInv, K!Good
  <2>4. QED
    BY <2>1, <2>2, <2>3
<1>3. K!TypeOK'
  BY <1>1, <1>2, FreshProgress, Places DEF NightInv, K!TypeOK
<1>4. Sane(cp)' /\ K!RepeatedPerCrash'
  <2>1. K!Fresh.ended = FALSE /\ Form(K!Fresh) /\ \A u \in K!Targets : Credit(K!Fresh, u) = 0
    BY FreshProgress
  <2>2. \A u \in K!Targets : K!Good(u) \in Nat /\ K!Good(u)' = K!Good(u)
    BY <1>1 DEF NightInv, LifeInv, K!Good
  <2>3. CASE cp' = cp
    BY <1>1, <2>3 DEF NightInv, Sane, Form, Empty, Credit, InRound, K!RepeatedPerCrash, K!Good
  <2>4. CASE cp' = K!Fresh
    BY <1>1, <2>1, <2>2, <2>4 DEF NightInv, Sane, Form, Empty, Credit, InRound, K!RepeatedPerCrash, K!Good
  <2>5. QED
    BY <1>1, <2>3, <2>4
<1>5. PlaceInv' /\ EndInv'
  BY <1>1 DEF PlaceInv, EndInv
<1>6. LifeInv'
  BY <1>1, <1>2 DEF NightInv, LifeInv, K!Good
<1>7. DiskInv'
  BY <1>1, <1>2, DiskKept DEF DiskInv
<1>8. QED
  BY <1>3, <1>4, <1>5, <1>6, <1>7 DEF NightInv

LEMMA CrashInv == ASSUME K!CheckpointsAssumption, NightInv, K!Crash PROVE NightInv'
<1>1. /\ UNCHANGED <<disk, resumes, stored, endRan, spoiled, left, gone>> /\ crashes' = crashes + 1
      /\ crashes < MaxCrashes /\ pc' = "off" /\ cp' = K!Fresh /\ at' = K!Start /\ next' = "loop"
      /\ life' = (IF life = "live" /\ disk = None THEN "lost" ELSE life)
  BY DEF K!Crash, K!Forgotten
<1>2. /\ crashes \in 0..MaxCrashes /\ resumes \in 0..MaxCrashes /\ MaxCrashes \in Nat
      /\ resumes <= crashes
      /\ \A t \in K!Targets : K!Good(t) \in Nat
  BY DEF NightInv, LifeInv, K!TypeOK, K!CheckpointsAssumption
<1>3. K!TypeOK'
  <2>1. crashes' \in 0..MaxCrashes /\ cp' \in K!Checkpoint /\ at' \in K!Containers
    BY <1>1, <1>2, FreshProgress, Places
  <2>2. life' \in {"new", "live", "over", "lost"}
    BY <1>1 DEF NightInv, K!TypeOK
  <2>3. QED
    BY <1>1, <2>1, <2>2 DEF NightInv, K!TypeOK
<1>4. Sane(cp)'
  <2>1. Form(K!Fresh) /\ K!Fresh.ended = FALSE /\ \A t \in K!Targets : Credit(K!Fresh, t) = 0
    BY FreshProgress
  <2>2. Sane(K!Fresh)'
    BY <1>1, <1>2, <2>1 DEF Sane, Form, Empty, Credit, InRound, K!Good
  <2>3. QED
    BY <1>1, <2>2
<1>5. ~Live' /\ ~Working' /\ pc' # "clear" /\ PlaceInv' /\ EndInv'
  BY <1>1 DEF PlaceInv, EndInv, Live, Working
<1>6. K!RepeatedPerCrash'
  <2>1. \A t \in K!Targets : K!Good(t) <= Rounds * Frames + crashes
    BY DEF NightInv, K!RepeatedPerCrash, K!Good
  <2>2. Rounds * Frames \in Nat
    BY Products DEF K!CheckpointsAssumption
  <2>3. QED
    BY <1>1, <1>2, <2>1, <2>2 DEF K!RepeatedPerCrash, K!Good
<1>7. LifeInv'
  BY <1>1, <1>2, <1>5 DEF NightInv, LifeInv, K!TypeOK, K!Good
<1>8. DiskInv'
  <2>1. ASSUME disk # None PROVE Sane(disk)' /\ Upper(disk, 1)' /\ Upper(disk, 0)'
    <3>1. Sane(disk) /\ Upper(disk, 1) /\ disk \in K!Checkpoint
      BY <2>1 DEF NightInv, DiskInv, Sane, Form, K!Good
    <3>2. \A t \in K!Targets : Credit(disk, t) \in Nat
      BY <3>1, CreditRange
    <3>3. \A t \in K!Targets : Credit(disk, t)' = Credit(disk, t)
      BY <1>1 DEF Credit, InRound
    <3>4. Upper(disk, 1)' /\ Upper(disk, 0)'
      BY <1>1, <1>2, <3>1, <3>2, <3>3 DEF Upper, K!Good
    <3>5. Sane(disk)'
      BY <1>1, <3>1, <3>3 DEF Sane, Form, Empty, K!Good
    <3>6. QED
      BY <3>4, <3>5
  <2>2. QED
    BY <1>1, <1>5, <2>1 DEF DiskInv
<1>9. QED
  BY <1>3, <1>4, <1>5, <1>6, <1>7, <1>8 DEF NightInv

LEMMA BootInv == ASSUME K!CheckpointsAssumption, NightInv, K!Boot PROVE NightInv'
<1>1. /\ UNCHANGED <<cp, at, next, stored, endRan, crashes, resumes, spoiled, left, gone>>
      /\ pc = "off" /\ pc' \in {"up", "waiting"} /\ life' \in {life, "over", "lost"}
      /\ disk' = disk \/ (disk' = None /\ life' = "lost")
      /\ pc' = "waiting" => life' = life /\ disk' # None /\ ~disk'.ended /\ disk' = disk
      /\ pc' = "up" => \/ disk' = None /\ life' \in {life, "lost"}
                       \/ disk' # None /\ disk'.ended /\ life' = "over"
  <2>1. CASE disk = None
    BY <2>1 DEF K!Boot
  <2>2. CASE disk # None
    BY <2>2 DEF K!Boot
  <2>3. QED
    BY <2>1, <2>2
<1>2. ~Live' /\ ~Working' /\ PlaceInv' /\ EndInv'
  BY <1>1 DEF PlaceInv, EndInv, Live, Working
<1>3. K!TypeOK' /\ K!RepeatedPerCrash'
  BY <1>1 DEF NightInv, K!TypeOK, K!RepeatedPerCrash, K!Good
<1>4. Sane(cp)'
  BY <1>1 DEF NightInv, Sane, Form, Empty, Credit, InRound, K!Good
<1>5. LifeInv'
  BY <1>1, <1>2 DEF NightInv, LifeInv, K!TypeOK, K!Good
<1>6. DiskInv'
  BY <1>1, <1>2, DiskKept DEF NightInv, DiskInv
<1>7. QED
  BY <1>2, <1>3, <1>4, <1>5, <1>6 DEF NightInv

\* The runner's copy of what is on disk vouches for the same frames.
LEMMA ResumedShape ==
  ASSUME disk \in K!Checkpoint, NEW onlyEnd \in BOOLEAN
  PROVE  /\ K!Resumed(onlyEnd) \in K!Checkpoint
         /\ K!Resumed(onlyEnd).finished = disk.finished \ {K!Start}
         /\ K!Resumed(onlyEnd).iterations = disk.iterations /\ K!Resumed(onlyEnd).plan = disk.plan
         /\ K!Resumed(onlyEnd).ending <=> disk.ending \/ onlyEnd
         /\ K!Resumed(onlyEnd).cut <=> disk.cut \/ (onlyEnd /\ ~disk.ending)
         /\ K!Resumed(onlyEnd).ended = disk.ended
<1> DEFINE q == K!Resumed(onlyEnd)
<1>1. /\ disk.ending \in BOOLEAN /\ disk.cut \in BOOLEAN /\ disk.restarts + 1 \in Nat
      /\ disk.finished \ {K!Start} \in SUBSET K!Containers
  BY DEF K!Checkpoint
<1>2. /\ q.finished = disk.finished \ {K!Start} /\ q.iterations = disk.iterations
      /\ q.plan = disk.plan /\ q.ended = disk.ended /\ q.waived = disk.waived
  BY DEF K!Resumed, K!Checkpoint
<1>3. q.ending = (disk.ending \/ onlyEnd)
  BY DEF K!Resumed, K!Checkpoint
<1>4. q.cut = (disk.cut \/ (onlyEnd /\ ~disk.ending))
  BY DEF K!Resumed, K!Checkpoint
<1>5. q \in K!Checkpoint
  BY <1>1 DEF K!Resumed, K!Checkpoint
<1>6. QED
  BY <1>2, <1>3, <1>4, <1>5

LEMMA RecoverInv ==
  ASSUME K!CheckpointsAssumption, NightInv, NEW onlyEnd \in BOOLEAN, K!Recover(onlyEnd)
  PROVE  NightInv'
<1> DEFINE q == K!Resumed(onlyEnd)
<1>1. /\ UNCHANGED <<disk, at, next, life, crashes, stored, endRan, spoiled, left, gone>>
      /\ pc = "waiting" /\ cp' = q /\ pc' = (IF q.ending THEN "beginEnd" ELSE "enter")
      /\ resumes' = IF q.ending THEN resumes ELSE resumes + 1
  BY DEF K!Recover
<1>2. /\ disk # None /\ ~disk.ended /\ life = "live" /\ Sane(disk) /\ Upper(disk, 0)
      /\ disk \in K!Checkpoint /\ Form(disk) /\ at = K!Start /\ resumes < crashes
      /\ crashes \in 0..MaxCrashes /\ resumes \in 0..MaxCrashes /\ MaxCrashes \in Nat
  BY <1>1 DEF NightInv, LifeInv, DiskInv, Sane, Form, K!TypeOK, K!CheckpointsAssumption, K!Good
<1>3. /\ q \in K!Checkpoint /\ q.finished = disk.finished \ {K!Start}
      /\ q.iterations = disk.iterations /\ q.plan = disk.plan /\ q.ended = disk.ended
      /\ q.ending <=> disk.ending \/ onlyEnd
      /\ q.cut <=> disk.cut \/ (onlyEnd /\ ~disk.ending)
  BY <1>2, ResumedShape
<1> HIDE DEF q
<1>4. SameProgress(q, disk)
  BY <1>3 DEF SameProgress
<1>5. \A t \in K!Targets : Credit(q, t) = Credit(disk, t)
  BY <1>4, SameCredit
<1>6. Form(q)
  BY <1>2, <1>3, Places DEF Form, Empty
<1>7. Sane(cp)' /\ Upper(cp, 0)'
  BY <1>1, <1>2, <1>3, <1>5, <1>6 DEF Sane, Upper, K!Good
<1>8. K!TypeOK'
  BY <1>1, <1>2, <1>3 DEF NightInv, K!TypeOK
<1>9. PlaceInv' /\ EndInv' /\ Live'
  BY <1>1, <1>2, <1>3, <1>6, Places DEF PlaceInv, EndInv, Live, Place, Working, Form
<1>10. LifeInv' /\ K!RepeatedPerCrash'
  BY <1>1, <1>2 DEF NightInv, LifeInv, K!RepeatedPerCrash, K!Good
<1>11. DiskInv'
  <2>1. SameProgress(cp, OnDisk)'
    BY <1>1, <1>2, <1>4 DEF SameProgress, OnDisk
  <2>2. QED
    BY <1>1, <1>7, <2>1, DiskKept DEF DiskInv
<1>12. QED
  BY <1>7, <1>8, <1>9, <1>10, <1>11 DEF NightInv

LEMMA NightStep == ASSUME K!CheckpointsAssumption, NightInv, K!Next PROVE NightInv'
<1>1. CASE K!RunStep
  BY <1>1, SaveInv, EnterInv, ActInv, TakeFrameInv, AsideInv, CutInv, NightEndsInv, ClearInv DEF K!RunStep
<1>2. CASE K!Restart
  BY <1>2, BootInv, RecoverInv DEF K!Restart
<1>3. CASE K!StartRun \/ K!Cancel \/ K!Delete \/ K!Crash \/ K!RecoverRefused
  BY <1>3, StartRunInv, ClearInv, AsideInv, CrashInv
<1>4. QED
  BY <1>1, <1>2, <1>3 DEF K!Next

LEMMA NightUnchanged == ASSUME NightInv, UNCHANGED nightVars PROVE NightInv'
<1>1. UNCHANGED <<disk, cp, pc, at, next, life, crashes, resumes, stored, spoiled, endRan, left, gone>>
  BY DEF nightVars
<1>2. K!TypeOK' /\ LifeInv' /\ K!RepeatedPerCrash'
  BY <1>1 DEF NightInv, K!TypeOK, LifeInv, Live, K!RepeatedPerCrash, K!Good
<1>3. PlaceInv' /\ EndInv'
  BY <1>1 DEF NightInv, PlaceInv, EndInv, Live, Place, Working
<1>4. Sane(cp)' /\ DiskInv'
  BY <1>1 DEF NightInv, DiskInv, Sane, Form, Empty, Upper, Credit, InRound, SameProgress, OnDisk, Live, K!Good
<1>5. QED
  BY <1>2, <1>3, <1>4 DEF NightInv

\* A checkpoint in its end that nothing cut vouches for every frame of every round.
LEMMA NightInvHolds == ASSUME K!CheckpointsAssumption, NightInv PROVE NightIsWhole
<1>1. K!NothingLeftOut
  <2>1. ASSUME NEW p, Sane(p), p.ending, ~p.cut, NEW t \in K!Targets PROVE K!Good(t) >= Rounds * Frames
    BY <2>1 DEF Sane, Form, Credit, K!Good
  <2>2. \A p \in {cp, disk} \ {None} : Sane(p)
    BY DEF NightInv, DiskInv
  <2>3. QED
    BY <2>1, <2>2 DEF K!NothingLeftOut
<1>2. K!EndBeforeOver
  BY DEF NightInv, EndInv, DiskInv, Sane, K!EndBeforeOver, K!Good
<1>3. QED
  BY <1>1, <1>2 DEF NightInv, NightIsWhole

\* A frame that is stored is taken again at most once per crash and once per try that came to
\* nothing after it was stored (clouds, a lost star, a stop or pause now); none is left out by
\* a run that nothing cut short; and the run's task removes its checkpoint only after *end*
\* ran or was waived, whatever crashes come (_plan, _container and CheckpointFile of the
\* runner, SequenceService.recover).
THEOREM CrashesKeepNight == Spec => []NightIsWhole
<1>1. Init => NightInv
  BY SequenceRunsAssumption, NightInit DEF Init
<1>2. NightInv /\ [Next]_vars => NightInv'
  <2> SUFFICES ASSUME NightInv, [Next]_vars PROVE NightInv'
    OBVIOUS
  <2>1. CASE Control
    BY <2>1, NightUnchanged DEF Control
  <2>2. CASE Night
    BY <2>2, SequenceRunsAssumption, NightStep DEF Night
  <2>3. CASE UNCHANGED vars
    BY <2>3, NightUnchanged DEF vars
  <2>4. QED
    BY <2>1, <2>2, <2>3 DEF Next
<1>3. NightInv => NightIsWhole
  BY SequenceRunsAssumption, NightInvHolds
<1>4. QED
  BY <1>1, <1>2, <1>3, PTL DEF Spec

----------------------------------------------------------------------------
(* The night that is kept *)

\* What the checkpoint p says of the rounds.
RoundOf(p) == IF K!Around \in p.finished THEN Rounds ELSE p.iterations[K!Around]

SameRecord(p, q) == RoundOf(q) = RoundOf(p) /\ \A t \in K!Targets : InRound(q, t) = InRound(p, t)

\* One step of the night leads from p to q, or none.
Goes(p, q) ==
  \/ SameRecord(p, q) /\ (p.ending => q.ending)
  \/ /\ ~p.ending /\ ~q.ending
     /\ \/ \E t \in K!Targets :
             /\ RoundOf(q) = RoundOf(p)
             /\ \A s \in K!Targets \ {t} : InRound(q, s) = InRound(p, s)
             /\ \/ InRound(q, t) = Frames
                \/ InRound(p, t) < Frames /\ InRound(q, t) = InRound(p, t) + 1
        \/ /\ RoundOf(p) < Rounds /\ RoundOf(q) = RoundOf(p) + 1
           /\ \A t \in K!Targets : InRound(p, t) = Frames /\ InRound(q, t) = 0
        \/ RoundOf(q) = Rounds /\ \A t \in K!Targets : InRound(q, t) = 0

\* What is being saved is a step from what is on disk.
RecordInv ==
  /\ Live => (OnDisk.ending => cp.ending)
  /\ pc = "save" => Goes(OnDisk, cp)

\* The record of the night that the checkpoint on disk is, while the run is not over.
Shows ==
  life \notin {"over", "lost"} =>
    /\ \A t \in K!Targets : K!DiskTaken(t) = InRound(OnDisk, t)
    /\ K!DiskRound = RoundOf(OnDisk)
    /\ K!DiskPhase = IF OnDisk.ending THEN "ending" ELSE "working"

LEMMA KeptRecord == ASSUME K!CheckpointsAssumption PROVE Shows /\ Shows'
<1>1. /\ K!Fresh.ending = FALSE /\ K!Fresh.finished = {}
      /\ (\A c \in K!Containers : K!Fresh.iterations[c] = 0)
      /\ (\A t \in K!Targets : K!Fresh.plan[t] = 0)
  BY DEF K!Fresh
<1>2. Shows
  BY <1>1, Places DEF Shows, OnDisk, InRound, RoundOf, K!DiskTaken, K!DiskRound, K!DiskPhase
<1>3. Shows'
  BY <1>1, Places DEF Shows, OnDisk, InRound, RoundOf, K!DiskTaken, K!DiskRound, K!DiskPhase
<1>4. QED
  BY <1>2, <1>3

LEMMA KeptStep ==
  ASSUME K!CheckpointsAssumption, NightInv, life \notin {"over", "lost"}, life' \notin {"over", "lost"},
         Goes(OnDisk, OnDisk')
  PROVE  [K!TheNight!Next]_(K!TheNight!night)
<1> DEFINE p == OnDisk
           q == OnDisk'
           taken == [t \in K!Targets |-> K!DiskTaken(t)]
<1>1. /\ \A t \in K!Targets : K!DiskTaken(t) = InRound(p, t)
      /\ K!DiskRound = RoundOf(p)
      /\ K!DiskPhase = IF p.ending THEN "ending" ELSE "working"
  BY KeptRecord DEF Shows
<1>2. /\ \A t \in K!Targets : K!DiskTaken(t)' = InRound(q, t)
      /\ K!DiskRound' = RoundOf(q)
      /\ K!DiskPhase' = IF q.ending THEN "ending" ELSE "working"
  BY KeptRecord DEF Shows
<1>3. /\ taken = [t \in K!Targets |-> InRound(p, t)]
      /\ taken' = [t \in K!Targets |-> InRound(q, t)]
  BY <1>1, <1>2
<1> HIDE DEF p, q
<1>4. CASE SameRecord(p, q) /\ (p.ending => q.ending)
  <2>1. taken' = taken /\ K!DiskRound' = K!DiskRound
    BY <1>1, <1>2, <1>3, <1>4 DEF SameRecord
  <2>2. K!DiskPhase' = K!DiskPhase \/ (K!DiskPhase = "working" /\ K!DiskPhase' = "ending")
    <3>1. CASE p.ending
      BY <1>1, <1>2, <1>4, <3>1
    <3>2. CASE ~p.ending
      BY <1>1, <1>2, <3>2
    <3>3. QED
      BY <3>1, <3>2
  <2>3. CASE K!DiskPhase' = K!DiskPhase
    BY <2>1, <2>3 DEF K!TheNight!night
  <2>4. CASE K!DiskPhase = "working" /\ K!DiskPhase' = "ending"
    BY <2>1, <2>4 DEF K!TheNight!Next, K!TheNight!BeginEnd
  <2>5. QED
    BY <2>2, <2>3, <2>4
<1>5. ASSUME ~p.ending, ~q.ending PROVE K!TheNight!Working
  BY <1>1, <1>2, <1>5 DEF K!TheNight!Working
<1>6. ASSUME ~p.ending, ~q.ending, NEW t \in K!Targets,
             RoundOf(q) = RoundOf(p), \A s \in K!Targets \ {t} : InRound(q, s) = InRound(p, s),
             \/ InRound(q, t) = Frames
             \/ InRound(p, t) < Frames /\ InRound(q, t) = InRound(p, t) + 1
      PROVE  K!TheNight!Next
  <2>1. taken' = [taken EXCEPT ![t] = InRound(q, t)] /\ K!DiskRound' = K!DiskRound
    BY <1>1, <1>2, <1>3, <1>6
  <2>2. CASE InRound(q, t) = Frames
    <3>1. K!TheNight!GiveUp(t)
      BY <1>5, <1>6, <2>1, <2>2 DEF K!TheNight!GiveUp
    <3>2. QED
      BY <3>1 DEF K!TheNight!Next
  <2>3. CASE InRound(p, t) < Frames /\ InRound(q, t) = InRound(p, t) + 1
    <3>1. taken[t] = InRound(p, t)
      BY <1>3
    <3>2. K!TheNight!Frame(t)
      BY <1>5, <1>6, <2>1, <2>3, <3>1 DEF K!TheNight!Frame
    <3>3. QED
      BY <3>2 DEF K!TheNight!Next
  <2>4. QED
    BY <1>6, <2>2, <2>3
<1>7. ASSUME ~p.ending, ~q.ending, RoundOf(p) < Rounds, RoundOf(q) = RoundOf(p) + 1,
             \A t \in K!Targets : InRound(p, t) = Frames /\ InRound(q, t) = 0
      PROVE  K!TheNight!Next
  <2>1. taken' = K!TheNight!Nothing /\ \A t \in K!Targets : taken[t] = Frames
    BY <1>3, <1>7 DEF K!TheNight!Nothing
  <2>2. QED
    BY <1>1, <1>2, <1>5, <1>7, <2>1 DEF K!TheNight!Next, K!TheNight!NextRound
<1>8. ASSUME ~p.ending, ~q.ending, RoundOf(q) = Rounds, \A t \in K!Targets : InRound(q, t) = 0
      PROVE  K!TheNight!Next
  <2>1. taken' = K!TheNight!Nothing
    BY <1>3, <1>8 DEF K!TheNight!Nothing
  <2>2. QED
    BY <1>2, <1>5, <1>8, <2>1 DEF K!TheNight!Next, K!TheNight!GiveUpAll
<1>9. QED
  BY <1>4, <1>6, <1>7, <1>8 DEF Goes, p, q

\* The run is over, or forgotten, with this step; or it was already.
LEMMA OverStep ==
  ASSUME K!CheckpointsAssumption, life' \in {"over", "lost"}
  PROVE  [K!TheNight!Next]_(K!TheNight!night)
<1> DEFINE taken == [t \in K!Targets |-> K!DiskTaken(t)]
<1>1. taken' = [t \in K!Targets |-> 0] /\ K!DiskRound' = 0 /\ K!DiskPhase' = "over"
  BY DEF K!DiskTaken, K!DiskRound, K!DiskPhase
<1>2. CASE life \in {"over", "lost"}
  <2>1. taken = [t \in K!Targets |-> 0] /\ K!DiskRound = 0 /\ K!DiskPhase = "over"
    BY <1>2 DEF K!DiskTaken, K!DiskRound, K!DiskPhase
  <2>2. QED
    BY <1>1, <2>1 DEF K!TheNight!night
<1>3. CASE life \notin {"over", "lost"}
  <2>1. K!DiskPhase # "over"
    BY <1>3 DEF K!DiskPhase
  <2>2. QED
    BY <1>1, <2>1 DEF K!TheNight!Next, K!TheNight!Over, K!TheNight!Nothing
<1>4. QED
  BY <1>2, <1>3

LEMMA GoesFromDisk ==
  ASSUME K!CheckpointsAssumption, NEW p, NEW q, NEW d, SameProgress(p, d), d.ending => p.ending, Goes(p, q)
  PROVE  Goes(d, q) /\ (d.ending => q.ending)
<1>1. RoundOf(d) = RoundOf(p) /\ \A t \in K!Targets : InRound(d, t) = InRound(p, t)
  <2>1. \A t \in K!Targets : InRound(d, t) = InRound(p, t)
    BY SameCredit
  <2>2. QED
    BY <2>1, Places DEF SameProgress, RoundOf
<1>2. QED
  BY <1>1 DEF Goes, SameRecord

\* A step whose checkpoint q is then saved.
LEMMA SaveThenRecord ==
  ASSUME K!CheckpointsAssumption, NightInv, RecordInv, Live, pc # "save", NEW q, NEW n,
         K!SaveThen(q, n), UNCHANGED disk, Goes(cp, q)
  PROVE  RecordInv'
<1>1. SameProgress(cp, OnDisk) /\ (OnDisk.ending => cp.ending)
  BY DEF NightInv, DiskInv, RecordInv
<1>2. Goes(OnDisk, q) /\ (OnDisk.ending => q.ending)
  BY <1>1, GoesFromDisk
<1>3. OnDisk' = OnDisk /\ cp' = q
  BY DEF OnDisk, K!SaveThen
<1>4. Goes(OnDisk, cp)' /\ (OnDisk.ending => cp.ending)'
  BY <1>2, <1>3 DEF Goes, SameRecord, InRound, RoundOf
<1>5. QED
  BY <1>4 DEF RecordInv

LEMMA IterateRecord ==
  ASSUME K!CheckpointsAssumption, NightInv, K!Iterate
  PROVE  Goes(cp, Counted(K!Forget(cp, at), at))
<1> DEFINE f == K!Forget(cp, at)
           q == Counted(f, at)
<1>1. /\ pc = "iterate" /\ Live /\ Place = pc /\ Working
  BY DEF K!Iterate, Live, Place, Working
<1>2. /\ at \in K!Containers /\ RoundOn(cp, at) /\ at \notin cp.finished /\ cp \in K!Checkpoint
      /\ cp.iterations[at] < K!Repeat(at) /\ ~cp.ending
      /\ cp.iterations \in [K!Containers -> 0..Rounds] /\ Rounds \in Nat /\ 1 <= Rounds
      /\ at = K!Around => K!Targets \subseteq cp.finished
  BY <1>1 DEF NightInv, K!TypeOK, PlaceInv, EndInv, RoundOn, K!Checkpoint, K!CheckpointsAssumption
<1>3. /\ f \in K!Checkpoint /\ SameRest(cp, f) /\ f.finished = cp.finished \ K!Inside(at)
      /\ \A d \in K!Containers :
           f.iterations[d] = IF d \in K!Inside(at) THEN 0 ELSE cp.iterations[d]
      /\ \A t \in K!Targets : f.plan[t] = IF t = at \/ t \in K!Inside(at) THEN 0 ELSE cp.plan[t]
  BY <1>2, ForgetShape
<1> HIDE DEF f
<1>4. at \notin K!Inside(at) /\ cp.iterations[at] \in Nat /\ cp.iterations[at] < Rounds
  BY <1>2, Places DEF K!Inside, K!Repeat
<1>5. /\ SameRest(f, q) /\ q.finished = f.finished /\ q.plan = f.plan
      /\ \A d \in K!Containers : q.iterations[d] = IF d = at THEN f.iterations[d] + 1 ELSE f.iterations[d]
  BY <1>2, <1>3, <1>4, CountedShape
<1> HIDE DEF q
<1>6. q.ending = cp.ending
  BY <1>3, <1>5 DEF SameRest, SameEnd
<1>7. CASE at = K!Start
  BY <1>3, <1>5, <1>6, <1>7, Places DEF K!Inside, Goes, SameRecord, RoundOf, InRound, q, f
<1>8. CASE at \in K!Targets
  <2>1. RoundOf(q) = RoundOf(cp)
    BY <1>3, <1>5, <1>8, Places DEF K!Inside, RoundOf
  <2>2. \A t \in K!Targets \ {at} : InRound(q, t) = InRound(cp, t)
    BY <1>3, <1>5, <1>8, Places DEF K!Inside, InRound
  <2>3. InRound(q, at) = Frames
    <3>1. K!Repeat(at) = 1 /\ at \notin K!Inside(at)
      BY <1>8, Places DEF K!Repeat, K!Inside
    <3>2. cp.iterations[at] = 0
      BY <1>2, <1>4, <3>1
    <3>3. q.iterations[at] = 1
      BY <1>2, <1>3, <1>5, <3>1, <3>2
    <3>4. QED
      BY <3>3 DEF InRound
  <2>4. QED
    BY <1>2, <1>6, <1>8, <2>1, <2>2, <2>3 DEF Goes, q, f
<1>9. CASE at = K!Around
  <2>1. \A t \in K!Targets : InRound(cp, t) = Frames /\ InRound(q, t) = 0
    BY <1>2, <1>3, <1>5, <1>9, Places DEF K!Inside, InRound
  <2>2. RoundOf(cp) = cp.iterations[K!Around] /\ RoundOf(q) = cp.iterations[K!Around] + 1
    BY <1>2, <1>3, <1>5, <1>9, Places DEF K!Inside, RoundOf
  <2>3. QED
    BY <1>2, <1>4, <1>6, <1>9, <2>1, <2>2 DEF Goes, q, f
<1>10. QED
  BY <1>2, <1>7, <1>8, <1>9, Places

LEMMA FinishRecord ==
  ASSUME K!CheckpointsAssumption, NightInv, K!Finish
  PROVE  Goes(cp, K!Finished(cp, at))
<1> DEFINE q == K!Finished(cp, at)
<1>1. /\ pc = "loop" /\ Live /\ Place = pc /\ Working /\ cp.iterations[at] >= K!Repeat(at)
  BY DEF K!Finish, Live, Place, Working
<1>2. /\ at \in K!Containers /\ at \notin cp.finished /\ cp \in K!Checkpoint /\ Form(cp)
      /\ cp.iterations \in [K!Containers -> 0..Rounds] /\ Rounds \in Nat \ {0}
  BY <1>1 DEF NightInv, K!TypeOK, Sane, PlaceInv, K!Checkpoint, K!CheckpointsAssumption, K!Good
<1>3. /\ SameRest(cp, q) /\ q.finished = cp.finished \cup {at} /\ q.plan = cp.plan
      /\ \A d \in K!Containers : q.iterations[d] = IF d = at THEN 0 ELSE cp.iterations[d]
  BY <1>2, FinishedShape
<1> HIDE DEF q
<1>4. SameRecord(cp, q)
  <2>1. CASE at = K!Around
    <3>1. cp.iterations[K!Around] = Rounds /\ Empty(cp)
      BY <1>1, <1>2, <2>1, Places DEF Form, K!Repeat
    <3>2. QED
      BY <1>2, <1>3, <2>1, <3>1, Places DEF SameRecord, RoundOf, InRound, Empty
  <2>2. CASE at # K!Around
    <3>1. at \in K!Targets => cp.iterations[at] = 1
      BY <1>1, <1>2, <2>2, Places DEF Form, K!Repeat
    <3>2. QED
      BY <1>2, <1>3, <2>2, <3>1, Places DEF SameRecord, RoundOf, InRound
  <2>3. QED
    BY <2>1, <2>2
<1>5. QED
  BY <1>3, <1>4 DEF Goes, SameRest, SameEnd, q

LEMMA CutRecord ==
  ASSUME K!CheckpointsAssumption, NightInv, NEW c \in K!Containers, K!CutShort(c)
  PROVE  Goes(cp, Cut(K!Finished(K!Forget(cp, c), c)))
<1> DEFINE f == K!Forget(cp, c)
           g == K!Finished(f, c)
           q == Cut(g)
<1>1. /\ Live /\ Place = pc /\ Working /\ pc \in {"action", "plan"}
      /\ (c = at \/ at \in K!Inside(c))
  BY DEF K!CutShort, K!SafePoint, Live, Place, Working
<1>2. cp \in K!Checkpoint /\ ~cp.ending
  BY <1>1 DEF NightInv, K!TypeOK, EndInv
<1>3. /\ f \in K!Checkpoint /\ SameRest(cp, f) /\ f.finished = cp.finished \ K!Inside(c)
      /\ \A d \in K!Containers :
           f.iterations[d] = IF d \in K!Inside(c) THEN 0 ELSE cp.iterations[d]
      /\ \A t \in K!Targets : f.plan[t] = IF t = c \/ t \in K!Inside(c) THEN 0 ELSE cp.plan[t]
  BY <1>2, ForgetShape
<1> HIDE DEF f
<1>4. /\ g \in K!Checkpoint /\ SameRest(f, g) /\ g.finished = f.finished \cup {c} /\ g.plan = f.plan
      /\ \A d \in K!Containers : g.iterations[d] = IF d = c THEN 0 ELSE f.iterations[d]
  BY <1>3, FinishedShape
<1> HIDE DEF g
<1>5. /\ SameEnd(g, q) /\ q.finished = g.finished /\ q.iterations = g.iterations /\ q.plan = g.plan
  BY <1>4 DEF Cut, K!Checkpoint, SameEnd
<1> HIDE DEF q
<1>6. q.ending = cp.ending
  BY <1>3, <1>4, <1>5 DEF SameRest, SameEnd
<1>7. CASE c = K!Start
  BY <1>3, <1>4, <1>5, <1>6, <1>7, Places DEF K!Inside, Goes, SameRecord, RoundOf, InRound, q, g, f
<1>8. CASE c \in K!Targets
  <2>1. RoundOf(q) = RoundOf(cp)
    BY <1>3, <1>4, <1>5, <1>8, Places DEF K!Inside, RoundOf
  <2>2. /\ \A t \in K!Targets \ {c} : InRound(q, t) = InRound(cp, t)
        /\ InRound(q, c) = Frames
    BY <1>3, <1>4, <1>5, <1>8, Places DEF K!Inside, InRound
  <2>3. QED
    BY <1>2, <1>6, <1>8, <2>1, <2>2 DEF Goes, q, g, f
<1>9. CASE c = K!Around
  <2>1. RoundOf(q) = Rounds
    BY <1>4, <1>5, <1>9 DEF RoundOf
  <2>2. \A t \in K!Targets : t \notin q.finished /\ q.iterations[t] = 0 /\ q.plan[t] = 0
    BY <1>3, <1>4, <1>5, <1>9, Places DEF K!Inside
  <2>3. \A t \in K!Targets : InRound(q, t) = 0
    BY <2>2 DEF InRound
  <2>4. QED
    BY <1>2, <1>6, <2>1, <2>3 DEF Goes, q, g, f
<1>10. QED
  BY <1>7, <1>8, <1>9, Places

\* What is saved after an action, a frame or a step of the end.
LEMMA ActRecord ==
  ASSUME K!CheckpointsAssumption, NightInv,
         K!Act \/ K!TakeFrame \/ K!BeginEnd \/ K!EndStep \/ K!Final
  PROVE  Goes(cp, cp')
<1>1. cp \in K!Checkpoint /\ cp.plan \in [K!Targets -> 0..Frames] /\ cp.ending \in BOOLEAN
  BY DEF NightInv, K!TypeOK, K!Checkpoint
<1>2. CASE K!TakeFrame
  <2>1. /\ pc = "plan" /\ Live /\ Place = pc /\ Working /\ cp.plan[at] < Frames
        /\ cp' = [cp EXCEPT !.plan[at] = @ + 1]
    BY <1>2 DEF K!TakeFrame, K!SaveThen, Live, Place, Working
  <2>2. at \in K!Targets /\ at \notin cp.finished /\ ~cp.ending /\ cp.iterations[at] < K!Repeat(at)
    BY <2>1 DEF NightInv, PlaceInv, EndInv
  <2>3. cp.iterations[at] # 1
    BY <2>2, Places DEF K!Repeat
  <2>4. /\ cp'.finished = cp.finished /\ cp'.iterations = cp.iterations /\ cp'.ending = cp.ending
        /\ cp'.plan = [cp.plan EXCEPT ![at] = cp.plan[at] + 1]
    BY <1>1, <2>1 DEF K!Checkpoint
  <2>5. RoundOf(cp') = RoundOf(cp)
    BY <2>4 DEF RoundOf
  <2>6. \A t \in K!Targets \ {at} : InRound(cp', t) = InRound(cp, t)
    BY <1>1, <2>2, <2>4 DEF InRound
  <2>7. InRound(cp, at) = cp.plan[at] /\ InRound(cp', at) = cp.plan[at] + 1
    BY <1>1, <2>2, <2>3, <2>4 DEF InRound
  <2>8. QED
    BY <2>1, <2>2, <2>4, <2>5, <2>6, <2>7 DEF Goes
<1>3. CASE K!Act \/ K!BeginEnd \/ K!EndStep \/ K!Final
  <2>1. /\ cp'.finished = cp.finished /\ cp'.iterations = cp.iterations /\ cp'.plan = cp.plan
        /\ cp.ending => cp'.ending
    BY <1>1, <1>3 DEF K!Act, K!BeginEnd, K!EndStep, K!Final, K!SaveThen, K!Checkpoint
  <2>2. QED
    BY <2>1 DEF Goes, SameRecord, RoundOf, InRound
<1>4. QED
  BY <1>2, <1>3

LEMMA RecordStep ==
  ASSUME K!CheckpointsAssumption, NightInv, RecordInv, K!Next
  PROVE  RecordInv'
<1>1. ASSUME NEW q, NEW n, K!SaveThen(q, n), pc \in {"action", "plan", "iterate", "loop", "beginEnd", "end", "final"},
             UNCHANGED disk, Goes(cp, q)
      PROVE  RecordInv'
  BY <1>1, SaveThenRecord DEF Live
<1>2. CASE K!Save
  <2>1. OnDisk' = cp' /\ pc' # "save"
    BY <1>2 DEF K!Save, OnDisk, NightInv, K!TypeOK, K!CheckpointsAssumption
  <2>2. QED
    BY <2>1 DEF RecordInv
<1>3. CASE K!Enter \/ K!Loop \/ K!PlanDone \/ K!Leave \/ K!SkipPlan
           \/ \E runEnd \in BOOLEAN : K!LeaveTargets(runEnd)
  <2>1. pc' # "save" /\ Live /\ disk' = disk
    BY <1>3 DEF K!Enter, K!Loop, K!PlanDone, K!Leave, K!SkipPlan, K!LeaveTargets, K!SafePoint, Live
  <2>2. cp'.ending = cp.ending
    BY <1>3 DEF K!Enter, K!Loop, K!PlanDone, K!Leave, K!SkipPlan, K!LeaveTargets, NightInv,
                K!TypeOK, K!Checkpoint
  <2>3. OnDisk' = OnDisk
    BY <2>1 DEF OnDisk
  <2>4. QED
    BY <2>1, <2>2, <2>3 DEF RecordInv
<1>4. CASE K!Act
  <2>1. K!SaveThen(cp', next') /\ UNCHANGED disk /\ pc = "action"
    BY <1>4 DEF K!Act, K!SaveThen
  <2>2. QED
    BY <1>1, <1>4, <2>1, ActRecord
<1>5. CASE K!TakeFrame \/ K!BeginEnd \/ K!EndStep \/ K!Final
  <2>1. K!SaveThen(cp', next') /\ UNCHANGED disk /\ pc \in {"plan", "beginEnd", "end", "final"}
    BY <1>5 DEF K!TakeFrame, K!BeginEnd, K!EndStep, K!Final, K!SaveThen
  <2>2. QED
    BY <1>1, <1>5, <2>1, ActRecord
<1>6. CASE K!Iterate
  BY <1>1, <1>6, IterateRecord DEF K!Iterate, Counted
<1>7. CASE K!Finish
  BY <1>1, <1>7, FinishRecord DEF K!Finish
<1>8. ASSUME NEW c \in K!Containers, K!CutShort(c) PROVE RecordInv'
  BY <1>1, <1>8, CutRecord DEF K!CutShort, K!SafePoint, Cut
<1>13. CASE K!SpoilFrame \/ K!Delete
  <2>1. UNCHANGED <<disk, cp, pc, next>>
    BY <1>13 DEF K!SpoilFrame, K!Delete
  <2>2. QED
    BY <2>1 DEF RecordInv, Live, OnDisk, Goes, SameRecord, RoundOf, InRound
<1>9. CASE K!Clear \/ K!Cancel \/ K!Crash \/ K!RecoverRefused \/ K!Boot
  BY <1>9 DEF K!Clear, K!Cancel, K!Crash, K!RecoverRefused, K!Boot, RecordInv, Live
<1>10. CASE K!StartRun
  <2>1. disk' = None /\ cp' = K!Fresh /\ pc' # "save"
    BY <1>10 DEF K!StartRun, NightInv, LifeInv, K!Good
  <2>2. QED
    BY <2>1, FreshProgress DEF RecordInv, OnDisk
<1>11. ASSUME NEW onlyEnd \in BOOLEAN, K!Recover(onlyEnd) PROVE RecordInv'
  <2>1. disk' = disk /\ disk # None /\ disk \in K!Checkpoint /\ cp' = K!Resumed(onlyEnd) /\ pc' # "save"
    BY <1>11 DEF K!Recover, NightInv, LifeInv, K!TypeOK, K!Good
  <2>2. disk.ending => K!Resumed(onlyEnd).ending
    BY <2>1, ResumedShape
  <2>3. QED
    BY <2>1, <2>2 DEF RecordInv, OnDisk
<1>12. QED
  BY <1>2, <1>3, <1>4, <1>5, <1>6, <1>7, <1>8, <1>9, <1>10, <1>11, <1>13 DEF K!Next, K!RunStep, K!Restart

\* Every step shows as a step of the night, or as none.
LEMMA NightShows ==
  ASSUME K!CheckpointsAssumption, NightInv, NightInv', RecordInv, K!Next
  PROVE  [K!TheNight!Next]_(K!TheNight!night)
<1>1. CASE life' \in {"over", "lost"}
  BY <1>1, OverStep
<1>2. CASE life' \notin {"over", "lost"}
  <2>1. life \notin {"over", "lost"} /\ ~K!Clear
    BY <1>2 DEF K!Next, K!RunStep, K!Restart, K!StartRun, K!Save, K!Enter, K!Loop, K!Act, K!TakeFrame,
                K!SpoilFrame, K!Delete, K!PlanDone, K!Iterate, K!Finish, K!Leave, K!SkipPlan, K!CutShort, K!LeaveTargets,
                K!BeginEnd, K!EndStep, K!Final, K!Clear, K!Cancel, K!Crash, K!Boot, K!Recover,
                K!RecoverRefused, K!world
  <2>2. CASE K!Save
    <3>1. OnDisk' = cp /\ pc = "save"
      BY <2>2 DEF K!Save, OnDisk, NightInv, K!TypeOK, K!CheckpointsAssumption
    <3>2. Goes(OnDisk, OnDisk')
      BY <3>1 DEF RecordInv
    <3>3. QED
      BY <1>2, <2>1, <3>2, KeptStep
  <2>3. CASE ~K!Save
    <3>1. disk' = disk
      BY <1>2, <2>1, <2>3 DEF K!Next, K!RunStep, K!Restart, K!StartRun, K!Enter, K!Loop, K!Act, K!TakeFrame,
                K!SpoilFrame, K!Delete, K!PlanDone, K!Iterate, K!Finish, K!Leave, K!SkipPlan, K!CutShort, K!LeaveTargets,
                K!BeginEnd, K!EndStep, K!Final, K!Cancel, K!Crash, K!Boot, K!Recover,
                K!RecoverRefused
    <3>2. OnDisk' = OnDisk
      BY <3>1 DEF OnDisk
    <3>3. Goes(OnDisk, OnDisk')
      BY <3>2 DEF Goes, SameRecord
    <3>4. QED
      BY <1>2, <2>1, <3>3, KeptStep
  <2>4. QED
    BY <2>2, <2>3
<1>3. QED
  BY <1>1, <1>2

\* The progress that is kept on disk only ever makes the steps of one night: frames are
\* done one by one, a target or a round is never undone, and nothing goes on once the end
\* began, whatever crashes and restarts come between (CheckpointFile, _forget_inside).
THEOREM KeptProgressIsANight == Spec => ImplementsNight
<1> DEFINE I == NightInv /\ RecordInv
<1>1. Init => I /\ K!TheNight!Init
  <2> SUFFICES ASSUME K!Init PROVE I /\ K!TheNight!Init
    BY DEF Init
  <2>1. NightInv /\ RecordInv
    BY SequenceRunsAssumption, NightInit DEF RecordInv, Live, K!Init
  <2>2. K!TheNight!Init
    BY DEF K!Init, K!TheNight!Init, K!TheNight!Nothing, K!DiskTaken, K!DiskRound, K!DiskPhase
  <2>3. QED
    BY <2>1, <2>2
<1>2. I /\ [Next]_vars => I' /\ [K!TheNight!Next]_(K!TheNight!night)
  <2> SUFFICES ASSUME I, [Next]_vars PROVE I' /\ [K!TheNight!Next]_(K!TheNight!night)
    OBVIOUS
  <2>1. CASE Night
    <3>1. NightInv'
      BY <2>1, SequenceRunsAssumption, NightStep DEF Night
    <3>2. RecordInv' /\ [K!TheNight!Next]_(K!TheNight!night)
      BY <2>1, <3>1, SequenceRunsAssumption, RecordStep, NightShows DEF Night
    <3>3. QED
      BY <3>1, <3>2
  <2>2. CASE Control \/ UNCHANGED vars
    <3>1. UNCHANGED nightVars
      BY <2>2 DEF Control, vars
    <3>2. NightInv'
      BY <3>1, NightUnchanged
    <3>3. UNCHANGED <<disk, cp, pc, at, next, life, crashes, resumes, stored, spoiled, endRan, left, gone>>
      BY <3>1 DEF nightVars
    <3>4. RecordInv'
      BY <3>3 DEF RecordInv, Live, OnDisk, Goes, SameRecord, RoundOf, InRound
    <3>5. UNCHANGED K!TheNight!night
      BY <3>3 DEF K!TheNight!night, K!DiskTaken, K!DiskRound, K!DiskPhase
    <3>6. QED
      BY <3>2, <3>4, <3>5
  <2>3. QED
    BY <2>1, <2>2 DEF Next
<1>3. QED
  BY <1>1, <1>2, PTL DEF Spec, ImplementsNight, K!ImplementsNight, K!TheNight!Spec
=============================================================================
