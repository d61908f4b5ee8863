-------------------------------- MODULE Flats --------------------------------
(***************************************************************************)
(* The flats wizard (nocs.calibration.flats, calibration.twilight): for     *)
(* each filter, the exposure that puts a frame's level at the target is     *)
(* searched from one frame to the next, and the frames in the band are      *)
(* kept, on a panel or on the twilight sky, whose light changes meanwhile.  *)
(*                                                                          *)
(* Exposure and light are powers of the root of two: an exposure e in light *)
(* l gives the level e + l, 0 at the target, which is half of full scale,   *)
(* clipped from 2 and black from Black below the target; ten times is about *)
(* seven steps.  The pedestal is exact, and the trend counts only between   *)
(* kept frames that follow each other.                                      *)
(***************************************************************************)
EXTENDS Integers, Sequences

CONSTANTS
  Filters,     \* of the plan: is it narrowband, the light through it from a panel and the sky
  Count,       \* flats wanted of each
  Shortest, Longest, First,    \* exposures of the plan: limits and first try
  Black,       \* steps below the target that tell nothing about the light
  MaxMisses,   \* MAX_MISSES
  Sunset,      \* the Sun's steps: 0 before the twilight, Sunset after it
  Odd,         \* changes of the light that nobody expects: clouds, lamps, a panel warming up
  MaxFaults    \* bound: these, and frames, commands and measurements that fail

Clip == 2
Ten == 7
NoKept == 99
Phases == {"dusk", "dawn"}

\* Assumed in CameraJobs.
FlatsAssumption ==
  /\ Filters \in Seq([narrow : BOOLEAN, panel : Int, sky : Int]) /\ Filters # <<>>
  /\ {Shortest, Longest, First} \subseteq Nat /\ Shortest < Longest
  /\ {Count, MaxMisses, Sunset} \subseteq Nat \ {0} /\ {Black, MaxFaults} \subseteq Nat
  /\ 0 \in Odd /\ Odd \subseteq Int

VARIABLES
  sky,      \* the phase, how far the Sun is, and the odd change of the light
  run,      \* the job and its progress, filter by filter
  files,    \* is there a file of the frame at hand, and one left that nobody will delete?
  faults

vars == <<sky, run, files, faults>>

None == [source |-> "none", at |-> "idle", i |-> 1, order |-> <<>>, done |-> <<>>, state |-> <<>>,
         e |-> 0, level |-> 0, misses |-> 0, trend |-> 0, before |-> NoKept, wanted |-> 0,
         outcome |-> "none"]

Init ==
  /\ sky \in [phase : Phases, sun : {0}, odd : {0}]
  /\ run = None /\ files = {} /\ faults = 0

Fault == faults < MaxFaults /\ faults' = faults + 1
At(s) == run.at = s

----------------------------------------------------------------------------
(* The light, and the exposures that follow from a level *)

Light(f) ==
  sky.odd + (IF run.source = "panel" THEN f.panel
             ELSE IF sky.phase = "dusk" THEN f.sky - sky.sun ELSE f.sky + sky.sun)

Clamped(e) == IF e < Shortest THEN Shortest ELSE IF e > Longest THEN Longest ELSE e
InLimits(e) == e \in Shortest..Longest

\* next_exposure: a clipped frame divides by ten, a black one multiplies by ten.
NextExposure(e, level, trend) ==
  IF level >= Clip THEN e - Ten ELSE IF level <= - Black THEN e + Ten ELSE e - level - trend

\* The band of levels that are kept is twice as wide on the sky.
InBand(r) == IF r.source = "sky" THEN r.level \in -1..1 ELSE r.level = 0

\* (Mutant) The limit need not have been tried.
OutOfReach_Untried(r) == ~InLimits(r.wanted)

\* _out_of_reach
OutOfReach(r) ==
  \/ r.level < 0 /\ ~InBand(r) /\ r.e >= Longest /\ r.wanted > Longest
  \/ r.level > 0 /\ ~InBand(r) /\ r.e <= Shortest /\ r.wanted < Shortest
  \/ r.source = "sky" /\ ~InLimits(r.wanted)

\* _time_helps
TimeHelps(r) == IF sky.phase = "dusk" THEN r.wanted < r.e ELSE r.wanted > r.e

\* _sky_open: the Sun has not gone below SUN_LOW at dusk, above SUN_HIGH at dawn.
SkyOpen == sky.sun < Sunset

\* twilight.ordered: at dusk the filters that pass the least light go first, at dawn last.
Narrow(f) == f.narrow
Broad(f) == ~f.narrow
Ordered(fs) ==
  IF sky.phase = "dusk" THEN SelectSeq(fs, Narrow) \o SelectSeq(fs, Broad)
  ELSE SelectSeq(fs, Broad) \o SelectSeq(fs, Narrow)

----------------------------------------------------------------------------
(* The job *)

\* What becomes of the filters that are not finished when the job fails or is cancelled.
Unfinished(r, outcome) ==
  [k \in DOMAIN r.state |-> IF r.state[k] \in {"pending", "running"} THEN outcome ELSE r.state[k]]

Stopped(r, outcome) ==
  [None EXCEPT !.source = r.source, !.order = r.order, !.done = r.done, !.at = "over",
               !.state = Unfinished(r, outcome), !.outcome = outcome]
Fails == Fault /\ run' = Stopped(run, "failed")

\* The frame's file is deleted or moved, or left where it is.
Deleted == files \ {"frame"}
Left == Deleted \cup {"left"}

\* A filter ends; the exposure it leaves is the next one's first.
Ends(r, state, e) ==
  LET ended == [r EXCEPT !.state[r.i] = state] IN
  IF r.i = Len(r.order)
  THEN [ended EXCEPT !.at = "over",
          !.outcome = IF \A k \in DOMAIN ended.state : ended.state[k] = "failed"
                      THEN "failed" ELSE "succeeded"]
  ELSE [ended EXCEPT !.i = @ + 1, !.state[r.i + 1] = "running", !.at = "select", !.e = e,
                       !.level = 0, !.wanted = 0, !.misses = 0, !.trend = 0, !.before = NoKept]

Loop(r, e) ==
  IF r.done[r.i] = Count THEN Ends(r, "done", e)
  ELSE [r EXCEPT !.at = "take", !.e = Clamped(e), !.level = 0, !.wanted = 0]

\* What _filter does after a frame.
Decided(r) ==
  IF OutOfReach(r)
  THEN IF r.source = "sky" /\ TimeHelps(r)
       THEN IF SkyOpen THEN [r EXCEPT !.at = "wait", !.level = 0] ELSE Ends(r, "failed", r.e)
       ELSE IF r.source = "sky" /\ r.done[r.i] > 0 THEN Ends(r, "ended", r.wanted)
       ELSE Ends(r, "failed", r.e)
  ELSE IF r.misses >= MaxMisses THEN Ends(r, "failed", r.e)
  ELSE Loop(r, r.wanted)

\* run, and the first thing it does: on the sky, wait for the twilight.
Start(source) ==
  /\ At("idle")
  /\ run' = [None EXCEPT !.source = source, !.at = IF source = "sky" THEN "sun" ELSE "configure",
                         !.order = Filters, !.done = [k \in DOMAIN Filters |-> 0],
                         !.state = [k \in DOMAIN Filters |-> "pending"], !.e = First,
                         !.outcome = "running"]
  /\ UNCHANGED <<sky, files, faults>>

\* _open_sky: the twilight is over, or it is waited for.
OpenSky ==
  /\ At("sun")
  /\ \/ sky.sun = Sunset /\ run' = Stopped(run, "failed")
     \/ sky.sun \in 1..(Sunset - 1) /\ run' = [run EXCEPT !.at = "slew"]
  /\ UNCHANGED <<sky, files, faults>>

\* The mount slews to the flat spot and stops tracking; the camera is configured; the filter
\* is selected and the focuser moved.
Step(from, to) ==
  /\ At(from)
  /\ \/ run' = to /\ UNCHANGED faults
     \/ Fails
  /\ UNCHANGED <<sky, files>>

Prepare ==
  \/ Step("slew", [run EXCEPT !.at = "untrack"])
  \/ Step("untrack", [run EXCEPT !.at = "configure", !.order = Ordered(Filters)])
  \/ Step("configure", [run EXCEPT !.at = "pedestal"])
  \/ Step("select", [run EXCEPT !.at = "take", !.e = Clamped(@)])

\* _pedestal: its frame is always deleted, once it is taken.
Pedestal ==
  /\ At("pedestal")
  /\ \/ /\ run' = [run EXCEPT !.at = "select", !.state[1] = "running"]
        /\ UNCHANGED <<files, faults>>
     \/ Fails /\ files' \in {Deleted, Left}
  /\ UNCHANGED sky

\* _take: a frame that cannot be written leaves what there is of its file.
Take ==
  /\ At("take")
  /\ \/ /\ run' = [run EXCEPT !.at = "level", !.level = run.e + Light(run.order[run.i])]
        /\ files' = files \cup {"frame"} /\ UNCHANGED faults
     \/ Fails /\ files' \in {Deleted, Left}
  /\ UNCHANGED sky

\* (Mutant) A frame that could not be measured is not deleted.
Level_Forgets ==
  /\ At("level")
  /\ \/ /\ InBand(run) /\ run' = [run EXCEPT !.at = "keep"]
        /\ UNCHANGED <<files, faults>>
     \/ /\ ~InBand(run)
        /\ run' = Decided([run EXCEPT !.misses = IF @ < MaxMisses THEN @ + 1 ELSE @,
                             !.wanted = NextExposure(run.e, run.level, run.trend)])
        /\ files' = Deleted /\ UNCHANGED faults
     \/ Fails /\ UNCHANGED files
  /\ UNCHANGED sky

\* The frame is measured: in the band it is kept, else deleted, as it is when measuring fails.
Level ==
  /\ At("level")
  /\ \/ /\ InBand(run) /\ run' = [run EXCEPT !.at = "keep"]
        /\ UNCHANGED <<files, faults>>
     \/ /\ ~InBand(run)
        /\ run' = Decided([run EXCEPT !.misses = IF @ < MaxMisses THEN @ + 1 ELSE @,
                             !.wanted = NextExposure(run.e, run.level, run.trend)])
        /\ files' = Deleted /\ UNCHANGED faults
     \/ Fails /\ files' = Deleted
  /\ UNCHANGED sky

\* keep: the frame is saved.  Two kept frames tell how the light changes.
Kept(r) ==
  LET light == r.level - r.e
      trend == IF r.source = "panel" \/ r.before = NoKept \/ r.misses > 0 THEN 0
               ELSE light - r.before
  IN Decided([r EXCEPT !.done[r.i] = @ + 1, !.misses = 0, !.before = light, !.trend = trend,
                       !.wanted = NextExposure(r.e, r.level, trend)])
\* Storage moves a frame that it cannot save (module Saving), if it can.  One whose camera went
\* while it was measured does not come to that: its facts are read first.
Keep ==
  /\ At("keep")
  /\ \/ run' = Kept(run) /\ files' = Deleted /\ UNCHANGED faults
     \/ Fails /\ files' \in {Deleted, Left}
  /\ UNCHANGED sky

Wait ==
  /\ At("wait")
  /\ run' = Loop(run, run.wanted)
  /\ UNCHANGED <<sky, files, faults>>

\* A cancel deletes the frame's file, but not while a thread writes, moves or saves it: that
\* goes on, and nobody takes its result.
Cancel ==
  /\ run.at \notin {"idle", "over"}
  /\ run' = Stopped(run, "cancelled")
  /\ files' \in {Deleted} \cup (IF run.at \in {"pedestal", "take", "keep"} THEN {Left} ELSE {})
  /\ UNCHANGED <<sky, faults>>

Over ==
  /\ At("over")
  /\ run' = None
  /\ UNCHANGED <<sky, files, faults>>

\* The sky, and a cloud, or a panel that flickers.
SunMoves ==
  /\ sky.sun < Sunset
  /\ sky' = [sky EXCEPT !.sun = @ + 1]
  /\ UNCHANGED <<run, files, faults>>

LightChanges ==
  /\ Fault
  /\ \E odd \in Odd \ {sky.odd} : sky' = [sky EXCEPT !.odd = odd]
  /\ UNCHANGED <<run, files>>

Steps == OpenSky \/ Prepare \/ Pedestal \/ Take \/ Level \/ Keep \/ Wait \/ Over

Next ==
  \/ Steps \/ Cancel \/ SunMoves \/ LightChanges
  \/ \E source \in {"panel", "sky"} : Start(source)

Spec == Init /\ [][Next]_vars

\* Commands and frames end, and so does the twilight.
FairSpec == Spec /\ WF_vars(Steps) /\ WF_vars(SunMoves)

----------------------------------------------------------------------------

TypeOK ==
  /\ sky \in [phase : Phases, sun : 0..Sunset, odd : Odd]
  /\ run.level \in Int /\ run.e \in Int /\ files \subseteq {"frame", "left"}
  /\ \A k \in DOMAIN run.done : run.done[k] \in 0..Count

\* On a panel of steady light that some exposure within the limits brings to the target, the
\* search finds it: no filter fails unless something else did (flats.py:3).
Reachable(f) == InLimits(- f.panel)
SearchFinds ==
  run.source = "panel" /\ faults = 0 =>
    \A k \in DOMAIN run.state : run.state[k] = "failed" => ~Reachable(run.order[k])

\* A job ends, whatever the light does, and then each of its filters has an outcome and the
\* frame that it measured last is deleted or saved, unless a file was left on the way
\* (flats.py:376).
Final == \A k \in DOMAIN run.state : run.state[k] \notin {"pending", "running"}
Ended == At("over") /\ Final /\ "frame" \notin files
FlatsEnd == ~At("idle") ~> Ended

\* Disagreements: "ended: the twilight left the limits after some flats" (api/schemas.py:951),
\* not after all of them; and "cancelled: nobody will use it" (imaging/capture.py:786), where
\* only one of three awaits deletes the file.
AllIsDone == \A k \in DOMAIN run.state : run.state[k] = "ended" => run.done[k] < Count
NoFileLeft == "left" \notin files
=============================================================================
