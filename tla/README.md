# NOCS in TLA+

NOCS runs an astronomical observatory from one small computer: `nocsd`, an asyncio server
in Python (`src/server/src/nocs`), drives INDI devices, PHD2 (guiding) and ASTAP (plate
solving); a web client shows its state; `nocs-system`, a privileged helper, owns the Wi-Fi,
drives, the clock and updates. This directory models the parts whose correctness depends on
the order in which things happen, checks them with TLC and proves some of it with TLAPS.

`nocsd` runs one callback at a time: code between two `await`s is atomic, and everything may
change at each `await`. Every module therefore has one action per stretch between two awaits
(and one per handler), and a `pc`, `at` or `stage` that names the await a task is at. Where
the code leaves the event loop (threads of `anyio.to_thread`, the worker process, the
helper, PHD2, indiserver), the other side has actions of its own.

## The system and what is modelled

All paths are below `src/server/src/nocs` unless they begin with `web/`.

| Part | State | Operations | Hard because | Module |
| --- | --- | --- | --- | --- |
| Jobs and locks, `jobs.py` | locks by resource, jobs, tasks, the published tree | start, cancel, reserve, release, suspend, resume, close | cancellation at any await, a job cancelled before it began, partial reservations | `LockTable`, `Jobs` |
| Run control, `sequence/runner.py`, `service.py`, `rig.py` | the run's state, what the user asked, its locks | start, pause, resume, stop, cancel, end | commands race the run and each other; the rig is lent and taken back | `GuidedRig`, `SequenceControl` |
| A plan and its recovery, the same files | rows done, the triggers' memory, where it pointed, the filter it knows | rows in turn, filter, flip, dither, focus, retry, skip, guard | time goes on in retries and pauses, in which users turn wheels and slew | `Imaging` |
| Progress, the same files | the checkpoint in memory and on disk | save after steps, clear, `recover` | crashes between any two awaits | `Night`, `Checkpoints` |
| Guiding, `guiding/service.py`, `phd2.py` | PHD2's state as heard, who starts, who holds the mount, calls under way | start, stop, guide, events, reconnect | answers and events of one connection, read later than written; three tasks; PHD2 dies | `Guiding`; `GuidedRig`, `SequenceControl` (who holds what) |
| State mirror, `state/store.py`, `api/app.py`, `web/src/lib/live.svelte.ts` | state, version, history, queues; the client's copy | commit, subscribe, resume, resync | slow clients, lost connections, restarts | `StateSync` |
| Wi-Fi, `system/network.py` | device, known networks, pinned mode, timers | join, forget, mode, access point, tick | operations in the middle of minutes-long steps; a wrong step cuts the owner off | `Network` |
| Slew pads and mount jobs, `mount/pad.py`, `mount/service.py` | motion, reservation, latch, deadline | apply, interrupt, stop, silence; go to, park, abort | an abort while a command is in flight, a driver that refuses to stop | `Motion` |
| Equipment, `equipment/service.py`, `indi/drivers.py` | connection, role status, drivers started | connect, disconnect, restart, list | long tasks overtaken by a disconnect, a lost indiserver, drivers that crash | `Equipment` |
| Frames and previews, `imaging/worker.py`, `capture.py` | frames in analysis, the pool, files, the frame kept | analyze, preview, keep, cancel | newest frame wins; a pool that dies under two waiters; cancelled jobs leave files | `Previews` |
| Saving frames, `storage/service.py`, `catalog.py` | the catalog, the night's volume, frames being written | save, keep unsaved, change the destination | drives that go, disks that fill up, crashes between moving and noting | `DriveUse`, `Saving` |
| Drives, `storage/service.py`, `system/operations.py` | mounted, tried and ejected drives | look, mount, eject | a slow helper, quick hands | `DriveUse`, `Drives` |
| Autofocus, `focus/` | position, the sweep, its points | sweep, extend, restore, abort | slack, moves that fail, cancellation in the middle | `Autofocus` |
| Solving, centring, polar alignment, `pointing/`, `align/` | the mount, the last solution, the axis | solve, sync, center, align | a mount that moves between the frame and its solution; frames that fail | `Pointing` |
| Flats, `calibration/flats.py` | exposure limits, filters, frames | search, measure, take | light that changes, bounds of a search | `Flats` |
| Filters, power, darks, masters | one job each | a command and a wait | sequential | not modelled |
| Solving, sky, targets, catalogs | none to speak of | pure functions, ASTAP as a process | numeric | not modelled |
| Auth, updates, clock, other services | tables and files | pair, apply, poll | mostly I/O | not modelled |
| Web client but the mirror, packaging, `dev/` | user interface, scripts | | | not modelled |

How they interact: every command that moves something is a job or a reservation of the job
manager; the sequence's job holds the main camera, the filter wheel, the focuser and the
mount, and lends them while it is paused; guiding holds the mount by a reservation of its
own unless the sequence's job holds it; pads and mount jobs hold it in turns; frames of any
job go through the one worker and are saved by the one storage service; whatever any of
them does is committed to the state store and streamed to the clients.

## Modules

* `LockTable` - what the locks promise: a free resource may be taken, a holder gives all of
  its own back. `Jobs` implements it.
* `Jobs` - `JobManager`. `locks` is `_locks`; `tasks` is `_tasks`; `taskState` is where the
  asyncio task is (`created`: not yet stepped, `done`: its done callback has not run).
  `published` and `order` are the published tree. A job's own work is left out: it may end
  at any time, with any outcome, and when asked to cancel it does.
* `GuidedRig` - the operators shared by what happens around the rig: the locks of three
  roles, lending and taking them back, and `GuidingService`'s hold of the mount
  (`_sync_mount_hold`, `_hold_mount`, `guide_under`). They are `Jobs`' operations on the
  owners that matter here, as functions of one record.
* `SequenceControl` - `Runner`, `SequenceService` and the two ways to start guiding. Steps
  are frames, slews, starts of guiding and waits, chosen at random: what they do is not this
  module's matter. A policy may pause or end the run (`PolicyPauses`, `PolicyEnds`).
* `Imaging` - `_plan`, `_attempt`, `_trigger`, `_flip` and `_guard` of `Runner`: a run that
  points at one target and takes the rows of a plan, under the policies of a sequence. `sky`
  is the target's hour angle and dawn, `pier` in the sum (`mount` here) the side of the pier
  the mount is on, `cp.pointed` whether the checkpoint has it pointed before the meridian,
  `run.filter` the filter the run knows, `run.flipping` and `run.guarded` the guard's fields.
  A step may fail with each kind of failure it has. `bounds.lapsed` and `bounds.late` record
  what excuses the guard: it failed or was overruled, or a slew across the meridian.
* `Night` - what a checkpoint promises: frames of each target are taken up to their count in
  each round, rounds follow each other, then the end, then nothing. It does not know crashes.
* `Checkpoints` - the run's progress through *start*, the repeated targets and *end*, the
  saves between them, crashes and `recover`. `cp` is the checkpoint in memory, `disk` the
  file; its fields `cut` and `waived` are history and not in the file. `TakeFrame` stores a
  frame that is counted; `SpoilFrame` one whose step fails or is dropped after it was stored
  (clouds, a lost guide star, a stop or pause now while it is measured), which is not.
  `Delete` removes the definition of a run that is not under way: `recover` then removes the
  checkpoint, and the end never runs.
* `SequenceRuns` - `SequenceControl` or `Checkpoints`: the sum of the two, for one run.
* `Guiding` - `GuidingService` and `Phd2Client`. `asked` are the calls on their way to PHD2,
  `wire` the answers and events on their way back, `svc` the service with its three tasks
  (a start, a stop, `run`) and `ready`, the event loop's queue. `Reads` takes any number of
  lines in one turn of the reader, before the tasks they wake have theirs: that is how an
  answer comes to be older than what has been heard since. `phd` is PHD2.
* `StateSync`, `MCStateSync` - `StateStore`, one subscription, the stream and the client's
  `Live`. `past` keeps the state of every version, of which the code keeps the last. `Branches` are
  the nodes of the tree, `holder` the patch whose value a node is: a change below a node is
  written in that patch, wherever it waits (`store.py:152`).
  A client that meets a gap closes the socket; `NoGap` says that it never does.
* `Network` - the Wi-Fi actor of the helper, the owner's operations, NetworkManager and a
  phone. The access point's settings are numbered: `settings` is what the owner chose,
  `keyfile` what is in the connection file, `onAir` what the access point runs with.
* `Motion`, `MCMotion` - the pads (`Pad`), a mount job, an abort and the driver. `queue` are
  commands on their way to the driver, `axis` what it does, `holder` who has the mount.
* `Equipment` - `EquipmentService`: a pass (`_connect` and each role's `_connect_role`), a
  disconnect, a restart of a driver and a listing, over drivers that may crash and an
  indiserver that may be lost. `up` counts the copies of a driver that run, `parting` is where a
  disconnect is. A pass may fail (`PassFails`), and what a disconnect is waiting for when
  indiserver goes decides what becomes of it (`PartingsLeft`).
* `Previews` - `ImageWorker` and what `CaptureService` does around it. `stage` is where the
  `_preview` of each frame is, `holder` and `waiters` the camera's lock, `pool` the pool's
  generation.
* `RigServices`, `MCRigServices` - `Equipment` or `Previews`, for one run.
* `DriveUse` - what saving and ejecting promise each other: a drive is not ejected while a
  frame is being saved to it, nor saved to while it is being ejected. `Saving` and `Drives`
  both implement it, each with its own steps, the other's steps being `DriveUse`'s.
* `Drives`, `MCDrives` - looking for drives, mounting them one by one, ejecting, and the
  helper, which does one operation at a time and may do it after nobody waits for it.
* `Saving`, `MCSaving` - `StorageService.save` in its steps (choose, admit, place, note, lock
  the night), drives and disks underneath, `keep_unsaved`, and restarts of `nocsd`.
* `Autofocus` - `AutofocusService` and `sweep`: a focuser with slack, moves
  that fail or never end, moves by hand, cancellation and the way back.
* `Pointing`, `Flats`, `CameraJobs`, `MCCameraJobs` - `PointingService`, `CenteringService`
  and `PolarAlignmentService` on a sky that is a ring of directions; `FlatsService` with
  light in steps of the exposure; and the sum of the two, `Imaging` and `Autofocus`: the locks let
  one of these jobs run at a time, and they share no other state. In `Pointing`, `kept` is the
  frame behind the preview: `Arrive` takes it, with the sky of then, and `Analysed` reads the
  mount's position, any number of slews later. In `Flats`, `files` are the file in hand and
  one that was left over. `Parts` says which of the four a run explores.
* `Jobs_proofs`, `StateSync_proofs`, `SequenceRuns_proofs`, `RigServices_proofs`,
  `CameraJobs_proofs`, `Network_proofs`, `Motion_proofs` - the theorems about the module each is
  named after; `Storage_proofs` - those about `Saving`, `Drives` and `DriveUse`.

Names with an underscore (`Release_LeaksLocks`) are mutants: the definition before the
underscore with a plausible bug. Each shows that the property it is listed with in
`PROJECT.json` depends on that piece of code.

## Runs

`tlc -config <cfg> <module>` in this directory.

| Run | Config, module | Question | Bounds |
| --- | --- | --- | --- |
| `jobs` | `Jobs.cfg`, `Jobs` | Are locks held only by live owners and whole? Is the lock table implemented? Do cancel and close take effect? | 2 jobs, 2 reservations, 2 resources, 1 finished job kept |
| `sequence_runs` | `SequenceRuns.cfg`, `SequenceRuns` | Does the run work only while it holds the rig? Is any command lost? What do crashes repeat, lose or reorder? | 1 step of *end*, two roles users may take; 1 target of 2 frames, 2 rounds, 2 crashes, 1 counted restart, 1 frame whose try came to nothing |
| `guiding` | `Guiding.cfg`, `Guiding` | Does a stop stop PHD2, is a start ever ended by old news, does every command end? | 4 commands and crashes in all, 2 attempts at a star |
| `state_sync` | `StateSync.cfg`, `MCStateSync` | Does a client ever show what the server did not have at that version or since, miss a patch, or fail to catch up? | 3 keys, 2 of them below one node; 4 commits, history 2, queue 2, 1 message on the wire, 1 restart, 1 break |
| `network` | `Network.cfg`, `Network` | Is the owner ever forgotten, disobeyed or locked out? | 2 networks, 2 operations, grace of 2 and 1 ticks, retry after 1 |
| `motion` | `Motion.cfg`, `MCMotion` | Is the mount ever left moving, or moved by two? Does silence stop it? | 1 pad, 2 directions of an axis, 1 fault |
| `rig_services` | `RigServices.cfg`, `MCRigServices` | Is a driver left running, a dead device called ready, a file left over, a frame shown after a newer one, a pass or a disconnect that does not end? | 1 driver with 2 roles, 2 faults, 3 requests; 5 frames, 2 of them of jobs, another workflow, 1 death of the worker, 2 previews kept |
| `drives` | `Drives.cfg`, `MCDrives` | Is a drive ejected under a frame, left marked, or left unmounted? | 2 drives, 1 request to eject at a time, 2 plugs and unplugs, 1 fault |
| `saving` | `Saving.cfg`, `MCSaving` | Does the catalog name what is there, and is any frame lost? | 2 frames of one night, 2 drives, 3 moves of drives, 2 upsets (full, failing, crashes) |
| `pointing` | `Pointing.cfg`, `MCCameraJobs` | Is a sync right, and what the jobs find there, beside frames of loops that are analysed while the mount moves on? | `Pointing` alone: the ring and slews of `camera_jobs`, 1 frame of a loop, 1 fault |
| `camera_jobs` | `CameraJobs.cfg`, `MCCameraJobs` | Is what these jobs find there, are the points of a sweep where they say, does the focuser come back, are frames begun as they should be, is the mount kept from its pier, and do the jobs end? | a ring of 3, 3 slews, 1 retry, 1 turn, 2 faults, no frames of loops; 2 filters, 3 frames each, exposures of 12 steps, 2 faults; rows of 4 and 1 frames in batches of 2, 6 hours around the meridian, 2 sets of policies, 2 failures, 1 hand; a focuser of 9 positions, sweeps of 5 points with 2 extensions, slack and overshoot of 1, from either side, 2 faults |

Why these bounds are enough to be interesting: two jobs and two reservations allow a job
suspended while another takes its resources, and one finished and trimmed. The queue and the
history of the state are smaller than the number of commits, so that both overflow, and the
wire is one message long, so that the sender is stopped between any two. Two crashes are one
more than the restarts that are counted; with 2 targets of 2 frames in 2 rounds, which takes a
little longer, the same properties hold. Two networks and two operations allow an operation
in the middle of every step of the actor that another one began. Four commands are a start
and a stop that race and a second pair after them. Five frames are one analysed, one that
waits, one that replaces it, and two of jobs. Two frames are two that are saved side by
side, and one after another. The overshoot takes up the slack, as the code
asks of it, and the best focus lies on one side, so that a sweep is extended. The ring and the
filters are as small as a loop of corrections, and a search with an interval to halve, allow.
Rows of 4 and 1 frames in batches of 2 are a turn that comes back to a row whose batch is over;
two failures are a retry that fails, one hand is a pause or what the user does in a pause that
a policy asked for. With two hands and an hour more, in a run of `Imaging` alone, the same properties hold.

`CHECK_DEADLOCK FALSE` stands where the system stops: job identifiers run out (`Jobs`), a
night that is over (`SequenceRuns`), requests, frames and faults that are bounded (the
others).

Type invariants are stated in every module and hold; they are in no run, for none of the
code's hazards is about them (those of `Jobs`, `StateSync`, `Network` and `Motion` are
theorems, and those of the other modules with proofs are part of their invariants). So do
`GuidingRegainsMount` and `PhasesGoForward` (`SequenceControl`), `EndedWork`
(`Checkpoints`), and `NoSharedDevice`, `TreeIsRecent` and `OutcomeIsFinal` (`Jobs`, proved).

### Fairness

* `Jobs`: the event loop steps ready tasks and runs done callbacks; a task asked to cancel
  ends. A job need not end by itself. `close` is not fair until it is called.
* `SequenceControl`: the run's own task and PHD2's guide steps. Every step of a run has a
  timeout or ends with its device; saving ends. Users need not act.
* `Checkpoints`: the run's task, and systemd that restarts `nocsd`. Crashes are finite, and so
  are the frames whose tries come to nothing: a sky that stays cloudy for ever is left out.
* `Guiding`: PHD2 goes on, what it writes is read, ready tasks have their turns, a connection
  that broke is made again, and waits run out: one fairness condition for all of the former,
  for the steps of one are never blocked by those of another. Users need not act.
* `StateSync`: the sender, TCP and the client's reconnection. Nobody need commit.
* `Network`: the actor outlives any bad tick and every command it runs ends (`nmcli --wait`).
  Strong fairness for three outcomes that depend on NetworkManager: it does not refuse for
  ever to answer, to start the access point or to stop it. Networks, phones and
  NetworkManager's own connections come and go without any fairness.
* `Motion`: handlers go on, the driver does or refuses what it is told, a slew ends or times
  out, and the deadline of a pad whose client is gone passes. Clients need not send.
* `Equipment`: tasks go on, for each of their waits has a time limit; drivers that run define
  their devices; indiserver, which systemd keeps, can be reached again.
* `Previews`: the worker answers or dies, and threads that delete files end.
* `Drives`: the helper answers, the poll wakes, and tasks go on. No fairness for hands.
* `Autofocus`: the motor turns and the job's steps end. That a move never ends is a step
  too: the job's time limit.
* `Pointing`, `Flats`: a job's commands and frames end or time out; the Sun moves.
* `Imaging`: steps end, waits run out and time passes. Users need not resume.
* `Saving` states safety only.

`SequenceRuns`, `CameraJobs` and `RigServices` take the fairness of the modules they are
made of; for `CameraJobs` it is one condition for the steps of whichever job is at work, and one for
what it waits for (the Sun, time, the motor), which is the same: a behaviour has one job.

### What the runs found

One run expects a violation: the code does what the comment quoted in `PROJECT.json` says it
does not.

`bad_clean_after_stop`. `GuidingService._start_guiding` subscribes to
PHD2's messages (`guiding/service.py:564`) before it waits for `_commands`. A start made
while a stop holds that lock hears both events that tell that the stopped capture ended,
asks PHD2 to loop, and takes the second event for the end of its own loop: it fails with
"PHD2 stopped looping". The comment at `guiding/service.py:790` says that reading the
events under the lock keeps the next start from just that. Starts made after the stop has
returned are right: `CleanStart`, in the run `guiding`.

Further disagreements between the code and what is written about it are stated at the ends of
their modules and have no run; put the property in a config of that module, or of the sum it is in (with `MaxKept = 1` for
`KeptFrameIsTrue`), to see its trace.

* `SequenceControl`. `OnlyCancelCancels`: stopping guiding by hand while the run starts to
  guide cancels the run's own job. `EndIsTried`: a checkpoint that cannot be saved ends the run
  without the rest of *end*. `PausedMountHeld`: a refused resume has let go of the mount PHD2
  guides. `EndHoldsRig`: a stopped run whose rig cannot be taken back runs *end* without it
  (`sequence/service.py:8-9`). `StopWaivesEnd`: a stop that waives *end* is overtaken by a step
  that fails, and *end* runs (`sequence/runner.py:394`). `SlewUnguided`: guiding begun by hand
  in a pause goes on under the run's slews (ADR 0031:92).
* `Imaging`. `FlipsFirst`: a frame that is tried again, under clouds for as long as they last,
  is begun past the flip point, for `_attempt` does not ask the flip trigger again
  (`sequence/model.py:386`); the default policies are enough for it. `WheelHolds`: nor does it
  choose the filter again after a pause between two tries (`sequence/runner.py:112`).
  `NeverIntoThePier`: the guard sleeps through a flip that is paused; a centring that crosses
  the meridian is noted as pointed after it, and one dropped after its slew not at all
  (`sequence/runner.py:753`). `StillMeansBefore`: a flip tried again after its centring failed
  beyond the meridian, or after the user flipped, is refused as not done (`sequence/rig.py:498`).
* `Checkpoints`. `FramesNeverRepeated`: a frame stored and not yet counted is taken
  again (ADR 0031:74); `NightIsWhole` says how often. `RestartsLimited`: restarts that crash
  before their first save are not counted (ADR 0032:77-78). `CrashKeepsRun`: nothing is on disk
  before the first step ended (ADR 0031:69-70); a run whose definition was deleted is left
  aside there, for `recover` gives it up. `CancelledStaysOver`: a cancelled run keeps its
  checkpoint and comes back with the next start (`sequence/service.py:11-12`); closing `nocsd`
  cancels jobs too, and then it must. `RunRecovered`: `recover` does not try again when the rig
  is taken (`sequence/service.py:13`).
* `StateSync`. `ShowsPast`: `StateStore._apply` puts the value of a patch itself in the tree
  (`state/store.py:152`), and the patch, declared frozen (`:29`), waits in queues and in the history. A later
  change below that node (`equipment/service.py:661`, after the whole of it was set at `:650`)
  is written in it: a client that is behind, or that reconnects, shows a part of a later
  version. The next patches bring the rest, which is why `Mirror` holds: of each key the client
  shows what the server had at the version it names or since.
* `Network`. `JoinTried`: a network accepted while another is being joined is never tried.
  `PhoneNotCutOff`: a phone that associates during the scan for known networks loses the
  access point.
* `Motion`. `ClosedLetsGo`: a pad that closes has a time limit for its stop and the abort
  after it; when they take longer, it keeps the mount (ADR 0015, `mount/pad.py:219`). And, seen
  while modelling and proving, what `orphan` stands for: the command of a pad that an abort
  interrupts may fail after the abort, and then nothing stops the mount again
  (`mount/pad.py:103`); a pad's own stop and abort are answered by the switches another's abort
  sets, the driver refuses them later, and nobody is told (three faults and a longer backlog
  show it); a stop is dropped with the connection to indiserver, while the stop that follows
  the reconnection leaves the mount to the pad that holds it.
* `Equipment`. `DisconnectIsDone`: a command to a device after indiserver was lost raises
  `ConnectionError` (`indi/client.py:215`), which `_disconnect_device` does not catch
  (`equipment/service.py:411`): the profile stays disconnecting, can be neither connected nor
  disconnected, and the drivers NOCS started are not stopped, which a disconnect promises
  (`:262`). One whose task is cancelled while it waits for the one before it (`:388`) is lost
  too. `PassesEnd` says that both need the loss of indiserver. `DisconnectedIsQuiet`: a role's connection that ends while the profile is being
  disconnected shows "ready" afterwards (`equipment/service.py:262`). Events of devices that
  go are not looked at during a pass; a driver that both a listing and a pass start is started
  twice; a driver given up and started by hand again is not stopped by a disconnect.
* `Previews`. `PreviewIsNewest`: a preview is published after a thread has deleted the
  file of the frame before it, and a newer one may be published meanwhile (ADR 0012).
* `Drives`. `EjectedStays`: between the helper's unmounting a drive and its answer, a look at
  the drives finds it unmounted and mounts it again (`docs/user/troubleshooting.md:73`).
  `EjectsWait`: two requests to eject one drive share one mark; when the first gives up, a
  frame may be saved under the second (`docs/v0.1/phase-6.md:27`; take `Ejects = {e1, e2}`).
* `Saving`. `NeverSwitched`: a drive that goes between choosing and placing a frame leaves
  the mount point behind, on the internal disk (ADR 0013). A cancelled job whose frame cannot
  be saved leaves it in the incoming directory.
* `Autofocus`. `BacklashSeen`: after an extension the first points in order of position are
  not the first taken (`focus/sweep.py:220`); with `SlackSetups` a sweep whose first points do
  not move is fitted. A job cancelled while it moves back stops where it is.
* `Pointing`. `KeptFrameIsTrue`: `_preview` reads the mount's position after the analysis of the
  frame (`imaging/capture.py:867`; "recorded when it arrived", `pointing/solve.py:22`), and loops and
  exposures do not hold the mount: after a slew in between, `sync` to the solution of that frame
  finds that the mount has not moved, and tells it that it points where it pointed before.
  `SyncIsTrue` excuses just that. `BinningIsOnce`: a cancelled job leaves the binning it chose for one frame
  (`pointing/solve.py:119`). The last solution is synced also when the mount was moved to and
  fro, or drifted, since (`pointing/solve.py:19`).
* `Flats`. `NoFileLeft`: `_finish` reads the facts of a frame outside its `try`
  (`imaging/capture.py:627`), so that a camera that goes while a flat is measured leaves its file in
  the incoming directory; a cancel while a thread claims or writes the file (`:781`, `:790`; "nobody
  will use it", `:786`) does too. The jobs end all the same (`JobsEnd`), and delete every file they
  know of. `AllIsDone`: a filter that has all its flats may be shown as ended by the twilight
  (`api/schemas.py:951`).
* `Guiding`. `Follows`: an answer that arrived with the news that made it stale is applied
  after them, and may stay (`guiding/service.py:12`). A cancelled start asks PHD2 to stop and
  does not wait for it, so that the next command meets the news: `Orderly` names the captures
  of which this is not so, and `StopIsStop` and `CleanStart` are about those.

## Proofs

Theorems are proved for every value of the constants that meets the module's assumption
(`JobsAssumption`, `StateSyncAssumption`, `DriveUseAssumption`, `DrivesAssumption`,
`SavingAssumption`, `ControlAssumption`, `CheckpointsAssumption`, `SequenceRunsAssumption`,
`EquipmentAssumption`, `PreviewsAssumption`, `RigServicesAssumption`, `NetworkAssumption`,
`MotionAssumption`, `PointingAssumption`, `FlatsAssumption`, `ImagingAssumption`,
`CameraJobsAssumption`, `AutofocusAssumption`): names differ from each other and from "nobody", bounds are natural
numbers, and the sizes and waits the code takes from its settings are positive. Only
`NightsTogether` and `FindingsAreThere` have a hypothesis of their own, named below. The bounds on faults, crashes and
requests are constants too, so a theorem is about any number of them.

`tlapm Jobs_proofs.tla`, for any jobs, reservations and resources:

* `TypeCorrect` - `Spec => []TypeOK`.
* `NoLockLeaks`, `LocksAreWhole`, `Exclusion` - locks are held by live owners, whole, and by
  one at a time. The inductive invariant adds what they rest on: a resource's owner is a job
  published as unfinished or a reservation in use; a suspended job holds nothing; jobs whose
  task is gone are finished.
* `TreeCorrect` - the published tree holds every unfinished job and at most `KeepFinished`
  of the finished ones, the newest.
* `OneOutcome` - an action property, from the same invariant.
* `Implementation` - every step of `Jobs` is a step of `LockTable` or leaves the locks.

`tlapm StateSync_proofs.tla`, for any keys, values and changes, any sizes of the history, the
queue and the wire, and any number of commits, restarts and broken connections:

* `TypeCorrect`, and `ClientShowsBetween`, the first half of `Mirror`. Its invariant is `Right`:
  what a message sets, wherever it is, the server had at the version it names or has had
  since, and what a patch leaves alone did not change with that version. That is kept
  whatever the order of the messages, and the client's check for a gap does the rest.
* `ClientMirrors` and `NeverAGap`, the invariants `Mirror` and `NoGap` of the run
  `state_sync`. They rest on `Order`: the wire starts where the client is and ends with
  `last`; from there the missed patches, and then the queue, lead to the present version
  without a gap, unless the queue says that patches are gone. It is also why `patches_since`,
  which looks at the oldest version of the history only, never returns a history with a hole.

`tlapm Storage_proofs.tla`, for any frames, nights, drives, requests to eject them, callers of
the helper and any number of crashes and unplugged drives:

* `DriveUse` is what `StorageService._lock` makes of `_ejecting` and `_writing`, two fields that
  two tasks test and set. What follows is about these marks. It is not about what
  nocs-system does when a request timed out and its mark is gone, or a second request for
  the same drive has the same mark: then a drive may be unmounted under a frame (`EjectsWait`).
* `DrivesImplementUse` - each step of looking, mounting and ejecting is one of `DriveUse` or
  leaves its variables. The invariant it needs says where a caller is and that only drives
  are asked for.
* `CatalogTrue` - a frame that has a row in the catalog is where the row says, unless its drive
  went while it was being moved there. A frame that was moved and got no row (a crash, a
  failed `add_frame`) is not covered: the catalog does not find it. The invariant (`IInv`) ties where a frame's thread is
  (`thread.at`) to where its file is (`loc`) and whether it is in the catalog (`rows`): before
  "catalog" it is not in it, at "catalog" it is at the volume the thread chose.
* `SavingImplementsUse` - each step of saving is one of `DriveUse`; `SavingLeavesEjected`: no
  frame is being saved to a drive that is marked as being ejected.
* `FramesKept` - a frame whose job ended by itself stays on a volume or aside. `KeptInv` says,
  of a frame at each step of `save` and `keep_unsaved`, where its file is or why it may be
  nowhere, and it is carried by a relation on one frame (`Turned`: where its file and its
  row may go in a step), so that each step is argued once and not once per place.
* `NightsTogether` - the frames of a night stay on one drive. `TogetherInv` is `Ordered`
  (frames of a night are saved in the order they are taken, so that only the last is under
  way), `LockAgrees` (the lock of the night in the configuration names the volume of its last
  frame, or no frame was placed), and what a thread has `Noted` and `Follows`. Its
  hypothesis `NightsInOrder`: the nights of `Night` are numbered in the order their frames are
  taken, which is how the code names them, by their date.

`tlapm SequenceRuns_proofs.tla`, for any roles users take, any plan and any number of crashes:

* `RunHoldsRig` - `RigIsHeld`. The invariant `ControlInv` ties the run's place (`await`,
  `doing`) to who holds what: while the task runs and is not paused the rig is whole, while it
  is paused all of it is lent, and in between it is being taken back; guiding's hold on the
  mount has a guiding that runs, or a start of it that is awaited, as its reason; the run's
  own start of guiding exists only in the step that asked for it. The lemmas about `Take`,
  `SyncMountHold`, `Lend` and `TakeBack` say what each keeps of the rig.
* `CrashesKeepNight` - `NightIsWhole`. `NightInv` says that the progress in memory and on disk
  is well formed and true (`Sane`), and of each target that at most as many frames are stored
  as the progress vouches for (`Credit`), plus one per crash, one between storing and
  counting, and those whose own try came to nothing (`spoiled`). Nor do these count for what a
  run that nothing cut short has taken when its end begins. The invariant for the disk is the same as for memory: a restart makes one of the other.
* `KeptProgressIsANight` - `ImplementsNight`: what is on disk, read as rounds and frames, makes
  only the steps of `Night`, which knows no crash, save nor pass. `RecordInv` says that the progress in
  memory is a step of `Night` ahead of the disk, or none (`Goes`).

`tlapm RigServices_proofs.tla`, for any drivers, roles, files and any number of faults:

* `RolesAreThere` - `ReadyIsThere`, from `EquipmentInv`: which tasks there may be at once (one pass or
  parting, `AloneInv`; `TasksInv` for what each has asked indiserver), that a role shown as
  ready or unresponsive has a device that is there (`LiveInv`, `UnresponsiveInv`) unless it went while nobody looked (`missed`: during a pass, or while its driver was
  restarted), and that a driver that runs is one NOCS started and will stop (`OursInv`).
  Nothing is said once a driver was restarted beside a pass or a disconnect (`crossed`).
* `LeftBehind` - `NothingLeft`, from `OursInv` and from `PreviewsInv`: frames come, are analysed
  and are shown in one order (`OrderInv`), the frame kept behind the preview is on disk
  (`KeptInv`), every file of theirs in the incoming directory has an owner (`FilesInv`) and every
  preview on disk is remembered, will be deleted, or was finished by the worker for a job that
  was cancelled in the middle (`strays`; `JpgsInv`), whence the bound of the others. Of drivers
  the same excuse `crossed` stands; what an exposure leaves, and files once saved, are not looked at.
* `NewestIsKept` - an action property, `KeptForward`, from `OrderInv`.

`tlapm Network_proofs.tla`, for any networks, waits and number of requests:
`SettingsRemembered`. `SettingsNotForgotten` is inductive with `StartingInv`: while the access
point is being started, what was written before is the newest, or the actor has been told
to start it again.

`tlapm Motion_proofs.tla`, for any pads, directions, any backlog and number of faults:

* `StartsAreLatched` - `SlewsAlone`, from `CallsInv`, which says what each actor may have sent
  and still waits for at each place of its code (`PadOf`, `PhaseOf`), and who holds the mount:
  a start on its way while a job holds the mount, and still waited for, is of a latched pad.
  That the pad's stop arrives, and starts nobody waits for any longer, are not its matter.
* `NothingLeftMoving` - `NeverLeftMoving`, with its excuses: a pad holds the mount, somebody was
  told (`warned`), or one of the three ways out that `orphan` stands for (above, under
  `Motion`, and in the module). It is a property of the driver and of the pads, and
  what keeps it is between them: commands in `queue`, answers, calls not yet sent.
  `WatchInv` says of every axis that moves, or will when what is under way arrives
  (`MovesWatched`), and of every mount that is let go (`ReleasesWatched`), that somebody still has
  to stop it (`Attends`): a move that was not answered, a stop or an abort whose command has not been
  carried out, a handler that has heard a refusal. The rest is that nobody who attends
  goes away without a stop that arrives, a warning, or what `orphan` stands for.

`tlapm CameraJobs_proofs.tla`, for any plan and policies, any directions and errors of the
mount, any panels, any sweep and gears and any number of faults. Each theorem says of the sum what one
of its four parts does, and that the steps of the others leave that part alone:

* `ImagingIsRight` - `ImagingHolds`. `ImagingInv` has `PierInv`, which ties what the guard knows
  (`run.flipping`, `run.guarded`, `cp.pointed`) to the side of the pier the mount is on and to the hour
  angle, with the two excuses of `bounds`; `WheelInv`, that the wheel is where the run thinks
  unless it turns or the run is paused; `StepsInv`, which steps may be tried again; and `RowsInv`, that a row
  is never past its count, from which, over the circle of rows, it follows that they take turns.
* `FramesBeginRight` - the action property `FramesAreRight`, from `WheelInv` and `PierInv`: no
  frame after dawn; and none that is begun for the first time through another filter than its
  row's, past the flip point unflipped, or after a stop of the guard. Of a frame that is tried
  again the latter are false (`WheelHolds`, `FlipsFirst`).
* `SyncKnows` - the action property `SyncIsTrue`, of frames whose position is the one they were
  taken at and a mount whose error did not change since. `PointingInv` says at each place of a solving
  job what it knows of where the mount was when its frame began (`Working`), and of the mount as it is now.
  Under it is the arithmetic of a ring of any size: differences and sums modulo `Ring`.
* `FindingsAreThere` - `FoundIsThere`. Of a centring (`Centring`): once a frame is solved, the
  next slew comes to the target, but for jolts, so that the centred are there. Of an
  alignment (`Aligning`): between slews only the knobs move what it sees. Of the flats search on a
  panel (`Searching`): each miss comes nearer by what its answer told, and the misses left are
  enough for the distance left (`Near`). This is where the hypothesis `SearchIsLongEnough`
  comes in: the limits of the exposure are at most some six decades apart for the eight
  misses of the code (`calibration/flats.py:46`); a plan's own limits, 0.01 and 60 s, are under
  four, and with limits further apart the search may give up on a panel it could have met.
* `FocuserComesBack` - the action property `ComesBack`. `PlaceInv` says of the job at each
  place where its moves lead (`Aim`: the next position, the best one or the start), and that the
  motor rests at its aim when the job has ended.
* `PointsAreThere` - `PointsAreTrue`, from `SweepInv`: a sweep of which the first position is
  approached from beyond has taken up the slack wherever it exposes (`Takes`). It is kept by moves in
  the direction, by moves that come from beyond (`ComesTo`), and at the end of the travel,
  where beyond is clipped and the optics cannot lag.

What proof attempts changed. Three ghosts, variables only properties read, said less
than they should: `loose` in `Saving` (a night whose drive was chosen anew), `ours` in
`Equipment`, and `orphan` in `Motion`, where each failed step was a
behaviour of the code no bounded run had met (above, under `Motion`).

Only model-checked:

* `Guiding` (`StopIsStop`, `CleanStart`): not yet proved, see the plan.
* All liveness, `JobsEnd`, `PinObeyed` and `CommandsTakeEffect` among it: fairness and `ENABLED` are out of
  the prover's reach. So is induction over data: what a recursive definition computes for
  every input cannot be proved here. Recursion, where a module has any, is a recursive function.

## Not modelled, and simplifications

The modules stand for about a seventh of the implementation's lines. The rest is for the most
part schemas and routing (`api/`), parsing and writing of FITS, XML, SQL and PHD2's settings,
numerics (the image pipeline, catalogs, ephemerides, plate solving), adapters over INDI
properties, and services that poll the operating system: sequential code whose meaning is in
its data, which a model would restate. Behind these limits, per module:

* The three sums hold modules that do not meet: of `SequenceControl` and `Checkpoints` each
  abstracts what the other is about; `Equipment` and `Previews` share nothing; the jobs of
  `Pointing`, `Flats`, `Autofocus` and `Imaging` exclude each other by their locks (`Jobs`), and
  a move of the focuser by hand, which does not, shares nothing with the others. A behaviour of a sum is
  a behaviour of one of its modules, and the other's variables keep their initial values.
* `Jobs`: progress messages and the JSON of a job. `StateSync`: paths nested more than
  once, several clients (subscriptions do not affect each other), revocation.
* `SequenceControl`, `Checkpoints`: what the steps of a run do; what `recover` reads before its
  wait and uses after it. `Imaging`: one target and one plan; plans in turn, the recenter
  trigger, autofocus for other reasons than its filter, the recovery of devices, the new
  calibration after a flip, and flips without centring; pauses come at safe points or at
  once, and their races with the run are `SequenceControl`'s.
* `Guiding`: dithering, exposures, settings, the equipment PHD2 connects, the statistics, and
  a hand at PHD2's own window. `PHD2` answers in order and settles or gives up.
* `Network`: passwords, countries, hidden networks; a helper that restarts in the middle
  starts in any state of the Wi-Fi instead, and the device read by `nmcli` just before it
  changes is left out.
* `Motion`: the rates and both axes at once; site, time and the meridian.
* `Equipment`: what a facade configures, profiles, the parsing of INDI.
* `Previews`: exposing, live view and the guide camera; the analysis itself.
* `Saving`, `Drives`: uploads and their claims, deletions, queries, FITS headers; a look at
  the drives that finds nothing new is no step.
* `Autofocus`: the fit is the lowest point, or none. `Pointing`: directions are a ring, for
  right ascension; declination, horizons and geometry are left out, a turn of a knob moves
  what the camera sees by as much; a sync of the last solution is one step. `Flats`: light is
  counted in steps of the exposure; darks and the library of masters are left out.

Every listed hazard has a property that is about it. Where the code falls short of one, the
property is the part that holds, and what does not hold is among the disagreements above.

## Plan

Done: the job manager, the state mirror, drives and saving with their proofs; the run's
control, its plan with the meridian guard, its checkpoints, guiding, the Wi-Fi, pads,
equipment, previews, autofocus, solving and flats. Still to do, in order of importance:

1. Proofs: `Guiding` (`StopIsStop`, from which news of PHD2 is still on its way at each
   place of a start and a stop).
2. `Recovery`: `recover` with its wait and the user's commands meanwhile, composed with
   `Jobs`' operators.
3. Dithering and the settings of PHD2, next to `Guiding`; the other triggers and the recovery
   of devices, in `Imaging`.
4. The INDI bridge's mirror, and updates.
