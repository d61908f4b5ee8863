------------------------------- MODULE Guiding -------------------------------
(***************************************************************************)
(* Starting and stopping PHD2 over its connection (nocs.guiding.service,   *)
(* nocs.guiding.phd2): three tasks of nocsd that ask PHD2 and hear its     *)
(* events on one socket.                                                   *)
(*                                                                         *)
(*   start   the job of a guide command: loop, wait for a frame, find a    *)
(*           star, guide, wait until PHD2 has settled                      *)
(*   stop    a stop command, with the lock _commands                       *)
(*   sync    run, the task that stays connected and asks for PHD2's state  *)
(*           whenever _changed is set                                      *)
(*                                                                         *)
(* Calls go to PHD2 in order (asked) and its answers and events come back  *)
(* in order (wire), but a task that an answer or an event wakes runs only  *)
(* when its turn comes (ready, the event loop's queue), and the reader may *)
(* have handled later messages that came with them by then: an answer can  *)
(* be older than what the service has heard since.                         *)
(*                                                                         *)
(* PHD2's equipment is connected all along.  LostLock counts as Guiding    *)
(* and Selected as Looping; Paused, dithers, what else holds the mount     *)
(* (GuidedRig) and the user at PHD2's window are left out.                 *)
(***************************************************************************)
EXTENDS Naturals, Sequences, SequencesExt

CONSTANTS
  MaxActs,   \* how many commands the user gives and how often PHD2 dies, together
  Attempts   \* FIND_STAR_ATTEMPTS

VARIABLES
  phd,    \* PHD2
  asked,  \* calls on their way to it, in order
  wire,   \* its answers and events, in order
  svc,    \* GuidingService and its tasks
  acts    \* how many commands and crashes there were
vars == <<phd, asked, wire, svc, acts>>

GuidingStates == {"Calibrating", "Guiding"}
States == {"Stopped", "Looping"} \cup GuidingStates
Tasks == {"start", "stop", "sync"}

\* Events are records, so that an answer and an event never look alike.
Event(name) == [event |-> name]
Answer(task, method, value) == [to |-> task, method |-> method, value |-> value]
AppStateIs(state) == [event |-> "AppState", state |-> state]

Tell(m) == wire' = Append(wire, m)
TellBoth(m, k) == wire' = wire \o <<m, k>>

----------------------------------------------------------------------------
(* PHD2.  state is what get_app_state answers; ending says what a stop     *)
(* still has to bring: the end of the exposure, then, after guiding, the   *)
(* end of the loop.  Ghosts: askers, who asked for the last end; after,    *)
(* who asked for the one before this capture began; alone, whether a       *)
(* capture began after an end that only a start asked for.                 *)

FreshPhd2(up, calibrated) ==
  [up |-> up, state |-> "Stopped", ending |-> "no", settling |-> FALSE, calibrated |-> calibrated,
   lost |-> FALSE, askers |-> {}, after |-> {}, alone |-> FALSE]

\* stop_capture answers at once; the capture ends later.
Ending(by) ==
  IF phd.state = "Stopped" THEN phd
  ELSE [phd EXCEPT !.ending = "exposure",
                   !.askers = IF phd.ending = "exposure" THEN @ \cup {by} ELSE {by}]

Begun == [phd EXCEPT !.lost = FALSE, !.after = phd.askers, !.alone = @ \/ phd.askers = {"start"}]

Looping == [Begun EXCEPT !.state = "Looping", !.settling = FALSE]

BeginGuiding ==
  [Begun EXCEPT !.state = IF phd.calibrated THEN "Guiding" ELSE "Calibrating", !.settling = TRUE]

BeginEvent(p) == Event(IF p.state = "Guiding" THEN "StartGuiding" ELSE "StartCalibration")

\* PHD2 takes the next call.  A round trip takes longer than the turns of the tasks that
\* are ready.
Takes ==
  /\ asked # <<>> /\ phd.up /\ svc.ready = <<>>
  /\ asked' = Tail(asked)
  /\ LET call == Head(asked)
         Ok == Answer(call.by, call.method, "ok")
     IN \/ /\ call.method = "get_app_state"
           /\ Tell(Answer(call.by, call.method, phd.state))
           /\ UNCHANGED phd
        \/ /\ call.method = "loop"
           /\ phd' = Looping
           /\ Tell(Ok)
        \/ /\ call.method = "find_star"
           /\ \E found \in IF phd.state = "Looping" THEN {"ok", "error"} ELSE {"error"} :
                Tell(Answer(call.by, call.method, found))
           /\ UNCHANGED phd
        \/ /\ call.method = "guide"
           /\ phd' = BeginGuiding
           /\ TellBoth(Ok, BeginEvent(phd'))
        \/ /\ call.method = "stop_capture"
           /\ phd' = Ending(call.by)
           /\ Tell(Ok)
        \/ /\ call.method = "get_calibration_data"
           /\ Tell(Ok)
           /\ UNCHANGED phd
  /\ UNCHANGED <<svc, acts>>

\* The exposure that was being taken ends: PHD2 tells that guiding stopped, and
\* that its loop did a moment later.
ExposureEnds ==
  /\ phd.ending = "exposure"
  /\ phd' = [phd EXCEPT !.state = "Stopped", !.settling = FALSE, !.lost = FALSE,
                        !.ending = IF phd.state \in GuidingStates THEN "loop" ELSE "no"]
  /\ Tell(Event(IF phd.state \in GuidingStates THEN "GuidingStopped" ELSE "LoopingExposuresStopped"))
  /\ svc' = [svc EXCEPT !.start.ended = TRUE]
  /\ UNCHANGED <<asked, acts>>

LoopEnds ==
  /\ phd.ending = "loop"
  /\ phd' = [phd EXCEPT !.ending = "no"]
  /\ Tell(Event("LoopingExposuresStopped"))
  /\ UNCHANGED <<asked, svc, acts>>

\* A frame takes longer than a message and a task's turn do.
Quiet == asked = <<>> /\ wire = <<>> /\ svc.ready = <<>>
Exposing(state) == phd.up /\ phd.state = state /\ phd.ending # "exposure" /\ Quiet

\* Each frame tells: a star that is lost while calibrating stays lost, and PHD2 gives up
\* settling by itself.  Shorter losses and calibration steps change nothing.
Frame ==
  /\ \/ /\ Exposing("Looping")
        /\ Tell(Event("LoopingExposures"))
        /\ UNCHANGED phd
     \/ /\ Exposing("Calibrating") /\ ~phd.lost
        /\ phd' = [phd EXCEPT !.state = "Guiding", !.calibrated = TRUE]
        /\ TellBoth(Event("CalibrationComplete"), Event("StartGuiding"))
     \/ /\ Exposing("Calibrating") /\ ~phd.lost
        /\ phd' = [phd EXCEPT !.state = "Looping", !.settling = FALSE]
        /\ Tell(Event("CalibrationFailed"))
     \/ /\ Exposing("Calibrating")
        /\ phd' = [phd EXCEPT !.lost = TRUE]
        /\ Tell(Event("StarLost"))
     \/ /\ Exposing("Guiding") /\ phd.settling
        /\ phd' = [phd EXCEPT !.settling = FALSE]
        /\ \E name \in {"SettleDone", "SettleFailed"} : Tell(Event(name))
     \/ /\ Exposing("Guiding") /\ ~phd.settling
        /\ Tell(Event("GuideStep"))
        /\ UNCHANGED phd
  /\ UNCHANGED <<asked, svc, acts>>

\* PHD2 dies: what it wrote before arrives, then the end of the stream.
Crash ==
  /\ phd.up /\ acts < MaxActs
  /\ phd' = FreshPhd2(FALSE, phd.calibrated)
  /\ asked' = <<>>
  /\ wire' = IF svc.link THEN Append(wire, Event("Closed")) ELSE wire
  /\ svc' = [svc EXCEPT !.start.ended = TRUE]
  /\ acts' = acts + 1

Restarted ==
  /\ ~phd.up /\ ~svc.link
  /\ phd' = [phd EXCEPT !.up = TRUE]
  /\ UNCHANGED <<asked, wire, svc, acts>>

----------------------------------------------------------------------------
(* The service's synchronous parts, as functions from svc to svc *)

Wake(s, t) == IF Contains(s.ready, t) THEN s ELSE [s EXCEPT !.ready = Append(@, t)]

Starting(s) == s.start.pc \notin {"Idle", "Begins"}
Guides(s) == Starting(s) \/ s.app \in GuidingStates

\* _sync_mount_hold, with the mount free of other jobs: mount is NOCS's hold of it.
SyncMountHold(s) ==
  [s EXCEPT !.mount = IF Guides(s) THEN @ \/ s.known ELSE FALSE]

SetChanged(s) ==
  LET c == [s EXCEPT !.changed = TRUE] IN IF s.sync.pc = "Rest" THEN Wake(c, "sync") ELSE c

\* What waits on _idle is woken even when _idle is cleared before its turn.
SetIdle(s) ==
  LET i == [s EXCEPT !.idle = TRUE]
  IN IF s.stop.pc = "Wait" THEN Wake([i EXCEPT !.stop.got = "idle"], "stop") ELSE i

\* _set_app_state
SetAppState(s, state, wake) ==
  LET i == IF state = "Stopped" THEN SetIdle(s) ELSE [s EXCEPT !.idle = FALSE]
      n == SyncMountHold([i EXCEPT !.app = state])
  IN IF state = s.app THEN i
     ELSE IF wake /\ s.app # "Stopped" /\ state = "Stopped" THEN SetChanged(n) ELSE n

StateOfEvent ==
  [e \in {"LoopingExposures"} |-> "Looping"]
  @@ [e \in {"LoopingExposuresStopped", "GuidingStopped"} |-> "Stopped"]
  @@ [e \in {"StartCalibration"} |-> "Calibrating"]
  @@ [e \in {"StartGuiding", "GuideStep"} |-> "Guiding"]
QueryEvents == {"CalibrationComplete", "CalibrationFailed"}

\* _on_event.  A guide step also takes the mount when a job has let it go.
OnEvent(s, m) ==
  LET n == IF m.event = "GuideStep" /\ ~s.mount THEN SyncMountHold(s) ELSE s
  IN IF m.event = "AppState" THEN SetAppState(n, m.state, TRUE)
     ELSE IF m.event \in DOMAIN StateOfEvent THEN SetAppState(n, StateOfEvent[m.event], TRUE)
     ELSE IF m.event \in QueryEvents THEN SetChanged(n)
     ELSE n

\* The queues of a start (from its beginning on, also while it waits for
\* _commands) and of a stop (which looks for the end of the loop only).
Listens(s) == s.start.pc \in {"Lock", "Loop", "Frame", "Find", "Guide", "Main", "Read", "GiveUp"}
EndsLoop(m) == m.event \in {"LoopingExposuresStopped", "Closed"}

Deliver(s, m) ==
  LET a == IF Listens(s) THEN [s EXCEPT !.start.queue = Append(@, m)] ELSE s
      b == IF s.start.pc \in {"Frame", "Main"} THEN Wake(a, "start") ELSE a
      c == IF s.stop.pc \in {"Capture", "Wait", "Tail"} /\ EndsLoop(m)
           THEN [b EXCEPT !.stop.heard = TRUE] ELSE b
  IN IF s.stop.pc = "Tail" /\ EndsLoop(m) THEN Wake(c, "stop") ELSE c

\* Phd2Client: the calls of a connection that closed fail.
CallOf ==
  [pc \in {"Loop"} |-> "loop"] @@ [pc \in {"Find"} |-> "find_star"] @@ [pc \in {"Guide"} |-> "guide"]
  @@ [pc \in {"Read"} |-> "get_calibration_data"]
  @@ [pc \in {"Undo", "GiveUp", "Capture"} |-> "stop_capture"]
  @@ [pc \in {"State", "Ask"} |-> "get_app_state"]
Pending(s, t) == s[t].pc \in DOMAIN CallOf /\ s[t].got = "no"
Resolve(s, t, value) == Wake([s EXCEPT ![t].got = value], t)

Fails(s, t) == IF Pending(s, t) THEN Resolve(s, t, "gone") ELSE s

\* (Mutant) The calls of a lost connection wait on.
FailPending_Leaves(s) == s

FailPending(s) == Fails(Fails(Fails(s, "start"), "stop"), "sync")

\* _handle: an answer nobody waits for any more is dropped.
Handled(s, m) ==
  IF "to" \in DOMAIN m
  THEN IF Pending(s, m.to) /\ CallOf[s[m.to].pc] = m.method THEN Resolve(s, m.to, m.value) ELSE s
  ELSE IF m.event = "Closed" THEN Deliver(SetChanged(FailPending([s EXCEPT !.link = FALSE])), m)
  ELSE Deliver(OnEvent(s, m), m)

\* _read_loop: the reader takes the lines that have come, as many as that is, in one
\* turn; the tasks they wake have their turns after it.
Reads ==
  /\ wire # <<>> /\ svc.ready = <<>>
  /\ LET after[n \in 0 .. Len(wire)] == IF n = 0 THEN svc ELSE Handled(after[n - 1], wire[n])
     IN \E n \in 1 .. Len(wire) :
          /\ wire' = SubSeq(wire, n + 1, Len(wire))
          /\ svc' = after[n]
  /\ asked' = IF svc'.link THEN asked ELSE <<>>
  /\ UNCHANGED <<phd, acts>>

----------------------------------------------------------------------------
(* The tasks: each step is one turn, from an await to the next *)

Turn(t) == svc.ready # <<>> /\ Head(svc.ready) = t
Rested == [svc EXCEPT !.ready = Tail(@)]

\* A call of a task in state s, which waits at pc for the answer.
Calls(s, t, pc) ==
  /\ asked' = Append(asked, [by |-> t, method |-> CallOf[pc]])
  /\ svc' = [s EXCEPT ![t].pc = pc, ![t].got = "no"]

Becomes(s) == svc' = s /\ UNCHANGED asked

NoStart ==
  [pc |-> "Idle", got |-> "no", queue |-> <<>>, tries |-> 0, lost |-> FALSE, cancelled |-> FALSE,
   waited |-> FALSE, ended |-> FALSE, result |-> "none"]

\* start's finally, with the end of the job; result is a ghost.
StartOver(s, result) == Becomes(SyncMountHold([s EXCEPT !.start = [NoStart EXCEPT !.result = result]]))

\* A start fails when PHD2 is gone.
StartCalls(s, pc) == IF s.link THEN Calls(s, "start", pc) ELSE StartOver(s, "gone")

\* The job of a guide command; it runs when its turn comes.
Guide ==
  /\ acts < MaxActs /\ svc.link /\ svc.start.pc = "Idle"
  /\ acts' = acts + 1
  /\ Becomes(Wake([svc EXCEPT !.start = [NoStart EXCEPT !.pc = "Begins"]], "start"))
  /\ UNCHANGED <<phd, wire>>

\* It waits for a message, unless there is one.
Waits(s, pc) ==
  LET w == [s EXCEPT !.start.pc = pc, !.start.got = "no"]
  IN Becomes(IF w.start.queue = <<>> THEN w ELSE Wake(w, "start"))

\* The rest of a start once it has _commands: the mount, then loop or guide.
Connected(s) ==
  LET c == [s EXCEPT !.start.pc = "Lock", !.start.ended = FALSE]
      h == [c EXCEPT !.mount = TRUE]
  IN IF ~s.link THEN StartOver(c, "gone")
     ELSE IF s.app \in GuidingStates THEN StartCalls(h, "Guide")
     ELSE IF s.app = "Looping" THEN Waits(h, "Frame")
     ELSE StartCalls(h, "Loop")

StartBegins ==
  /\ Turn("start") /\ ~svc.start.cancelled
  /\ \/ /\ svc.start.pc = "Begins" /\ svc.stop.pc # "Idle"
        /\ Becomes([Rested EXCEPT !.start.pc = "Lock", !.start.waited = TRUE])
     \/ /\ svc.start.pc = "Begins" /\ svc.stop.pc = "Idle"
        /\ Connected(Rested)
     \/ /\ svc.start.pc = "Lock"
        /\ Connected(Rested)
  /\ UNCHANGED <<phd, wire, acts>>

\* A turn goes on to the next message when one is there.
Hears(pc, m) == Turn("start") /\ ~svc.start.cancelled /\ svc.start.pc = pc /\ svc.start.queue # <<>>
                /\ m = Head(svc.start.queue)
Heard(s) ==
  LET t == [s EXCEPT !.start.queue = Tail(@)]
  IN IF t.start.queue = <<>> THEN [t EXCEPT !.ready = Tail(@)] ELSE t
HeardAll == [svc EXCEPT !.start.queue = Tail(@), !.ready = Tail(@)]

\* _next_frame
StartFrame ==
  /\ svc.start.queue # <<>>
  /\ LET m == Head(svc.start.queue)
     IN /\ Hears("Frame", m)
        /\ CASE m.event = "LoopingExposures" -> StartCalls(HeardAll, "Find")
             [] m.event = "LoopingExposuresStopped" -> StartOver(HeardAll, "stopped")
             [] m.event = "Closed" -> StartOver(HeardAll, "gone")
             [] OTHER -> Becomes(Heard(svc))
  /\ UNCHANGED <<phd, wire, acts>>

\* Nothing of the kind is on its way.
NoneComing(events) ==
  \A i \in 1 .. Len(wire) : "event" \in DOMAIN wire[i] => wire[i].event \notin events

FrameNews == {"LoopingExposures", "LoopingExposuresStopped", "Closed"}

\* A frame takes at most its exposure and FIRST_FRAME_MARGIN; other events do not
\* prolong the wait.
StartNoFrame ==
  /\ svc.start.pc = "Frame" /\ ~svc.start.cancelled
  /\ phd.state # "Looping" /\ phd.ending = "no"
  /\ NoneComing(FrameNews)
  /\ \A i \in 1 .. Len(svc.start.queue) : svc.start.queue[i].event \notin FrameNews
  /\ StartOver([svc EXCEPT !.ready = Remove(@, "start")], "failed")
  /\ UNCHANGED <<phd, wire, acts>>

StartAnswered ==
  /\ Turn("start") /\ ~svc.start.cancelled /\ svc.start.pc \in DOMAIN CallOf
  /\ LET s == Rested
         at == svc.start.pc
     IN IF at \in {"Undo", "GiveUp"} THEN StartOver(s, IF at = "Undo" THEN "cancelled" ELSE "failed")
        ELSE IF svc.start.got = "gone" THEN StartOver(s, "gone")
        ELSE CASE at = "Loop" -> Waits(s, "Frame")
               [] at = "Guide" -> Waits(s, "Main")
               [] at = "Read" -> StartOver(s, "ok")
               [] at = "Find" /\ svc.start.got = "ok" -> StartCalls(s, "Guide")
               [] at = "Find" /\ svc.start.got = "error" ->
                    IF svc.start.tries = Attempts - 1 THEN StartOver(s, "failed")
                    ELSE Waits([s EXCEPT !.start.tries = @ + 1], "Frame")
  /\ UNCHANGED <<phd, wire, acts>>

\* _guide_steps' main loop.  The star has been lost for LOST_WHILE_CALIBRATING when the
\* next message comes.
StartMain ==
  /\ svc.start.queue # <<>>
  /\ LET m == Head(svc.start.queue)
     IN /\ Hears("Main", m)
        /\ IF svc.start.lost THEN StartCalls(HeardAll, "GiveUp")
           ELSE CASE m.event = "SettleDone" -> StartCalls(HeardAll, "Read")
                  [] m.event \in {"SettleFailed", "CalibrationFailed"} -> StartOver(HeardAll, "failed")
                  [] m.event \in {"GuidingStopped", "LoopingExposuresStopped"} ->
                       StartOver(HeardAll, "stopped")
                  [] m.event = "Closed" -> StartOver(HeardAll, "gone")
                  [] m.event = "StarLost" -> Becomes(Heard([svc EXCEPT !.start.lost = TRUE]))
                  [] OTHER -> Becomes(Heard(svc))
  /\ UNCHANGED <<phd, wire, acts>>

\* A cancelled start that has begun stops whatever began.
StartCancelled ==
  /\ Turn("start") /\ svc.start.cancelled
  /\ LET s == [Rested EXCEPT !.start.cancelled = FALSE]
     IN IF svc.start.pc \in {"Begins", "Lock"} \/ ~svc.link THEN StartOver(s, "cancelled")
        ELSE Calls(s, "start", "Undo")
  /\ UNCHANGED <<phd, wire, acts>>

\* PHD2 answers stop_capture before anyone cancels again.
CancelStart(s) ==
  IF s.start.pc \in {"Idle", "Undo"} THEN s ELSE Wake([s EXCEPT !.start.cancelled = TRUE], "start")

Cancel ==
  /\ acts < MaxActs /\ svc.start.pc \notin {"Idle", "Undo"} /\ ~svc.start.cancelled
  /\ acts' = acts + 1
  /\ Becomes(CancelStart(svc))
  /\ UNCHANGED <<phd, wire>>

----------------------------------------------------------------------------
(* stop *)

NoStop == [pc |-> "Idle", got |-> "no", guided |-> FALSE, heard |-> FALSE, result |-> "none"]

\* The lock goes to a start that waits for it.
StopOver(s, result) ==
  LET o == [s EXCEPT !.stop = [NoStop EXCEPT !.result = result]]
  IN Becomes(IF o.start.pc = "Lock" THEN Wake(o, "start") ELSE o)
StopCalls(s, pc) == IF s.link THEN Calls(s, "stop", pc) ELSE StopOver(s, "gone")

\* The start under way is cancelled, but this turn goes on first.
Stop ==
  /\ acts < MaxActs /\ svc.link /\ svc.stop.pc = "Idle"
  /\ acts' = acts + 1
  /\ LET s == [svc EXCEPT !.stop = NoStop]
     IN Calls(IF Starting(s) THEN CancelStart(s) ELSE s, "stop", "State")
  /\ UNCHANGED <<phd, wire>>

\* (Mutant) A loop that the events do not tell of is taken as stopped.
StopState_TrustsEvents ==
  /\ Turn("stop") /\ svc.stop.pc = "State"
  /\ IF svc.stop.got = "gone" THEN StopOver(Rested, "gone")
     ELSE IF svc.app = "Stopped" THEN StopOver(Rested, "ok")
     ELSE StopCalls([Rested EXCEPT !.stop.guided = svc.app \in GuidingStates, !.stop.heard = FALSE], "Capture")
  /\ UNCHANGED <<phd, wire, acts>>

\* _stop asks for the state: the event that tells of it may not have come yet.
StopState ==
  /\ Turn("stop") /\ svc.stop.pc = "State"
  /\ IF svc.stop.got = "gone" THEN StopOver(Rested, "gone")
     ELSE LET s == SetAppState(Rested, svc.stop.got, TRUE)
          IN IF s.app = "Stopped" THEN StopOver(s, "ok")
             ELSE StopCalls([s EXCEPT !.stop.guided = s.app \in GuidingStates, !.stop.heard = FALSE],
                            "Capture")
  /\ UNCHANGED <<phd, wire, acts>>

\* (Mutant) The end of the loop is left unread.
StopIdle_LeavesLoop(s) == StopOver(s, "ok")

\* PHD2 has stopped; after guiding, the end of its loop is still to come.
StopIdle(s) ==
  IF s.stop.guided /\ ~s.stop.heard
  THEN Becomes([s EXCEPT !.stop.pc = "Tail", !.stop.got = "no"])
  ELSE StopOver(s, "ok")

StopCapture ==
  /\ Turn("stop") /\ svc.stop.pc = "Capture"
  /\ IF svc.stop.got = "gone" THEN StopOver(Rested, "gone")
     ELSE IF svc.idle THEN StopIdle(Rested)
     ELSE Becomes([Rested EXCEPT !.stop.pc = "Wait", !.stop.got = "no"])
  /\ UNCHANGED <<phd, wire, acts>>

StopWoken ==
  /\ Turn("stop")
  /\ \/ svc.stop.pc = "Wait" /\ StopIdle(Rested)
     \/ svc.stop.pc = "Tail" /\ StopOver(Rested, "ok")
  /\ UNCHANGED <<phd, wire, acts>>

\* An exposure ends within STOP_MARGIN, and a loop within LOOP_STOPPED of guiding:
\* the waits run out only when nothing is to come.
StopTimeout ==
  /\ svc.stop.pc \in {"Wait", "Tail"} /\ ~Contains(svc.ready, "stop") /\ phd.ending = "no"
  /\ NoneComing({"AppState", "GuidingStopped", "LoopingExposuresStopped", "Closed"})
  /\ StopOver(svc, IF svc.stop.pc = "Wait" THEN "failed" ELSE "ok")
  /\ UNCHANGED <<phd, wire, acts>>

----------------------------------------------------------------------------
(* run and _sync *)

\* What run does when _changed is set, or when it finds it set.
Again(s) ==
  IF s.link THEN Calls([s EXCEPT !.changed = FALSE], "sync", "Ask")
  ELSE Becomes(SyncMountHold([s EXCEPT !.known = FALSE, !.app = "unknown", !.idle = FALSE,
                                       !.changed = FALSE, !.sync.pc = "Off", !.sync.got = "no"]))

SyncAnswered ==
  /\ Turn("sync") /\ svc.sync.pc = "Ask"
  /\ LET s == IF svc.sync.got = "gone" THEN Rested ELSE SetAppState(Rested, svc.sync.got, FALSE)
     IN IF svc.sync.got = "gone" \/ s.changed THEN Again(s)
        ELSE Becomes([s EXCEPT !.sync.pc = "Rest", !.sync.got = "no"])
  /\ UNCHANGED <<phd, wire, acts>>

SyncWoken ==
  /\ Turn("sync") /\ svc.sync.pc = "Rest"
  /\ Again(Rested)
  /\ UNCHANGED <<phd, wire, acts>>

\* The backoff is longer than the turns of the tasks that lost PHD2.
Reconnect ==
  /\ svc.sync.pc = "Off" /\ phd.up /\ svc.ready = <<>>
  /\ wire' = <<AppStateIs(phd.state)>>
  /\ Calls([svc EXCEPT !.link = TRUE, !.known = TRUE], "sync", "Ask")
  /\ UNCHANGED <<phd, acts>>
----------------------------------------------------------------------------
Init ==
  /\ phd = FreshPhd2(TRUE, FALSE)
  /\ asked = <<>> /\ wire = <<>>
  /\ svc = [link |-> FALSE, known |-> FALSE, app |-> "unknown", idle |-> FALSE, changed |-> FALSE,
            mount |-> FALSE, ready |-> <<>>, start |-> NoStart, stop |-> NoStop,
            sync |-> [pc |-> "Off", got |-> "no"]]
  /\ acts = 0

Turns == StartBegins \/ StartFrame \/ StartAnswered \/ StartMain \/ StartCancelled
         \/ StopState \/ StopCapture \/ StopWoken \/ SyncAnswered \/ SyncWoken
Timeouts == StartNoFrame \/ StopTimeout
Phd2Steps == Takes \/ ExposureEnds \/ Frame \/ Restarted
Commands == Guide \/ Stop \/ Cancel

Next == Turns \/ Reads \/ Reconnect \/ Phd2Steps \/ LoopEnds \/ Timeouts \/ Commands \/ Crash

Spec == Init /\ [][Next]_vars

\* PHD2 goes on, what it writes is read, ready tasks have their turns and waits run out.
FairSpec ==
  /\ Spec
  /\ WF_vars(Turns \/ Reads \/ Reconnect \/ Phd2Steps) /\ WF_vars(LoopEnds) /\ WF_vars(Timeouts)
----------------------------------------------------------------------------
Inputs == {"no", "gone", "ok", "error", "idle"} \cup States

\* The type invariant.
TypeOK ==
  /\ phd.state \in States /\ phd.ending \in {"no", "exposure", "loop"}
  /\ phd.askers \subseteq {"start", "stop"}
  /\ svc.app \in States \cup {"unknown"} /\ svc.mount \in BOOLEAN
  /\ \A t \in Tasks : svc[t].got \in Inputs
  /\ \A i \in 1 .. Len(svc.ready) : svc.ready[i] \in Tasks

\* No capture before was ended by a start alone: one that is cancelled or gives up asks
\* PHD2 to stop and does not wait for the end (service.py:585, 616), so the news of it
\* can come during the next start, or during the stop after that.
Orderly == ~phd.alone

\* A stop that succeeds leaves PHD2 stopped (service.py:290, "and wait until its
\* exposure ends").
StopIsStop ==
  [][Orderly /\ svc.stop.pc # "Idle" /\ svc'.stop.pc = "Idle" /\ svc'.stop.result = "ok"
       => phd.state = "Stopped"]_vars

StopEndsStart ==
  svc.start.pc # "Idle" /\ svc'.start.pc = "Idle" /\ svc'.start.result = "stopped" /\ ~svc.start.ended

\* A start is not ended by the news that an earlier capture ended, when stop ended
\* that one before the start began (the wait at service.py:789).
CleanStart ==
  [][Orderly /\ StopEndsStart => "stop" \notin phd.after \/ svc.start.waited]_vars

\* (Disagreement) The same of every start after a stop, as service.py:790 says: "left
\* unread, the second would reach the next start as the end of its own loop".  A start
\* that waits for _commands has its queue already and hears the stop's two events.
CleanAfterStop == [][StopEndsStart => "stop" \notin phd.after]_vars

\* Commands end: a start does because PHD2 tells how it went, gives up settling, or is
\* gone; a stop because its waits run out.
CommandsEnd ==
  /\ svc.start.pc # "Idle" ~> svc.start.pc = "Idle"
  /\ svc.stop.pc # "Idle" ~> svc.stop.pc = "Idle"

\* (Disagreement) Once nothing more is asked of it, the service knows PHD2's state, as
\* service.py:12 says ("PHD2's own state").  An answer that came together with the news
\* that made it stale is applied after them, and stays when those changed nothing
\* (a loop that the service had not heard of ended): nothing sets _changed then.
Follows == <>[](svc.app = phd.state)
=============================================================================
