-------------------------------- MODULE Motion --------------------------------
(***************************************************************************)
(* Who moves the mount (nocs.mount.pad, nocs.mount.service, ADR 0015): slew *)
(* pads with their dead man's switch, a job that slews, the abort for       *)
(* everyone and the stop of a mount found moving, over one driver.          *)
(*                                                                          *)
(* A command to the driver joins a queue; the driver takes commands in the  *)
(* order they were sent and its answer, an update of the property, reaches  *)
(* everyone who waits for that property.  Who waits may give up first, and  *)
(* the command then still has its effect.  Between two awaits a handler     *)
(* runs alone.  The client's mirror of the properties is the driver's own   *)
(* view.  Left out: tracking, syncs, and the site and time sent to a mount  *)
(* that becomes ready.                                                      *)
(***************************************************************************)
EXTENDS Naturals, Sequences

CONSTANTS
  Pads,       \* the slew pads
  Dirs,       \* the two directions of an axis
  Wanted,     \* the motions clients ask for
  MaxFaults,  \* bound: refusals, silences and losses of the driver
  Backlog     \* bound: commands the driver is behind when somebody asks for more

Axes == {"ns", "we"}
Still == "still"
STOPPED == [x \in Axes |-> Still]
Motions == [Axes -> Dirs \cup {Still}]

ASSUME MotionAssumption ==
  /\ Still \notin Dirs /\ Dirs # {}
  /\ Wanted \subseteq Motions \ {STOPPED} /\ MaxFaults \in Nat /\ Backlog \in Nat
  /\ Pads \cap {"job", "abort", "ready", "nobody"} = {}

Actors == Pads \cup {"job", "ready"}

VARIABLES
  axis,     \* the manual motion the driver carries out
  slewing,  \* the mount slews (go to, park or home)
  queue,    \* the commands sent that the driver has not taken yet
  ready,    \* the mount role is ready
  holder,   \* who holds the "mount" lock
  call,     \* the command each actor waits for
  todo,     \* the rest of the commands of its call on the mount
  answer,   \* what has come back
  pc,       \* which call each actor is in
  motion,   \* Pad._motion
  want,     \* the command a pad is applying: its motion
  latched,  \* Pad._latched is not None
  latching, \* the pad latches when its stop is over: it failed or was silent
  closing,  \* the pad's client is gone: it is in the finally of drive
  present,  \* the client can be heard
  orphan,   \* ghost: a start, or a stop that had no effect, was left to nobody
  warned,   \* ghost: an error told that the mount may still be moving
  faults    \* faults so far

driver == <<axis, slewing, queue>>
calls == <<call, todo, answer>>
pads == <<motion, want, latched, latching, closing, present>>
ghosts == <<orphan, warned>>
vars == <<driver, ready, holder, calls, pc, pads, ghosts, faults>>

Moving(m) == m # STOPPED
MayAsk == Len(queue) <= Backlog
NoCall == [prop |-> "nothing", val |-> Still, by |-> "nobody"]
Command(a, prop, val) == [prop |-> prop, val |-> val, by |-> a]
Commands == [prop : Axes \cup {"rate", "abort", "slew"}, val : Dirs \cup {Still}, by : Actors \cup {"abort"}]

TypeOK ==
  /\ axis \in Motions /\ slewing \in BOOLEAN
  /\ queue \in Seq(Commands) /\ ready \in BOOLEAN
  /\ holder \in Pads \cup {"job", "nobody"}
  /\ call \in [Actors -> Commands \cup {NoCall}]
  /\ todo \in [Actors -> Seq(Commands)]
  /\ answer \in [Actors -> {"none", "ok", "bad"}]
  /\ pc \in [Actors -> {"rest", "rate stop", "rate", "move", "stop", "abort", "closed",
                        "created", "slew"}]
  /\ motion \in [Pads -> Motions] /\ want \in [Pads -> Motions]
  /\ {latched, latching, closing, present} \subseteq [Pads -> BOOLEAN]
  /\ orphan \in BOOLEAN /\ warned \in BOOLEAN /\ faults \in 0..MaxFaults

\* nocsd starts; one before it, or another client, may have left the mount moving.
Init ==
  /\ axis \in {STOPPED} \cup Wanted /\ slewing = FALSE /\ queue = <<>>
  /\ ready = FALSE /\ holder = "nobody"
  /\ call = [a \in Actors |-> NoCall] /\ todo = [a \in Actors |-> <<>>]
  /\ answer = [a \in Actors |-> "none"] /\ pc = [a \in Actors |-> "rest"]
  /\ motion = [p \in Pads |-> STOPPED] /\ want = [p \in Pads |-> STOPPED]
  /\ latched = [p \in Pads |-> FALSE] /\ latching = [p \in Pads |-> FALSE]
  /\ closing = [p \in Pads |-> FALSE] /\ present = [p \in Pads |-> TRUE]
  /\ orphan = FALSE /\ warned = FALSE /\ faults = 0

----------------------------------------------------------------------------
(* Calls on the mount (nocs.devices) *)

Fault == faults < MaxFaults /\ faults' = faults + 1

\* Device.command: sent at once, unless the mount is gone.
Issue(a, commands) ==
  /\ call' = [call EXCEPT ![a] = Head(commands)]
  /\ todo' = [todo EXCEPT ![a] = Tail(commands)]
  /\ answer' = [answer EXCEPT ![a] = IF ready THEN "none" ELSE "bad"]
  /\ queue' = IF ready THEN Append(queue, Head(commands)) ELSE queue

\* The actor no longer waits; what it sent is not called back.
Drop(a) ==
  /\ call' = [call EXCEPT ![a] = NoCall]
  /\ todo' = [todo EXCEPT ![a] = <<>>]
  /\ answer' = [answer EXCEPT ![a] = "none"]
  /\ UNCHANGED queue

At(a, step) == pc' = [pc EXCEPT ![a] = step]

\* Mount.stop: both axes, whatever is believed to move.
StopCalls(a) == <<Command(a, "ns", Still), Command(a, "we", Still)>>

\* Mount.move: the axes whose direction changes; a reversed axis is stopped first.
MoveCalls(a, target) ==
  LET Turn(x) ==
        IF axis[x] = target[x] THEN <<>>
        ELSE (IF axis[x] # Still THEN <<Command(a, x, Still)>> ELSE <<>>)
             \o (IF target[x] # Still THEN <<Command(a, x, target[x])>> ELSE <<>>)
  IN Turn("ns") \o Turn("we")

Answered(a) == call[a] # NoCall /\ answer[a] # "none"
Ok(a) == call[a] # NoCall /\ answer[a] = "ok" /\ todo[a] = <<>>
Bad(a) == call[a] # NoCall /\ answer[a] = "bad"

\* The next command of a call on the mount.
NextCommand(a) ==
  /\ call[a] # NoCall /\ answer[a] = "ok" /\ todo[a] # <<>>
  /\ Issue(a, todo[a])
  /\ UNCHANGED <<axis, slewing, ready, holder, pc, pads, ghosts, faults>>

----------------------------------------------------------------------------
(* The driver (external) *)

\* An update of a property answers everyone who waits for it (send_and_wait);
\* _axis accepts only the direction it asked for.
AnswerAll(prop, val, refused) ==
  answer' = [a \in Actors |->
    IF call[a].prop # prop \/ answer[a] # "none" THEN answer[a]
    ELSE IF refused \/ (prop \in Axes /\ call[a].val # val) THEN "bad" ELSE "ok"]

DriverActs ==
  /\ queue # <<>>
  /\ queue' = Tail(queue)
  /\ LET c == Head(queue) IN
     \/ /\ c.prop \in Axes
        /\ axis' = [axis EXCEPT ![c.prop] = c.val] /\ slewing' = slewing
        /\ AnswerAll(c.prop, c.val, FALSE)
     \/ /\ c.prop = "rate" /\ UNCHANGED <<axis, slewing>>
        /\ AnswerAll("rate", Still, FALSE)
     \/ /\ c.prop = "slew" /\ slewing' = TRUE /\ UNCHANGED <<axis, answer>>
     \/ /\ c.prop = "abort" /\ axis' = STOPPED /\ slewing' = FALSE
        /\ AnswerAll("abort", Still, FALSE)
  /\ UNCHANGED <<ready, holder, call, todo, pc, pads, ghosts, faults>>

\* A stop of a motion, of which nobody would hear that it had no effect.
Ends(c, x) == c.prop = "abort" \/ (c.prop = x /\ c.val = Still)
Unheeded(c) ==
  /\ \E x \in Axes : Ends(c, x) /\ axis[x] # Still
  /\ c.by # "abort" /\ (call[c.by] # c \/ answer[c.by] # "none")

DriverRefuses ==
  /\ queue # <<>> /\ Fault
  /\ queue' = Tail(queue)
  /\ AnswerAll(Head(queue).prop, Still, TRUE)
  /\ warned' = (warned \/ Head(queue).by = "abort")
  /\ orphan' = (orphan \/ Unheeded(Head(queue)))
  /\ UNCHANGED <<axis, slewing, ready, holder, call, todo, pc, pads>>

\* An aborted slew is never reported as done: its job waits out SLEW_TIMEOUT.
SlewEnds ==
  /\ slewing
  /\ slewing' = FALSE
  /\ AnswerAll("slew", Still, FALSE)
  /\ UNCHANGED <<axis, queue, ready, holder, call, todo, pc, pads, ghosts, faults>>

SlewTimesOut ==
  /\ call["job"].prop = "slew" /\ answer["job"] = "none"
  /\ ~slewing /\ queue = <<>>
  /\ answer' = [answer EXCEPT !["job"] = "bad"]
  /\ UNCHANGED <<driver, ready, holder, call, todo, pc, pads, ghosts, faults>>

\* supervise: the deadline passes; the driver may yet act on the command.
TimesOut(a) ==
  /\ call[a] # NoCall /\ answer[a] = "none" /\ Fault
  /\ answer' = [answer EXCEPT ![a] = "bad"]
  /\ UNCHANGED <<driver, ready, holder, call, todo, pc, pads, ghosts>>

----------------------------------------------------------------------------
(* Slew pads *)

Released(p) == IF holder = p THEN "nobody" ELSE holder

\* (Mutant) The pad keeps the mount.
Stopped_KeepsLock(p, latch) ==
  /\ Drop(p)
  /\ At(p, IF closing'[p] THEN "closed" ELSE "rest")
  /\ motion' = [motion EXCEPT ![p] = STOPPED]
  /\ want' = [want EXCEPT ![p] = STOPPED]
  /\ UNCHANGED holder
  /\ latched' = [latched EXCEPT ![p] = @ \/ latch]
  /\ latching' = [latching EXCEPT ![p] = FALSE]

\* The end of Pad._stop, or of a Pad._stop with nothing to do.
Stopped(p, latch) ==
  /\ Drop(p)
  /\ At(p, IF closing'[p] THEN "closed" ELSE "rest")
  /\ motion' = [motion EXCEPT ![p] = STOPPED]
  /\ want' = [want EXCEPT ![p] = STOPPED]
  /\ holder' = Released(p)
  /\ latched' = [latched EXCEPT ![p] = @ \/ latch]
  /\ latching' = [latching EXCEPT ![p] = FALSE]

Active(p) == holder = p \/ Moving(motion[p])

\* Pad._stop, latching afterwards or not.
Stop(p, latch) ==
  \/ /\ Active(p) /\ ready
     /\ Issue(p, StopCalls(p)) /\ At(p, "stop")
     /\ latching' = [latching EXCEPT ![p] = latch]
     /\ UNCHANGED <<motion, want, holder, latched>>
  \/ /\ ~(Active(p) /\ ready)
     /\ Stopped(p, latch)

\* Pad.apply of a motion: _move as far as its first command.
Hold(p, m, rate) ==
  /\ MayAsk /\ pc[p] = "rest" /\ present[p] /\ ~latched[p]
  /\ IF ~ready \/ holder \notin {"nobody", p}
     THEN UNCHANGED closing /\ Stop(p, TRUE)
     ELSE /\ holder' = p
          /\ UNCHANGED <<latched, latching, closing>>
          /\ want' = [want EXCEPT ![p] = m]
          /\ LET stopFirst == rate /\ Moving(motion[p])
                 calls0 == MoveCalls(p, IF stopFirst THEN STOPPED ELSE m)
             IN \/ /\ rate => stopFirst
                   /\ calls0 # <<>>
                   /\ Issue(p, calls0) /\ At(p, IF rate THEN "rate stop" ELSE "move")
                   /\ UNCHANGED motion
                \/ /\ rate /\ (stopFirst => calls0 = <<>>)
                   /\ Issue(p, <<Command(p, "rate", Still)>>) /\ At(p, "rate")
                   /\ motion' = [motion EXCEPT ![p] = STOPPED]
                \/ /\ ~rate /\ calls0 = <<>>
                   /\ motion' = [motion EXCEPT ![p] = m]
                   /\ UNCHANGED <<calls, queue, pc>>
  /\ UNCHANGED <<axis, slewing, ready, present, ghosts, faults>>

\* Pad.apply of STOPPED.
LetGo(p) ==
  /\ MayAsk /\ pc[p] = "rest" /\ present[p]
  /\ UNCHANGED closing
  /\ IF Active(p) /\ ready
     THEN /\ Issue(p, StopCalls(p)) /\ At(p, "stop")
          /\ latched' = [latched EXCEPT ![p] = FALSE]
          /\ UNCHANGED <<motion, holder, latching>>
     ELSE /\ Drop(p) /\ UNCHANGED <<pc, latching>>
          /\ motion' = [motion EXCEPT ![p] = STOPPED] /\ holder' = Released(p)
          /\ latched' = [latched EXCEPT ![p] = FALSE]
  /\ UNCHANGED <<axis, slewing, ready, want, present, ghosts, faults>>

\* drive: the deadline passes without a message, or the message is junk.
Silence(p) ==
  /\ pc[p] = "rest" /\ Active(p)
  /\ UNCHANGED closing
  /\ Stop(p, TRUE)
  /\ UNCHANGED <<axis, slewing, ready, present, ghosts, faults>>

\* Pad._move goes on once the axes stand still: the rate.
SetRate(p) ==
  /\ pc[p] = "rate stop" /\ Ok(p)
  /\ motion' = [motion EXCEPT ![p] = STOPPED]
  /\ Issue(p, <<Command(p, "rate", Still)>>) /\ At(p, "rate")
  /\ UNCHANGED <<axis, slewing, ready, holder, want, latched, latching, closing, present,
                 ghosts, faults>>

\* Pad._move is over: a pad that was interrupted meanwhile stops at once.
Moved(p) ==
  IF latched[p]
  THEN /\ Issue(p, StopCalls(p)) /\ At(p, "stop")
       /\ motion' = [motion EXCEPT ![p] = want[p]]
       /\ want' = [want EXCEPT ![p] = STOPPED]
       /\ UNCHANGED <<holder, latched, latching>>
  ELSE /\ Drop(p) /\ At(p, "rest")
       /\ motion' = [motion EXCEPT ![p] = want[p]]
       /\ want' = [want EXCEPT ![p] = STOPPED]
       /\ UNCHANGED <<holder, latched, latching>>

RateSet(p) ==
  /\ pc[p] = "rate" /\ Ok(p)
  /\ \/ /\ MoveCalls(p, want[p]) # <<>>
        /\ Issue(p, MoveCalls(p, want[p])) /\ At(p, "move")
        /\ UNCHANGED <<motion, want, holder, latched, latching>>
     \/ MoveCalls(p, want[p]) = <<>> /\ Moved(p)
  /\ UNCHANGED <<axis, slewing, ready, closing, present, ghosts, faults>>

MoveEnds(p) ==
  /\ pc[p] = "move" /\ Ok(p)
  /\ Moved(p)
  /\ UNCHANGED <<axis, slewing, ready, closing, present, ghosts, faults>>

\* What a pad leaves that gives up: when an abort interrupted it, a start that may have
\* reached the driver or a stop that failed; and a stop of a mount that is gone and that
\* another pad holds.
Leaves(p) ==
  \/ ~Active(p) /\ pc[p] # "rate" /\ (pc[p] = "move" \/ Bad(p))
  \/ ~ready /\ pc[p] \in {"stop", "abort"} /\ holder \in Pads \ {p}

MoveFails(p) ==
  /\ pc[p] \in {"rate stop", "rate", "move"} /\ Bad(p)
  /\ orphan' = (orphan \/ Leaves(p))
  /\ UNCHANGED closing
  /\ Stop(p, TRUE)
  /\ UNCHANGED <<axis, slewing, ready, present, warned, faults>>

StopEnds(p) ==
  /\ (pc[p] = "stop" /\ Ok(p)) \/ (pc[p] = "abort" /\ Answered(p))
  /\ warned' = (warned \/ Bad(p))
  /\ UNCHANGED closing
  /\ Stopped(p, latching[p] \/ Bad(p))
  /\ UNCHANGED <<axis, slewing, ready, present, orphan, faults>>

\* (Mutant) A stop that fails is taken for a stop.
StopFails_GivesUp(p) ==
  /\ pc[p] = "stop" /\ Bad(p)
  /\ UNCHANGED closing
  /\ Stopped(p, latching[p])
  /\ UNCHANGED <<axis, slewing, ready, present, ghosts, faults>>

StopFails(p) ==
  /\ pc[p] = "stop" /\ Bad(p)
  /\ Issue(p, <<Command(p, "abort", Still)>>) /\ At(p, "abort")
  /\ UNCHANGED <<axis, slewing, ready, holder, pads, ghosts, faults>>

\* drive ends: the client closed or was revoked, whatever the pad was doing.
Gone(p) ==
  /\ pc[p] # "closed" /\ ~closing[p]
  /\ closing' = [closing EXCEPT ![p] = TRUE]
  /\ orphan' = (orphan \/ Leaves(p))
  /\ Stop(p, TRUE)
  /\ UNCHANGED <<axis, slewing, ready, present, warned, faults>>

\* STOP_TIMEOUT passes in the finally of drive: _stop is cancelled where it waits.
Overrun(p) ==
  /\ closing[p] /\ pc[p] \in {"stop", "abort"} /\ Fault
  /\ Drop(p) /\ At(p, "closed")
  /\ motion' = [motion EXCEPT ![p] = STOPPED]
  /\ orphan' = (orphan \/ holder # p)
  /\ UNCHANGED <<axis, slewing, ready, holder, want, latched, latching, closing, present, warned>>

\* A client connects: a pad of its own, in the place of one that is over.
Opens(p) ==
  /\ pc[p] = "closed" /\ holder # p
  /\ At(p, "rest")
  /\ motion' = [motion EXCEPT ![p] = STOPPED]
  /\ latched' = [latched EXCEPT ![p] = FALSE]
  /\ latching' = [latching EXCEPT ![p] = FALSE]
  /\ closing' = [closing EXCEPT ![p] = FALSE]
  /\ present' = [present EXCEPT ![p] = TRUE]
  /\ UNCHANGED <<driver, ready, holder, calls, want, ghosts, faults>>

\* The client falls silent for good (Wi-Fi gone, app in the background).
Vanishes(p) ==
  /\ present[p] /\ pc[p] # "closed" /\ ~closing[p]
  /\ present' = [present EXCEPT ![p] = FALSE]
  /\ UNCHANGED <<driver, ready, holder, calls, pc, motion, want, latched, latching, closing,
                 ghosts, faults>>

----------------------------------------------------------------------------
(* The job that slews (MountService._slew), and the abort for everyone *)

\* (Mutant) A go to of its own does not ask for the lock.
JobStarts_Unlocked ==
  /\ MayAsk /\ pc["job"] = "rest" /\ ready
  /\ holder' = "job" /\ At("job", "slew")
  /\ Issue("job", <<Command("job", "slew", Still)>>)
  /\ UNCHANGED <<axis, slewing, ready, pads, ghosts, faults>>

JobStarts ==
  /\ MayAsk /\ pc["job"] = "rest" /\ ready /\ holder = "nobody"
  /\ holder' = "job" /\ At("job", "slew")
  /\ Issue("job", <<Command("job", "slew", Still)>>)
  /\ UNCHANGED <<axis, slewing, ready, pads, ghosts, faults>>

JobEnds ==
  /\ pc["job"] \in {"slew", "abort"} /\ Answered("job")
  /\ Drop("job") /\ At("job", "rest") /\ holder' = "nobody"
  /\ warned' = (warned \/ (pc["job"] = "abort" /\ Bad("job")))
  /\ UNCHANGED <<axis, slewing, ready, pads, orphan, faults>>

\* JobManager.cancel: the slew is aborted under the lock; a second cancel leaves that
\* abort to itself.  (A job cancelled before it runs is a matter of module Jobs.)
JobCancelled ==
  /\ MayAsk /\ holder = "job"
  /\ \/ /\ pc["job"] = "slew"
        /\ Issue("job", <<Command("job", "abort", Still)>>) /\ At("job", "abort")
        /\ UNCHANGED <<holder, orphan>>
     \/ /\ pc["job"] = "abort"
        /\ Drop("job") /\ At("job", "rest") /\ holder' = "nobody"
        /\ orphan' = (orphan \/ Bad("job"))
  /\ UNCHANGED <<axis, slewing, ready, pads, warned, faults>>

\* MountService.abort: every pad is interrupted, the job cancelled, the motion aborted.
\* Its caller is told what the driver says (502), which changes nothing here.
Interrupted(p) == pc[p] # "closed" /\ Active(p)

Abort ==
  /\ MayAsk /\ ready
  /\ latched' = [p \in Pads |-> latched[p] \/ Interrupted(p)]
  /\ motion' = [p \in Pads |-> IF Interrupted(p) THEN STOPPED ELSE motion[p]]
  /\ LET everyones == Command("abort", "abort", Still)
         jobs == Command("job", "abort", Still)
     IN IF pc["job"] = "slew"
        THEN /\ queue' = queue \o <<everyones, jobs>>
             /\ call' = [call EXCEPT !["job"] = jobs]
             /\ answer' = [answer EXCEPT !["job"] = "none"]
             /\ At("job", "abort") /\ UNCHANGED todo
        ELSE /\ queue' = Append(queue, everyones)
             /\ call' = [call EXCEPT !["job"] = NoCall]
             /\ answer' = [answer EXCEPT !["job"] = "none"]
             /\ At("job", "rest") /\ UNCHANGED todo
  /\ holder' = IF holder \in {p \in Pads : Interrupted(p)} \/ pc["job"] = "abort"
               THEN "nobody" ELSE holder
  /\ UNCHANGED <<axis, slewing, ready, want, latching, closing, present, ghosts, faults>>

----------------------------------------------------------------------------
(* The mount role (MountService._refresh, _on_ready) *)

\* indiserver or the driver goes: every wait fails; what was sent may still be carried out.
Lost ==
  /\ ready /\ Fault
  /\ ready' = FALSE
  /\ \/ UNCHANGED <<queue, orphan>>
     \/ /\ queue' = <<>>
        /\ orphan' = (orphan \/ \E i \in 1..Len(queue) : Unheeded(queue[i]))
  /\ answer' = [a \in Actors |->
       IF call[a] # NoCall /\ answer[a] = "none" THEN "bad" ELSE answer[a]]
  /\ warned' = (warned \/ \E i \in 1..Len(queue) : queue[i].by = "abort")
  /\ UNCHANGED <<axis, slewing, holder, call, todo, pc, pads>>

\* By then the driver has taken what was sent before.
Ready ==
  /\ ~ready /\ pc["ready"] = "rest" /\ queue = <<>>
  /\ ready' = TRUE /\ At("ready", "created")
  /\ UNCHANGED <<driver, holder, calls, pads, ghosts, faults>>

\* _on_ready: a mount that moves with nobody at a pad is stopped.
OnReady ==
  /\ pc["ready"] = "created"
  /\ IF ready /\ Moving(axis) /\ holder \notin Pads
     THEN Issue("ready", StopCalls("ready")) /\ At("ready", "stop")
     ELSE Drop("ready") /\ At("ready", "rest")
  /\ UNCHANGED <<axis, slewing, ready, holder, pads, ghosts, faults>>

OnReadyStops ==
  /\ \/ /\ pc["ready"] = "stop" /\ Bad("ready")
        /\ Issue("ready", <<Command("ready", "abort", Still)>>) /\ At("ready", "abort")
        /\ UNCHANGED warned
     \/ /\ \/ pc["ready"] = "stop" /\ Ok("ready")
           \/ pc["ready"] = "abort" /\ Answered("ready")
        /\ Drop("ready") /\ At("ready", "rest")
        /\ warned' = (warned \/ Bad("ready"))
  /\ UNCHANGED <<axis, slewing, ready, holder, pads, orphan, faults>>

----------------------------------------------------------------------------
Handles(p) ==
  \/ SetRate(p) \/ RateSet(p) \/ MoveEnds(p) \/ MoveFails(p) \/ StopEnds(p) \/ StopFails(p)

Service == JobEnds \/ OnReady \/ OnReadyStops

Next ==
  \/ \E p \in Pads :
       \/ \E m \in Wanted, rate \in BOOLEAN : Hold(p, m, rate)
       \/ LetGo(p) \/ Silence(p) \/ Handles(p)
       \/ Gone(p) \/ Overrun(p) \/ Opens(p) \/ Vanishes(p)
  \/ \E a \in Actors : NextCommand(a) \/ TimesOut(a)
  \/ DriverActs \/ DriverRefuses \/ SlewEnds \/ SlewTimesOut
  \/ JobStarts \/ JobCancelled \/ Abort \/ Service
  \/ Lost \/ Ready

Spec == Init /\ [][Next]_vars

\* Handlers go on, the driver works, a slew ends and the deadline of a pad passes.
Fairness ==
  /\ \A p \in Pads : WF_vars(Handles(p)) /\ WF_vars(Silence(p) /\ ~present[p])
  /\ \A a \in Actors : WF_vars(NextCommand(a))
  /\ WF_vars(DriverActs) /\ WF_vars(SlewEnds) /\ WF_vars(SlewTimesOut) /\ WF_vars(Service)

FairSpec == Spec /\ Fairness

----------------------------------------------------------------------------
(* Properties *)

AtRest(a) == pc[a] \in {"rest", "closed"}

\* A mount that moves by hand is under a pad that holds it, or being stopped, or somebody
\* was told.  What is left (orphan) is a pad that an abort interrupted and whose own command
\* then failed, a stop without effect whose sender waits no longer, for another's stop had
\* answered it or a limit passed, and a mount nocsd has not come to yet.
NeverLeftMoving ==
  Moving(axis) /\ queue = <<>> /\ ready /\ (\A a \in Actors : AtRest(a)) =>
    \/ holder \in Pads
    \/ orphan \/ warned

\* A slew and a manual motion of the same moment are the work of an abort: only a pad that
\* was interrupted, or stops, has a start on its way to a mount a job holds.
SlewsAlone ==
  holder = "job" =>
    \A i \in 1..Len(queue) :
      \A p \in Pads : queue[i].val # Still /\ call[p] = queue[i] => latched[p]

\* A pad whose client is no longer heard lets the mount go.
DeadMansSwitch == \A p \in Pads : ~present[p] ~> (holder # p \/ pc[p] = "closed")

\* ADR 0015: a stop the driver does not confirm becomes an abort, and the pad gives the
\* mount back: a pad that is over holds nothing.
ClosedLetsGo == \A p \in Pads : pc[p] = "closed" => holder # p

=============================================================================
