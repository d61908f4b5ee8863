------------------------------- MODULE Drives -------------------------------
(***************************************************************************)
(* USB drives (nocs.storage.service: refresh, _automount, eject): plugged   *)
(* and unplugged at any time, mounted as soon as a look at the system shows *)
(* them, ejected when asked.  nocs-system mounts and unmounts, one operation*)
(* at a time whoever asks (nocs.system.server: Helper._lock), and goes on   *)
(* with an operation whose caller no longer waits (nocs.system.client:      *)
(* TIMEOUT).                                                                *)
(*                                                                          *)
(* Those who ask it here are the poll of storage, and each request to eject *)
(* a drive, which looks at the drives as the poll does once it has ejected. *)
(* A drive is one filesystem with one device number, the same when it comes *)
(* back.  What is published of the drives is left out, their errors apart.  *)
(* Frames are saved as DriveUse says; Saving says how.                      *)
(***************************************************************************)
EXTENDS DriveUse, Sequences

CONSTANTS
  Ejects,      \* requests to eject a drive
  MaxPlugs,    \* bound: how often a drive is plugged in
  MaxFaults    \* bound: operations and calls that fail

ASSUME DrivesAssumption == MaxPlugs \in Nat /\ MaxFaults \in Nat

Poll == "poll"
Callers == Ejects \cup {Poll}
Nobody == "nobody"
NoDrive == "none"

VARIABLES
  attached,   \* the drives plugged in
  unmounted,  \* _unmounted: plugged in and not mounted, as last seen
  present,    \* _present: plugged in, as last seen
  tried,      \* _tried
  ejected,    \* _ejected
  errors,     \* _mount_errors: the drives that have one
  task,       \* where the poll and each request to eject are
  answer,     \* what each has been answered by nocs-system
  queue,      \* nocs-system's operations, the one it performs first
  plugs, faults,
  missed      \* ghost: drives that went away while they were in _tried, not seen yet

seen == <<unmounted, present>>
memory == <<tried, ejected, errors>>
drives == <<attached, mounted>>
bounds == <<plugs, faults>>
vars == <<drives, seen, memory, locks, task, answer, queue, bounds, missed>>

Idle == [at |-> "idle", drive |-> NoDrive, left |-> {}]

TypeOK ==
  /\ UseTypeOK
  /\ attached \subseteq Drives /\ mounted \subseteq attached
  /\ unmounted \subseteq Drives /\ present \subseteq Drives
  /\ tried \subseteq Drives /\ ejected \subseteq Drives /\ errors \subseteq Drives
  /\ task \in [Callers -> [at : {"idle", "found", "ejecting", "look", "sweep", "mounting",
                                 "again", "over"},
                           drive : Drives \cup {NoDrive}, left : SUBSET Drives]]
  /\ answer \in [Callers -> {"none", "waiting", "ok", "failed"}]
  /\ queue \in Seq([op : {"mount", "eject"}, drive : Drives, who : Callers \cup {Nobody},
                    state : {"queued", "unmounted", "ok", "failed"}])
  /\ plugs \in 0..MaxPlugs /\ faults \in 0..MaxFaults /\ missed \subseteq Drives

Init ==
  /\ UseInit /\ attached = {} /\ unmounted = {} /\ present = {}
  /\ tried = {} /\ ejected = {} /\ errors = {}
  /\ task = [c \in Callers |-> Idle] /\ answer = [c \in Callers |-> "none"] /\ queue = <<>>
  /\ plugs = 0 /\ faults = 0 /\ missed = {}

----------------------------------------------------------------------------
(* The user's hands *)

Plug(d) ==
  /\ d \notin attached /\ plugs < MaxPlugs
  /\ attached' = attached \cup {d} /\ plugs' = plugs + 1
  /\ UNCHANGED <<mounted, seen, memory, locks, task, answer, queue, faults, missed>>

Missed(d) == missed' = IF d \in tried THEN missed \cup {d} ELSE missed

\* systemd unmounts a drive that is gone.
Unplug(d) ==
  /\ d \in attached
  /\ attached' = attached \ {d} /\ mounted' = mounted \ {d} /\ Missed(d)
  /\ UNCHANGED <<seen, memory, locks, task, answer, queue, bounds>>

----------------------------------------------------------------------------
(* nocs-system *)

Ask(c, op, d) ==
  /\ answer' = [answer EXCEPT ![c] = "waiting"]
  /\ queue' = Append(queue, [op |-> op, drive |-> d, who |-> c, state |-> "queued"])

HeadIs(s) == queue # <<>> /\ Head(queue).state = s
HeadTo(s) == queue' = [queue EXCEPT ![1].state = s]

\* mount: refused when the drive is gone or mounted; otherwise it may fail too.
Mount ==
  /\ HeadIs("queued") /\ Head(queue).op = "mount"
  /\ LET d == Head(queue).drive IN
     \/ /\ d \in attached \ mounted
        /\ mounted' = mounted \cup {d} /\ HeadTo("ok") /\ UNCHANGED faults
     \/ /\ d \notin attached \ mounted /\ HeadTo("failed") /\ UNCHANGED <<mounted, faults>>
     \/ /\ faults < MaxFaults /\ faults' = faults + 1 /\ HeadTo("failed") /\ UNCHANGED mounted
  /\ UNCHANGED <<attached, seen, memory, locks, task, answer, plugs, missed>>

\* eject, first: unmount, which fails when something on the drive is in use.
Unmount ==
  /\ HeadIs("queued") /\ Head(queue).op = "eject"
  /\ LET d == Head(queue).drive IN
     \/ /\ d \in mounted /\ mounted' = mounted \ {d} /\ HeadTo("unmounted") /\ Missed(d)
        /\ UNCHANGED faults
     \/ /\ d \notin mounted /\ HeadTo("failed") /\ UNCHANGED <<mounted, faults, missed>>
     \/ /\ faults < MaxFaults /\ faults' = faults + 1 /\ HeadTo("failed")
        /\ UNCHANGED <<mounted, missed>>
  /\ UNCHANGED <<attached, seen, memory, locks, task, answer, plugs>>

\* eject, then: power off, which removes the device, where the drive allows it.
PowerOff ==
  /\ HeadIs("unmounted")
  /\ attached' \in {attached, attached \ {Head(queue).drive}}
  /\ HeadTo("ok")
  /\ UNCHANGED <<mounted, seen, memory, locks, task, answer, bounds, missed>>

\* The reply, to whoever still waits for it; the next operation can begin.
Reply ==
  /\ HeadIs("ok") \/ HeadIs("failed")
  /\ answer' = [c \in Callers |-> IF c = Head(queue).who THEN Head(queue).state ELSE answer[c]]
  /\ queue' = Tail(queue)
  /\ UNCHANGED <<drives, seen, memory, locks, task, bounds, missed>>

\* call: no answer within TIMEOUT is a failure for the caller, and for nobody else.
CallTimesOut(c) ==
  /\ answer[c] = "waiting" /\ faults < MaxFaults
  /\ faults' = faults + 1
  /\ answer' = [answer EXCEPT ![c] = "failed"]
  /\ queue' = [i \in DOMAIN queue |->
                 IF queue[i].who = c THEN [queue[i] EXCEPT !.who = Nobody] ELSE queue[i]]
  /\ UNCHANGED <<drives, seen, memory, locks, task, plugs, missed>>

----------------------------------------------------------------------------
(* Looking at the drives: refresh *)

At(c, s) == task[c].at = s
Goes(c, s) == task' = [task EXCEPT ![c].at = s]
Over(c) == [Idle EXCEPT !.at = IF c = Poll THEN "idle" ELSE "over"]
Finishes(c) == task' = [task EXCEPT ![c] = Over(c)]

\* A look that would find what the last one found, and do nothing.
NothingNew ==
  /\ unmounted = attached \ mounted /\ present = attached
  /\ tried \subseteq unmounted /\ errors \subseteq unmounted /\ ejected \subseteq present
  /\ unmounted \subseteq tried \cup ejected

\* _poll: every POLL_SECONDS.  (Those that change nothing are left out.)
PollWakes ==
  /\ At(Poll, "idle") /\ ~NothingNew /\ Goes(Poll, "look")
  /\ UNCHANGED <<drives, seen, memory, locks, answer, queue, bounds, missed>>

\* _summary, in a thread.
Look(c) ==
  /\ At(c, "look") \/ At(c, "again")
  /\ unmounted' = attached \ mounted /\ present' = attached
  /\ IF At(c, "look") THEN Goes(c, "sweep") ELSE Finishes(c)
  /\ UNCHANGED <<drives, memory, locks, answer, queue, bounds, missed>>

\* The loop of _automount over the drives left, up to its next call of nocs-system.
MountNext(c, left, done, out, asked) ==
  IF left \subseteq done \cup out
  THEN /\ IF asked THEN task' = [task EXCEPT ![c] = [Idle EXCEPT !.at = "again"]]
                    ELSE Finishes(c)
       /\ tried' = done /\ UNCHANGED queue
       /\ answer' = [answer EXCEPT ![c] = "none"]
  ELSE \E d \in left \ (done \cup out) :
       /\ tried' = done \cup {d}
       /\ task' = [task EXCEPT ![c] = [at |-> "mounting", drive |-> d, left |-> left \ {d}]]
       /\ Ask(c, "mount", d)

\* (Mutant) A drive NOCS tried to mount is never tried again.
Sweep_TriesOnce(c) ==
  /\ At(c, "sweep")
  /\ ejected' = ejected \cap present /\ errors' = errors \cap unmounted
  /\ missed' = missed \cap unmounted
  /\ MountNext(c, unmounted, tried, ejected \cap present, FALSE)
  /\ UNCHANGED <<drives, seen, locks, bounds>>

\* _automount, from what was last seen.
Sweep(c) ==
  /\ At(c, "sweep")
  /\ ejected' = ejected \cap present /\ errors' = errors \cap unmounted
  /\ missed' = missed \cap unmounted
  /\ MountNext(c, unmounted, tried \cap unmounted, ejected \cap present, FALSE)
  /\ UNCHANGED <<drives, seen, locks, bounds>>

\* A drive could not be mounted, or was: the next one.
MountAnswered(c) ==
  /\ At(c, "mounting") /\ answer[c] \in {"ok", "failed"}
  /\ errors' = IF answer[c] = "failed" THEN errors \cup {task[c].drive} ELSE errors
  /\ MountNext(c, task[c].left, tried, ejected, TRUE)
  /\ UNCHANGED <<drives, seen, ejected, locks, bounds, missed>>

----------------------------------------------------------------------------
(* Ejecting *)

\* eject: the drive is looked up among those mounted, in a thread.
EjectAsked(e, d) ==
  /\ At(e, "idle") /\ d \in mounted
  /\ task' = [task EXCEPT ![e] = [@ EXCEPT !.at = "found", !.drive = d]]
  /\ UNCHANGED <<drives, seen, memory, locks, answer, queue, bounds, missed>>

\* (Mutant) The frames being saved are not looked at.
EjectBegins_Anyway(e) ==
  /\ At(e, "found")
  /\ ejecting' = ejecting \cup {task[e].drive} /\ Goes(e, "ejecting")
  /\ Ask(e, "eject", task[e].drive)
  /\ UNCHANGED <<drives, seen, memory, writing, bounds, missed>>

\* Refused while a frame is being saved to it.  (Refused while a job runs too, unless
\* forced: left out.)
EjectBegins(e) ==
  /\ At(e, "found")
  /\ IF writing[task[e].drive] > 0
     THEN Finishes(e) /\ UNCHANGED <<ejecting, answer, queue>>
     ELSE /\ ejecting' = ejecting \cup {task[e].drive} /\ Goes(e, "ejecting")
          /\ Ask(e, "eject", task[e].drive)
  /\ UNCHANGED <<drives, seen, memory, writing, bounds, missed>>

\* (Mutant) An eject that failed keeps the drive from being written to.
EjectAnswered_Keeps(e) ==
  /\ At(e, "ejecting") /\ answer[e] \in {"ok", "failed"}
  /\ IF answer[e] = "ok"
     THEN ejected' = ejected \cup {task[e].drive} /\ Goes(e, "look")
          /\ ejecting' = ejecting \ {task[e].drive}
     ELSE UNCHANGED <<ejected, ejecting>> /\ Finishes(e)
  /\ answer' = [answer EXCEPT ![e] = "none"]
  /\ UNCHANGED <<drives, seen, tried, errors, writing, queue, bounds, missed>>

EjectAnswered(e) ==
  /\ At(e, "ejecting") /\ answer[e] \in {"ok", "failed"}
  /\ IF answer[e] = "ok" THEN ejected' = ejected \cup {task[e].drive} /\ Goes(e, "look")
     ELSE UNCHANGED ejected /\ Finishes(e)
  /\ ejecting' = ejecting \ {task[e].drive}
  /\ answer' = [answer EXCEPT ![e] = "none"]
  /\ UNCHANGED <<drives, seen, tried, errors, writing, queue, bounds, missed>>

----------------------------------------------------------------------------
(* Frames, and restarts *)

FrameBegins(v) ==
  /\ v \in mounted /\ BeginWrite(v)
  /\ UNCHANGED <<attached, seen, memory, task, answer, queue, bounds, missed>>

FrameEnds(v) ==
  /\ EndWrite(v)
  /\ UNCHANGED <<attached, seen, memory, task, answer, queue, bounds, missed>>

\* nocsd is stopped and started: it forgets, nocs-system goes on.
Crash ==
  /\ faults < MaxFaults /\ faults' = faults + 1
  /\ ForgetUse
  /\ unmounted' = {} /\ present' = {} /\ tried' = {} /\ ejected' = {} /\ errors' = {}
  /\ answer' = [c \in Callers |-> "none"]
  /\ task' = [c \in Callers |-> IF At(c, "idle") THEN Idle ELSE Over(c)]
  /\ queue' = [i \in DOMAIN queue |-> [queue[i] EXCEPT !.who = Nobody]]
  /\ missed' = {} /\ UNCHANGED <<attached, plugs>>

----------------------------------------------------------------------------
Helper == Mount \/ Unmount \/ PowerOff \/ Reply
Caller(c) == Look(c) \/ Sweep(c) \/ MountAnswered(c)
Ejecting(e) == EjectBegins(e) \/ EjectAnswered(e)

Next ==
  \/ \E d \in Drives : Plug(d) \/ Unplug(d) \/ FrameBegins(d) \/ FrameEnds(d)
  \/ Helper
  \/ PollWakes
  \/ \E c \in Callers : CallTimesOut(c) \/ Caller(c)
  \/ \E e \in Ejects : Ejecting(e) \/ \E d \in Drives : EjectAsked(e, d)
  \/ Crash

Spec == Init /\ [][Next]_vars
\* nocsd's tasks and nocs-system go on.
FairSpec ==
  /\ Spec /\ WF_vars(Helper) /\ WF_vars(PollWakes)
  /\ \A c \in Callers : WF_vars(Caller(c))
  /\ \A e \in Ejects : WF_vars(Ejecting(e))

----------------------------------------------------------------------------
(* Properties *)

\* Ejecting keeps its side of what it promises those who save frames.
ImplementsUse == UseSpec

\* A request to eject a drive ends, and the drive can be written to again.
EjectsEnd == \A d \in Drives : d \in ejecting ~> d \notin ejecting

\* A drive that stays plugged in is mounted, or shown with the reason why not, unless it
\* was ejected, or went away and came back between two looks.
DrivesAreMounted ==
  \A d \in Drives :
    []<>(d \in mounted \/ d \notin attached \/ d \in errors \/ d \in ejected \/ d \in missed)

\* docs/user/troubleshooting.md: "An ejected drive stays unmounted until you unplug it."
EjectedStays == ejected \cap mounted = {}

\* docs/v0.1/phase-6.md: "eject refused while a frame is being written".
EjectsWait == \A e \in Ejects : At(e, "ejecting") => writing[task[e].drive] = 0
=============================================================================
