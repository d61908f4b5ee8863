------------------------------ MODULE Equipment ------------------------------
(***************************************************************************)
(* The equipment service (nocs.equipment.service): connecting the roles of  *)
(* a profile, disconnecting them, restarting a driver that hangs and        *)
(* starting one only to list its devices, over an indiserver that may be    *)
(* lost and drivers that may crash.                                         *)
(*                                                                          *)
(* A pass, a disconnect, a restart and a listing are tasks of one event     *)
(* loop, cut at their awaits; one that is made begins in the next turn of    *)
(* the loop, which is taken with the step that makes it.  There is one       *)
(* profile; a driver has one device, which may play several roles.  What a   *)
(* facade configures (ports, optics, snooped devices) and the errors' texts  *)
(* are left out.                                                             *)
(***************************************************************************)
EXTENDS Naturals, FiniteSets

CONSTANTS
  Roles, Drivers,
  DriverOf,     \* the driver of each role of the profile
  MaxFaults,    \* bound: losses, crashes and disconnections from outside
  MaxAsks       \* bound: what the user asks for

\* Assumed in RigServices.
EquipmentAssumption ==
  /\ DriverOf \in [Roles -> Drivers]
  /\ MaxFaults \in Nat /\ MaxAsks \in Nat

VARIABLES
  linked,     \* the bridge has a client
  up,         \* copies of each driver that run
  view,       \* a driver's device as the client has it: stale once its driver is gone
  on,         \* the device's CONNECTION, in that view
  conn,       \* _connection; "failed" is CONNECTING with the error that ended the pass
  status,     \* _status
  resolved,   \* the roles in _resolved
  started,    \* _started
  restarting, \* the drivers in _restarting
  listing,    \* _listing
  pass,       \* the await at which _connect is
  parting,    \* the await at which _disconnect is
  restart,    \* the await at which restart_driver is
  role,       \* the await of each role's _connect_role, of a pass and of a restart
  broken,     \* the link of a restart was lost
  ours,       \* ghost: the drivers NOCS started and has not stopped for good
  crossed,    \* ghost: a restart met a pass or a disconnect, or a listing a starting driver
  missed,     \* ghost: roles whose device went away unnoticed
  faults, asks

indi == <<linked, up, view, on>>
state == <<conn, status, resolved, started, restarting, listing>>
tasks == <<pass, parting, restart, role, broken>>
ghosts == <<ours, crossed, missed>>
bounds == <<faults, asks>>
vars == <<indi, state, tasks, ghosts, bounds>>

None == "none"
Owners == {"pass", "restart"}
Statuses == {"waiting", "connecting", "ready", "error", "disconnected", "unresponsive"}
RolesOf(d) == {r \in Roles : DriverOf[r] = d}

TypeOK ==
  /\ linked \in BOOLEAN /\ up \in [Drivers -> 0..2]
  /\ view \in [Drivers -> {None, "live", "stale"}] /\ on \in [Drivers -> BOOLEAN]
  /\ conn \in {"disconnected", "connecting", "failed", "connected", "disconnecting"}
  /\ status \in [Roles -> Statuses]
  /\ resolved \subseteq Roles
  /\ started \subseteq Drivers /\ restarting \subseteq Drivers /\ listing \subseteq Drivers
  /\ pass \in {None, "settle", "roles"}
  /\ parting \in {None, "cancelling", "devices"}
  /\ restart \in {None, "stopping", "roles"}
  /\ role \in [Owners -> [Roles -> {None, "resolve", "connect"}]]
  /\ broken \in BOOLEAN /\ ours \subseteq Drivers /\ crossed \in BOOLEAN
  /\ missed \subseteq Roles /\ faults \in 0..MaxFaults /\ asks \in 0..MaxAsks

\* nocsd starts beside an indiserver it has not reached; a driver may run already.
Init ==
  /\ linked = FALSE
  /\ up \in [Drivers -> {0, 1}]
  /\ view = [d \in Drivers |-> None] /\ on = [d \in Drivers |-> FALSE]
  /\ conn = "disconnected" /\ status = [r \in Roles |-> "disconnected"]
  /\ resolved = {} /\ started = {} /\ restarting = {} /\ listing = {}
  /\ pass = None /\ parting = None /\ restart = None /\ role = [o \in Owners |-> [r \in Roles |-> None]]
  /\ broken = FALSE /\ ours = {} /\ crossed = FALSE /\ missed = {}
  /\ faults = 0 /\ asks = 0

----------------------------------------------------------------------------
(* Helpers *)

Ask == asks < MaxAsks /\ asks' = asks + 1 /\ UNCHANGED faults
Fault == faults < MaxFaults /\ faults' = faults + 1 /\ UNCHANGED asks

\* DriverFifo.start and stop of sets of drivers, and what NOCS has running; a device outlives its driver in the view
\* until indiserver has told.
Fifo(start, stop) ==
  /\ up' = [d \in Drivers |-> IF d \in stop THEN 0
                              ELSE IF d \in start /\ up[d] < 2 THEN up[d] + 1 ELSE up[d]]
  /\ view' = [d \in Drivers |-> IF d \in stop /\ view[d] = "live" THEN "stale" ELSE view[d]]
  /\ UNCHANGED <<linked, on>>

\* The driver that a restart has stopped, to start it again.
Stopping == IF restart = "stopping" /\ ~broken THEN restarting ELSE {}
Own(start, stop) == Fifo(start, stop) /\ ours' = (ours \ (stop \ Stopping)) \cup start

Set(roles, s) == [r \in Roles |-> IF r \in roles THEN s ELSE status[r]]
RoleTasks(o, roles, at) ==
  [role EXCEPT ![o] = [r \in Roles |-> IF r \in roles THEN at ELSE @[r]]]
Of(o) == {r \in Roles : role[o][r] # None}
EveryRole(s) == [r \in Roles |-> s]

----------------------------------------------------------------------------
(* Connecting a profile *)

TaskDone == pass = None /\ parting = None

\* _connect up to its first await.
PassBegins ==
  /\ conn' = "connecting" /\ status' = EveryRole("waiting")
  /\ pass' = IF linked THEN "settle" ELSE None

\* connect: also a retry of the profile that is connected.
Connect ==
  /\ Ask
  /\ conn # "disconnecting" /\ TaskDone
  /\ PassBegins
  /\ crossed' = (crossed \/ restart # None)
  /\ UNCHANGED <<indi, resolved, started, restarting, listing, parting, restart, role, broken,
                 ours, missed>>

\* _settle: every driver that runs has defined its device.  Then _start_drivers.
PassStarts ==
  /\ pass = "settle"
  /\ \A d \in Drivers : up[d] > 0 => view[d] # None \/ d \in listing \/ d \in restarting
  /\ LET wanted == {DriverOf[r] : r \in Roles}
         missing == {d \in wanted \ listing : view[d] = None}
     IN /\ Own(missing, {})
        /\ started' = started \cup missing \cup (wanted \cap listing)
  /\ role' = RoleTasks("pass", Roles, "resolve")
  /\ pass' = "roles"
  /\ UNCHANGED <<conn, status, resolved, restarting, listing, parting, restart, broken,
                 crossed, missed, bounds>>

\* (Mutant) The device is noted only once it is connected.
RoleResolves_Unnoted(o, r) ==
  /\ role[o][r] = "resolve"
  /\ view[DriverOf[r]] # None
  /\ o = "restart" => ~broken
  /\ status' = Set({r}, "connecting")
  /\ role' = RoleTasks(o, {r}, "connect")
  /\ UNCHANGED <<indi, conn, resolved, started, restarting, listing, pass, parting, restart,
                 broken, ghosts, bounds>>

\* _connect_role: the device is there.
RoleResolves(o, r) ==
  /\ role[o][r] = "resolve"
  /\ view[DriverOf[r]] # None
  /\ o = "restart" => ~broken
  /\ resolved' = resolved \cup {r}
  /\ status' = Set({r}, "connecting")
  /\ role' = RoleTasks(o, {r}, "connect")
  /\ UNCHANGED <<indi, conn, started, restarting, listing, pass, parting, restart, broken,
                 ghosts, bounds>>

\* (Mutant) The driver is given up on but not stopped.
RoleNotFound_Runs(o, r) ==
  /\ role[o][r] = "resolve"
  /\ view[DriverOf[r]] = None /\ DriverOf[r] \notin listing
  /\ status' = Set({r}, "error")
  /\ role' = RoleTasks(o, {r}, None)
  /\ started' = started \ {DriverOf[r]}
  /\ UNCHANGED <<indi, conn, resolved, restarting, listing, pass, parting, restart, broken,
                 ghosts, bounds>>

\* ... or is not, in time: _not_found stops a driver NOCS started.
RoleNotFound(o, r) ==
  /\ role[o][r] = "resolve"
  /\ view[DriverOf[r]] = None /\ DriverOf[r] \notin listing
  /\ status' = Set({r}, "error")
  /\ role' = RoleTasks(o, {r}, None)
  /\ started' = started \ {DriverOf[r]}
  /\ Own({}, {DriverOf[r]} \cap started)
  /\ UNCHANGED <<conn, resolved, restarting, listing, pass, parting, restart, broken,
                 crossed, missed, bounds>>

\* Device.connect is answered, or fails.
RoleConnects(o, r) ==
  /\ role[o][r] = "connect"
  /\ LET d == DriverOf[r] IN
     \/ /\ view[d] = "live" /\ (o = "restart" => ~broken)
        /\ on' = [on EXCEPT ![d] = TRUE] /\ status' = Set({r}, "ready")
     \/ /\ UNCHANGED on /\ status' = Set({r}, "error")
  /\ role' = RoleTasks(o, {r}, None)
  /\ missed' = missed \ {r}
  /\ UNCHANGED <<linked, up, view, conn, resolved, started, restarting, listing, pass, parting,
                 restart, broken, ours, crossed, bounds>>

PassEnds ==
  /\ pass = "roles" /\ Of("pass") = {}
  /\ conn' = "connected" /\ pass' = None
  /\ UNCHANGED <<indi, status, resolved, started, restarting, listing, parting, restart, role,
                 broken, ghosts, bounds>>

\* An error nobody expected ends the pass; the profile stays as it is, until the user
\* connects it again or disconnects it, or indiserver goes and comes back.
PassFails ==
  /\ pass # None /\ Fault
  /\ conn' = "failed" /\ pass' = None /\ role' = RoleTasks("pass", Roles, None)
  /\ UNCHANGED <<indi, status, resolved, started, restarting, listing, parting, restart,
                 broken, ghosts>>

----------------------------------------------------------------------------
(* Disconnecting *)

\* disconnect: a task under way is cancelled at its await, and awaited.
Disconnect ==
  /\ Ask
  /\ conn \notin {"disconnected", "disconnecting"}
  /\ IF TaskDone THEN conn' = "disconnecting" /\ parting' = "devices"
                 ELSE parting' = "cancelling" /\ UNCHANGED conn
  /\ pass' = None /\ role' = RoleTasks("pass", Roles, None)
  /\ crossed' = (crossed \/ restart # None)
  /\ UNCHANGED <<indi, status, resolved, started, restarting, listing, restart, broken, ours,
                 missed>>

\* The task that was cancelled is done.
PreviousEnds ==
  /\ parting = "cancelling"
  /\ conn' = "disconnecting" /\ parting' = "devices"
  /\ UNCHANGED <<indi, status, resolved, started, restarting, listing, pass, restart, role,
                 broken, ghosts, bounds>>

\* (Mutant) Every device must have answered.
PartingEnds_Waits ==
  /\ parting = "devices" /\ \A r \in resolved : ~on[DriverOf[r]]
  /\ Own({}, started)
  /\ started' = {} /\ resolved' = {}
  /\ status' = EveryRole("disconnected") /\ conn' = "disconnected"
  /\ parting' = None
  /\ missed' = {}
  /\ UNCHANGED <<restarting, listing, pass, restart, role, broken, crossed, bounds>>

\* The devices are off, or did not answer in time; the drivers NOCS started stop.
PartingEnds ==
  /\ parting = "devices"
  /\ Own({}, started)
  /\ started' = {} /\ resolved' = {}
  /\ status' = EveryRole("disconnected") /\ conn' = "disconnected"
  /\ parting' = None
  /\ missed' = {}
  /\ UNCHANGED <<restarting, listing, pass, restart, role, broken, crossed, bounds>>

----------------------------------------------------------------------------
(* Restarting a driver, and listing the devices of one *)

RestartDriver(d) ==
  /\ Ask
  /\ restart = None /\ RolesOf(d) # {}
  /\ conn = "connected" /\ linked
  /\ restarting' = {d}
  /\ status' = Set(RolesOf(d), "waiting")
  /\ Fifo({}, {d})
  /\ restart' = "stopping" /\ broken' = FALSE
  /\ crossed' = (crossed \/ pass # None \/ parting # None \/ listing # {})
  /\ UNCHANGED <<conn, resolved, started, listing, pass, parting, role, ours, missed>>

\* Its device is gone: it starts again, and its roles connect.  Whose driver it is stays as
\* it was: one that NOCS gave up on is not its own any more.
RestartStarts ==
  /\ restart = "stopping" /\ ~broken
  /\ \E d \in restarting :
       /\ view[d] = None
       /\ Fifo({d}, {}) /\ resolved' = resolved \ RolesOf(d)
       /\ role' = RoleTasks("restart", RolesOf(d), "resolve")
  /\ restart' = "roles"
  /\ UNCHANGED <<conn, status, started, restarting, listing, pass, parting, broken, ghosts,
                 bounds>>

\* indiserver is lost meanwhile: the roles stay as they are, or fail.
RestartFails ==
  /\ broken /\ restart # None
  /\ restart' = None /\ restarting' = {} /\ broken' = FALSE
  /\ status' = Set(Of("restart"), "error")
  /\ role' = RoleTasks("restart", Roles, None)
  /\ UNCHANGED <<indi, conn, resolved, started, listing, pass, parting, ghosts, bounds>>

RestartEnds ==
  /\ restart = "roles" /\ ~broken /\ Of("restart") = {}
  /\ restart' = None /\ restarting' = {}
  /\ UNCHANGED <<indi, conn, status, resolved, started, listing, pass, parting, role, broken,
                 ghosts, bounds>>

\* list_devices of a driver that does not seem to run: it is started for the question.
ListDevices(d) ==
  /\ Ask
  /\ linked /\ view[d] = None /\ d \notin listing
  /\ Own({d}, {})
  /\ listing' = listing \cup {d}
  /\ crossed' = (crossed \/ up[d] > 0 \/ restart # None)
  /\ UNCHANGED <<conn, status, resolved, started, restarting, tasks, missed>>

\* Answered, late or cut off; the driver stops unless a pass wanted it meanwhile.
ListEnds(d) ==
  /\ d \in listing
  /\ listing' = listing \ {d}
  /\ Own({}, {d} \ started)
  /\ UNCHANGED <<conn, status, resolved, started, restarting, tasks, crossed, missed, bounds>>

----------------------------------------------------------------------------
(* indiserver and the drivers *)

\* The profile is to be connected: CONNECTING or CONNECTED.
Wanted == {"connecting", "failed", "connected"}

\* (Mutant) Only a profile that was connected connects again.
Linked_Forgets ==
  /\ ~linked
  /\ linked' = TRUE
  /\ IF conn = "connected"
     THEN conn' = "connecting" /\ status' = EveryRole("waiting") /\ pass' = "settle"
     ELSE UNCHANGED <<conn, status, pass>>
  /\ UNCHANGED <<up, view, on, resolved, started, restarting, listing, parting, restart, role,
                 broken, ghosts, bounds>>

\* _on_client(client): a profile that was connected connects again.
Linked ==
  /\ ~linked
  /\ linked' = TRUE
  /\ IF conn \in Wanted
     THEN conn' = "connecting" /\ status' = EveryRole("waiting") /\ pass' = "settle"
     ELSE UNCHANGED <<conn, status, pass>>
  /\ UNCHANGED <<up, view, on, resolved, started, restarting, listing, parting, restart, role,
                 broken, ghosts, bounds>>

\* What becomes of _disconnect when indiserver goes.  While it waits for the task before it
\* the profile still is to be connected: it is cancelled with that.  A command to a device
\* that is on fails with a ConnectionError if it is sent once the connection is closed, and
\* nobody catches that: the task ends and the profile stays DISCONNECTING.
PartingsLeft ==
  CASE parting = "cancelling" -> {None}
    [] parting = "devices" /\ (\E r \in resolved : on[DriverOf[r]]) -> {parting, None}
    [] OTHER -> {parting}

\* _on_client(None): the task under way is cancelled.  indiserver may have gone with its
\* drivers, or only the connection.
LinkLost ==
  /\ linked /\ Fault
  /\ linked' = FALSE
  /\ up' \in {up, [d \in Drivers |-> 0]}
  /\ ours' = IF up' = up THEN ours ELSE {}
  /\ view' = [d \in Drivers |-> None] /\ on' = [d \in Drivers |-> FALSE]
  /\ broken' = (restart # None)
  /\ IF conn \in Wanted
     THEN /\ pass' = None /\ conn' = "connecting" /\ status' = EveryRole("waiting")
          /\ role' = RoleTasks("pass", Roles, None)
          /\ missed' = {}
     ELSE UNCHANGED <<pass, conn, status, role, missed>>
  /\ parting' \in PartingsLeft
  /\ UNCHANGED <<resolved, started, restarting, listing, restart, crossed>>

DriverDefines(d) ==
  /\ linked /\ up[d] > 0 /\ view[d] = None
  /\ view' = [view EXCEPT ![d] = "live"] /\ on' = [on EXCEPT ![d] = FALSE]
  /\ UNCHANGED <<linked, up, state, tasks, ghosts, bounds>>

\* _on_event: a role notices what becomes of its device only while the profile is connected,
\* and that it goes only if its driver is not being restarted.
Noticed(d, s, expected) ==
  LET mine == RolesOf(d) \cap resolved IN
  /\ status' = IF conn = "connected" /\ ~expected THEN Set(mine, s) ELSE status
  /\ missed' = IF conn = "connected" /\ ~expected THEN missed \ mine
               ELSE missed \cup {r \in mine : status[r] = "ready"}

\* The device of a driver that was stopped goes, or of one that crashed: indiserver
\* starts that again.
DeviceGone(d) ==
  /\ \/ view[d] = "stale" /\ UNCHANGED bounds
     \/ view[d] = "live" /\ Fault
  /\ view' = [view EXCEPT ![d] = None] /\ on' = [on EXCEPT ![d] = FALSE]
  /\ Noticed(d, "error", d \in restarting)
  /\ UNCHANGED <<linked, up, conn, resolved, started, restarting, listing, tasks, ours, crossed>>

\* The device is disconnected by another client or by its driver.
DeviceOff(d) ==
  /\ view[d] = "live" /\ on[d] /\ Fault
  /\ on' = [on EXCEPT ![d] = FALSE]
  /\ Noticed(d, "disconnected", FALSE)
  /\ UNCHANGED <<linked, up, view, conn, resolved, started, restarting, listing, tasks, ours,
                 crossed>>

\* _on_unresponsive, and _on_event when the device answers again.
Unresponsive(d) ==
  /\ conn = "connected" /\ view[d] # None
  /\ \/ /\ d \notin restarting /\ Fault
        /\ status' = Set({r \in RolesOf(d) \cap resolved : status[r] = "ready"}, "unresponsive")
     \/ /\ UNCHANGED bounds
        /\ status' = Set({r \in RolesOf(d) \cap resolved : status[r] = "unresponsive"}, "ready")
  /\ UNCHANGED <<indi, conn, resolved, started, restarting, listing, tasks, ghosts>>

----------------------------------------------------------------------------
PassSteps == PassStarts \/ PassEnds
PartingSteps == PreviousEnds \/ PartingEnds
RoleSteps(o, r) == RoleResolves(o, r) \/ RoleNotFound(o, r) \/ RoleConnects(o, r)

Next ==
  \/ Connect \/ Disconnect \/ PassSteps \/ PassFails \/ PartingSteps
  \/ \E o \in Owners, r \in Roles : RoleSteps(o, r)
  \/ RestartStarts \/ RestartFails \/ RestartEnds \/ Linked \/ LinkLost
  \/ \E d \in Drivers : \/ RestartDriver(d) \/ ListDevices(d) \/ ListEnds(d)
                        \/ DriverDefines(d) \/ DeviceGone(d) \/ DeviceOff(d) \/ Unresponsive(d)

Spec == Init /\ [][Next]_vars

\* The tasks go on, each wait has its time limit, and drivers define their devices.
Fairness ==
  /\ WF_vars(PassSteps) /\ WF_vars(PartingSteps) /\ WF_vars(Linked)
  /\ \A o \in Owners, r \in Roles : WF_vars(RoleSteps(o, r))
  /\ \A d \in Drivers : WF_vars(DriverDefines(d)) /\ WF_vars(ListEnds(d))

FairSpec == Spec /\ Fairness

----------------------------------------------------------------------------
(* Properties *)

Idle == pass = None /\ parting = None /\ restart = None /\ listing = {}

\* Disconnecting stops the drivers NOCS started, whoever started them and for what: a
\* listing, a pass that was cancelled or lost its indiserver.  (Unless a restart met it.)
NothingLeftRunning == conn = "disconnected" /\ Idle /\ ~crossed => ours = {}

\* A role that is ready has a device that is there and connected, as far as indiserver has
\* told, unless it went while a pass ran.
ReadyIsThere ==
  conn = "connected" /\ ~crossed =>
    \A r \in Roles \ missed :
      status[r] = "ready" => on[DriverOf[r]] /\ view[DriverOf[r]] # None

\* A disconnect ends, whatever the devices and the pass before it do, and with indiserver
\* gone too, unless its task went with indiserver.
DisconnectEnds == parting # None ~> (conn = "disconnected" \/ (~linked /\ parting = None))

\* Connecting ends with the profile connected or with an error that the user is told, or
\* gives way to a disconnect, unless indiserver is not there.
PassCompletes == conn = "connecting" ~> (conn # "connecting" \/ ~linked)

----------------------------------------------------------------------------
(* What the repository says and the code does not do *)

\* EquipmentService.disconnect: "Disconnect every device of the profile and stop the
\* drivers NOCS started": a profile that is disconnecting is disconnected in the end.
DisconnectIsDone == conn = "disconnecting" ~> conn = "disconnected"

\* EquipmentService.disconnect: "Disconnect every device of the profile and stop the
\* drivers NOCS started": no role is ready afterwards.
DisconnectedIsQuiet == conn = "disconnected" => \A r \in Roles : status[r] # "ready"

=============================================================================
