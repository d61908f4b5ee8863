-------------------------- MODULE RigServices_proofs --------------------------
(***************************************************************************)
(* For any roles, drivers and frames: a role that is ready has its device,  *)
(* disconnecting leaves no driver running, and no file of a frame or of its *)
(* preview is left over, however tasks cross, drivers crash and workers die.*)
(***************************************************************************)
EXTENDS RigServices, FiniteSetTheorems, SequenceTheorems, TLAPS

(* The equipment service *)

EquipmentTypes ==
  /\ view \in [Drivers -> {"none", "live", "stale"}] /\ on \in [Drivers -> BOOLEAN]
  /\ conn \in {"disconnected", "connecting", "failed", "connected", "disconnecting"}
  /\ parting \in {"none", "cancelling", "devices"}
  /\ status \in [Roles -> E!Statuses]
  /\ role \in [E!Owners -> [Roles -> {"none", "resolve", "connect"}]]
  /\ broken \in BOOLEAN /\ crossed \in BOOLEAN

\* Each task is at work only where its caller left it.
TasksInv ==
  /\ pass # "none" => conn = "connecting" /\ linked
  /\ parting = "cancelling" => pass = "none" /\ conn = "connecting" /\ linked
  /\ parting = "devices" => pass = "none" /\ conn = "disconnecting"
  /\ pass # "roles" => E!Of("pass") = {}
  /\ restart # "roles" => E!Of("restart") = {}
  /\ restart = "none" => restarting = {}

Live(r) == status[r] \in {"ready", "unresponsive"}

\* While no restart meets a pass, a disconnect or a listing, it has the profile to itself.
AloneInv ==
  ~crossed /\ restart # "none" =>
    /\ parting = "none" /\ listing = {}
    /\ ~broken => pass = "none" /\ linked
    /\ restart = "stopping" /\ ~broken =>
         \A d \in restarting : \A r \in E!RolesOf(d) : ~Live(r)

\* A live role is one whose device the service listens to, and its device is there.
LiveInv ==
  ~crossed =>
    /\ \A o \in E!Owners, r \in Roles : role[o][r] = "connect" => r \in resolved
    /\ conn \in {"connecting", "connected"} =>
         \A r \in Roles : Live(r) =>
           /\ r \in resolved
           /\ r \notin missed => on[DriverOf[r]] /\ view[DriverOf[r]] # "none"

\* Devices go unresponsive only in a connected profile, and not while they restart.
UnresponsiveInv ==
  \A r \in Roles : status[r] = "unresponsive" =>
    conn # "connecting" /\ DriverOf[r] \notin restarting

\* What NOCS started, somebody is going to stop.
OursInv ==
  /\ ~crossed => ours \subseteq started \cup listing
  /\ conn = "disconnected" => started = {}

EquipmentInv ==
  EquipmentTypes /\ TasksInv /\ AloneInv /\ LiveInv /\ UnresponsiveInv /\ OursInv

LEMMA SetStatus ==
  ASSUME EquipmentTypes, NEW R, NEW s \in E!Statuses, status' = E!Set(R, s)
  PROVE  /\ status' \in [Roles -> E!Statuses]
         /\ \A r \in Roles : status'[r] = IF r \in R THEN s ELSE status[r]
BY DEF EquipmentTypes, E!Set

LEMMA SetTasks ==
  ASSUME EquipmentTypes, NEW o \in E!Owners, NEW R, NEW a \in {"none", "resolve", "connect"},
         role' = E!RoleTasks(o, R, a)
  PROVE  /\ role' \in [E!Owners -> [Roles -> {"none", "resolve", "connect"}]]
         /\ \A r \in Roles : role'[o][r] = IF r \in R THEN a ELSE role[o][r]
         /\ \A p \in E!Owners \ {o} : role'[p] = role[p]
<1> DEFINE t == [r \in Roles |-> IF r \in R THEN a ELSE role[o][r]]
<1>1. t \in [Roles -> {"none", "resolve", "connect"}]
  BY DEF EquipmentTypes
<1>2. role' = [role EXCEPT ![o] = t]
  BY DEF E!RoleTasks
<1>3. QED
  BY <1>1, <1>2 DEF EquipmentTypes

\* Starting and stopping drivers takes no device out of the view.
LEMMA FifoKeeps ==
  ASSUME EquipmentTypes, NEW start, NEW stop, E!Fifo(start, stop)
  PROVE  /\ view' \in [Drivers -> {"none", "live", "stale"}] /\ UNCHANGED <<linked, on>>
         /\ \A d \in Drivers : view'[d] = "none" <=> view[d] = "none"
BY DEF EquipmentTypes, E!Fifo

USE DEF E!None, E!Owners

LEMMA EquipmentInit == E!Init => EquipmentInv
<1> SUFFICES ASSUME E!Init PROVE EquipmentInv
  OBVIOUS
<1> USE DEF E!Init
<1>1. EquipmentTypes
  BY DEF EquipmentTypes, E!Statuses
<1>2. TasksInv
  BY DEF TasksInv, E!Of
<1>3. AloneInv /\ LiveInv /\ UnresponsiveInv /\ OursInv
  BY DEF AloneInv, LiveInv, UnresponsiveInv, OursInv
<1>4. QED
  BY <1>1, <1>2, <1>3 DEF EquipmentInv

\* A new pass, of the user or of the link.
LEMMA PassBegun ==
  ASSUME EquipmentInv, pass = "none", parting = "none", conn # "disconnecting",
         conn' = "connecting", status' = E!EveryRole("waiting"),
         pass' \in {"none", "settle"}, pass' = "settle" => linked',
         UNCHANGED <<view, on, resolved, started, restarting, listing, parting, restart, role,
                     broken, ours, missed>>,
         crossed' \in BOOLEAN, crossed => crossed',
         ~crossed' /\ restart # "none" => broken
  PROVE  EquipmentInv'
<1>1. \A r \in Roles : status'[r] = "waiting"
  BY DEF E!EveryRole
<1>2. EquipmentTypes'
  BY DEF EquipmentInv, EquipmentTypes, E!EveryRole, E!Statuses
<1>3. TasksInv'
  BY DEF EquipmentInv, TasksInv, E!Of
<1>4. AloneInv'
  BY DEF EquipmentInv, AloneInv
<1>5. LiveInv'
  BY <1>1 DEF EquipmentInv, LiveInv, Live
<1>6. UnresponsiveInv'
  BY <1>1 DEF UnresponsiveInv
<1>7. OursInv'
  BY DEF EquipmentInv, OursInv
<1>8. QED
  BY <1>2, <1>3, <1>4, <1>5, <1>6, <1>7 DEF EquipmentInv

LEMMA ConnectKeeps == ASSUME EquipmentInv, E!Connect PROVE EquipmentInv'
<1>1. /\ pass = "none" /\ parting = "none" /\ conn # "disconnecting"
      /\ conn' = "connecting" /\ status' = E!EveryRole("waiting")
      /\ pass' = IF linked THEN "settle" ELSE "none"
      /\ UNCHANGED <<linked, view, on, resolved, started, restarting, listing, parting, restart,
                     role, broken, ours, missed>>
      /\ crossed' = (crossed \/ restart # "none")
  BY DEF E!Connect, E!TaskDone, E!PassBegins, E!indi
<1>2. crossed \in BOOLEAN
  BY DEF EquipmentInv, EquipmentTypes
<1>3. QED
  BY <1>1, <1>2, PassBegun

LEMMA LinkedKeeps == ASSUME EquipmentInv, E!Linked PROVE EquipmentInv'
<1>1. /\ ~linked /\ linked'
      /\ UNCHANGED <<view, on, resolved, started, restarting, listing, parting, restart, role,
                     broken, ours, crossed, missed>>
  BY DEF E!Linked, E!ghosts
<1>2. crossed \in BOOLEAN /\ pass = "none" /\ (~crossed /\ restart # "none" => broken)
  BY <1>1 DEF EquipmentInv, EquipmentTypes, TasksInv, AloneInv
<1>3. CASE conn \in E!Wanted
  <2>1. conn' = "connecting" /\ status' = E!EveryRole("waiting") /\ pass' = "settle"
    BY <1>3 DEF E!Linked
  <2>2. parting = "none" /\ conn # "disconnecting"
    BY <1>1, <1>3 DEF EquipmentInv, EquipmentTypes, TasksInv, E!Wanted
  <2>3. QED
    BY <1>1, <1>2, <1>3, <2>1, <2>2, PassBegun
<1>4. CASE conn \notin E!Wanted
  <2>1. UNCHANGED <<conn, status, pass>>
    BY <1>4 DEF E!Linked
  <2>2. QED
    BY <1>1, <1>2, <2>1 DEF EquipmentInv, EquipmentTypes, TasksInv, AloneInv, LiveInv, Live,
                            UnresponsiveInv, OursInv, E!Of, E!Wanted
<1>5. QED
  BY <1>3, <1>4

\* No pass is under way while a restart has stopped a driver, or the two have met.
LEMMA NothingStopping ==
  ASSUME EquipmentInv, ~crossed,
         parting # "none" \/ listing # {} \/ E!Of("pass") # {} \/ E!Of("restart") # {}
  PROVE  E!Stopping = {}
BY DEF EquipmentInv, TasksInv, AloneInv, E!Stopping

LEMMA PassStartsKeeps == ASSUME EquipmentInv, E!PassStarts PROVE EquipmentInv'
<1> DEFINE missing == {d \in {DriverOf[r] : r \in Roles} \ listing : view[d] = "none"}
<1>1. /\ pass = "settle" /\ pass' = "roles" /\ E!Own(missing, {})
      /\ role' = E!RoleTasks("pass", Roles, "resolve")
      /\ started \cup missing \subseteq started'
      /\ UNCHANGED <<conn, status, resolved, restarting, listing, parting, restart, broken,
                     crossed, missed>>
  BY DEF E!PassStarts
<1>2. E!Fifo(missing, {}) /\ ours' \subseteq ours \cup missing
  BY <1>1 DEF E!Own
<1> HIDE DEF missing
<1>3. /\ view' \in [Drivers -> {"none", "live", "stale"}] /\ UNCHANGED <<linked, on>>
      /\ \A d \in Drivers : view'[d] = "none" <=> view[d] = "none"
  BY <1>2, FifoKeeps DEF EquipmentInv
<1>4. /\ role' \in [E!Owners -> [Roles -> {"none", "resolve", "connect"}]]
      /\ \A r \in Roles : role'["pass"][r] = "resolve"
      /\ role'["restart"] = role["restart"]
  BY <1>1, SetTasks DEF EquipmentInv
<1>5. EquipmentTypes'
  BY <1>1, <1>3, <1>4 DEF EquipmentInv, EquipmentTypes
<1>6. TasksInv'
  BY <1>1, <1>3, <1>4 DEF EquipmentInv, TasksInv, E!Of
<1>7. AloneInv'
  BY <1>1, <1>3 DEF EquipmentInv, AloneInv
<1>8. LiveInv'
  <2>1. \A o \in E!Owners, r \in Roles : role'[o][r] = "connect" => role[o][r] = "connect"
    BY <1>4
  <2>2. \A r \in Roles : DriverOf[r] \in Drivers
    BY RigServicesAssumption DEF E!EquipmentAssumption
  <2>3. QED
    BY <1>1, <1>3, <2>1, <2>2 DEF EquipmentInv, LiveInv, Live
<1>9. UnresponsiveInv' /\ OursInv'
  <2>1. UnresponsiveInv'
    BY <1>1 DEF EquipmentInv, UnresponsiveInv
  <2>2. conn # "disconnected"
    BY <1>1 DEF EquipmentInv, TasksInv
  <2>3. OursInv'
    BY <1>1, <1>2, <2>2 DEF EquipmentInv, OursInv
  <2>4. QED
    BY <2>1, <2>3
<1>10. QED
  BY <1>5, <1>6, <1>7, <1>8, <1>9 DEF EquipmentInv

LEMMA RoleResolvesKeeps ==
  ASSUME EquipmentInv, NEW o \in E!Owners, NEW r \in Roles, E!RoleResolves(o, r)
  PROVE  EquipmentInv'
<1>1. /\ role[o][r] = "resolve" /\ resolved' = resolved \cup {r}
      /\ status' = E!Set({r}, "connecting") /\ role' = E!RoleTasks(o, {r}, "connect")
      /\ UNCHANGED <<linked, view, on, conn, started, restarting, listing, pass, parting, restart,
                     broken, ours, crossed, missed>>
  BY DEF E!RoleResolves, E!indi, E!ghosts
<1>2. /\ status' \in [Roles -> E!Statuses]
      /\ \A q \in Roles : status'[q] = IF q = r THEN "connecting" ELSE status[q]
  BY <1>1, SetStatus DEF EquipmentInv, E!Statuses
<1>3. /\ role' \in [E!Owners -> [Roles -> {"none", "resolve", "connect"}]]
      /\ \A q \in Roles : role'[o][q] = IF q = r THEN "connect" ELSE role[o][q]
      /\ \A p \in E!Owners \ {o} : role'[p] = role[p]
  <2>1. EquipmentTypes /\ role' = E!RoleTasks(o, {r}, "connect")
    BY <1>1 DEF EquipmentInv
  <2>2. \A q \in Roles : role'[o][q] = IF q \in {r} THEN "connect" ELSE role[o][q]
    BY <2>1, SetTasks
  <2>3. QED
    BY <2>1, <2>2, SetTasks
<1>4. EquipmentTypes'
  BY <1>1, <1>2, <1>3 DEF EquipmentInv, EquipmentTypes
<1>5. TasksInv'
  BY <1>1, <1>3 DEF EquipmentInv, TasksInv, E!Of
<1>6. AloneInv'
  <2>1. r \in E!Of(o)
    BY <1>1 DEF E!Of
  <2>2. ~crossed /\ restart = "stopping" => broken
    BY <2>1 DEF EquipmentInv, AloneInv, TasksInv
  <2>3. QED
    BY <1>1, <2>2 DEF EquipmentInv, AloneInv
<1>7. LiveInv'
  <2>1. ~crossed => \A p \in E!Owners, q \in Roles : role'[p][q] = "connect" => q \in resolved'
    BY <1>1, <1>3 DEF EquipmentInv, LiveInv
  <2>2. QED
    BY <1>1, <1>2, <2>1 DEF EquipmentInv, LiveInv, Live
<1>8. UnresponsiveInv' /\ OursInv'
  BY <1>1, <1>2 DEF EquipmentInv, UnresponsiveInv, OursInv
<1>9. QED
  BY <1>4, <1>5, <1>6, <1>7, <1>8 DEF EquipmentInv

\* What the end of a role's task, found or not, leaves true of the tasks.
LEMMA RoleEnds ==
  ASSUME EquipmentInv, NEW o \in E!Owners, NEW r \in Roles, role[o][r] # "none",
         NEW s \in E!Statuses, status' = E!Set({r}, s),
         role' = E!RoleTasks(o, {r}, "none"),
         UNCHANGED <<linked, conn, resolved, restarting, listing, pass, parting, restart, broken,
                     crossed>>
  PROVE  /\ status' \in [Roles -> E!Statuses]
         /\ \A q \in Roles : status'[q] = IF q = r THEN s ELSE status[q]
         /\ role' \in [E!Owners -> [Roles -> {"none", "resolve", "connect"}]]
         /\ \A p \in E!Owners, q \in Roles : role'[p][q] \in {"none", role[p][q]}
         /\ TasksInv' /\ AloneInv' /\ (s # "unresponsive" => UnresponsiveInv')
<1>2. /\ status' \in [Roles -> E!Statuses]
      /\ \A q \in Roles : status'[q] = IF q = r THEN s ELSE status[q]
  BY SetStatus DEF EquipmentInv
<1>3. /\ role' \in [E!Owners -> [Roles -> {"none", "resolve", "connect"}]]
      /\ \A q \in Roles : role'[o][q] = IF q = r THEN "none" ELSE role[o][q]
      /\ \A p \in E!Owners \ {o} : role'[p] = role[p]
  <2>1. EquipmentTypes /\ role' = E!RoleTasks(o, {r}, "none")
    BY DEF EquipmentInv
  <2>2. \A q \in Roles : role'[o][q] = IF q \in {r} THEN "none" ELSE role[o][q]
    BY <2>1, SetTasks
  <2>3. QED
    BY <2>1, <2>2, SetTasks
<1>4. \A p \in E!Owners, q \in Roles : role'[p][q] \in {"none", role[p][q]}
  BY <1>3
<1>5. TasksInv'
  BY <1>4 DEF EquipmentInv, TasksInv, E!Of
<1>6. AloneInv'
  <2>1. r \in E!Of(o)
    BY DEF E!Of
  <2>2. ~crossed /\ restart = "stopping" => broken
    BY <2>1 DEF EquipmentInv, AloneInv, TasksInv
  <2>3. QED
    BY <2>2 DEF EquipmentInv, AloneInv
<1>7. s # "unresponsive" => UnresponsiveInv'
  BY <1>2 DEF EquipmentInv, UnresponsiveInv
<1>8. QED
  BY <1>2, <1>3, <1>4, <1>5, <1>6, <1>7

LEMMA RoleNotFoundKeeps ==
  ASSUME EquipmentInv, NEW o \in E!Owners, NEW r \in Roles, E!RoleNotFound(o, r)
  PROVE  EquipmentInv'
<1> DEFINE d == DriverOf[r]
           stop == {d} \cap started
<1>1. /\ role[o][r] = "resolve" /\ d \notin listing
      /\ status' = E!Set({r}, "error") /\ role' = E!RoleTasks(o, {r}, "none")
      /\ started' = started \ {d} /\ E!Own({}, stop)
      /\ UNCHANGED <<conn, resolved, restarting, listing, pass, parting, restart, broken,
                     crossed, missed>>
  BY DEF E!RoleNotFound
<1>2. E!Fifo({}, stop) /\ ours' = ours \ (stop \ E!Stopping)
  BY <1>1 DEF E!Own
<1>3. /\ view' \in [Drivers -> {"none", "live", "stale"}] /\ UNCHANGED <<linked, on>>
      /\ \A c \in Drivers : view'[c] = "none" <=> view[c] = "none"
  BY <1>2, FifoKeeps DEF EquipmentInv
<1>4. /\ status' \in [Roles -> E!Statuses]
      /\ \A q \in Roles : status'[q] = IF q = r THEN "error" ELSE status[q]
      /\ role' \in [E!Owners -> [Roles -> {"none", "resolve", "connect"}]]
      /\ \A p \in E!Owners, q \in Roles : role'[p][q] \in {"none", role[p][q]}
      /\ TasksInv' /\ AloneInv' /\ UnresponsiveInv'
  BY <1>1, <1>3, RoleEnds DEF E!Statuses
<1>5. EquipmentTypes'
  BY <1>1, <1>3, <1>4 DEF EquipmentInv, EquipmentTypes
<1>6. LiveInv'
  <2>1. \A q \in Roles : DriverOf[q] \in Drivers
    BY RigServicesAssumption DEF E!EquipmentAssumption
  <2>2. \A p \in E!Owners, q \in Roles : role'[p][q] = "connect" => role[p][q] = "connect"
    BY <1>4
  <2>3. ASSUME NEW q \in Roles, Live(q)' PROVE Live(q)
    BY <1>4, <2>3 DEF Live
  <2>4. QED
    BY <1>1, <1>3, <2>1, <2>2, <2>3 DEF EquipmentInv, LiveInv
<1>7. OursInv'
  <2>1. r \in E!Of(o)
    BY <1>1 DEF E!Of
  <2>2. ~crossed => E!Stopping = {}
    BY <2>1, NothingStopping
  <2>3. QED
    BY <1>1, <1>2, <2>2 DEF EquipmentInv, OursInv
<1>8. QED
  BY <1>4, <1>5, <1>6, <1>7 DEF EquipmentInv

LEMMA RoleConnectsKeeps ==
  ASSUME EquipmentInv, NEW o \in E!Owners, NEW r \in Roles, E!RoleConnects(o, r)
  PROVE  EquipmentInv'
<1>1. /\ role[o][r] = "connect" /\ role' = E!RoleTasks(o, {r}, "none") /\ missed' = missed \ {r}
      /\ UNCHANGED <<linked, view, conn, resolved, started, restarting, listing, pass, parting,
                     restart, broken, ours, crossed>>
  BY DEF E!RoleConnects
<1>2. PICK s \in {"ready", "error"} :
        /\ status' = E!Set({r}, s)
        /\ \/ s = "ready" /\ view[DriverOf[r]] = "live" /\ on' = [on EXCEPT ![DriverOf[r]] = TRUE]
           \/ s = "error" /\ on' = on
  BY DEF E!RoleConnects
<1>3. /\ status' \in [Roles -> E!Statuses]
      /\ \A q \in Roles : status'[q] = IF q = r THEN s ELSE status[q]
      /\ role' \in [E!Owners -> [Roles -> {"none", "resolve", "connect"}]]
      /\ \A p \in E!Owners, q \in Roles : role'[p][q] \in {"none", role[p][q]}
      /\ TasksInv' /\ AloneInv' /\ UnresponsiveInv'
  BY <1>1, <1>2, RoleEnds DEF E!Statuses
<1>4. EquipmentTypes'
  BY <1>1, <1>2, <1>3 DEF EquipmentInv, EquipmentTypes
<1>5. LiveInv'
  <2>1. \A q \in Roles : DriverOf[q] \in Drivers
    BY RigServicesAssumption DEF E!EquipmentAssumption
  <2>2. /\ \A d \in Drivers : on[d] => on'[d]
        /\ s = "ready" => view[DriverOf[r]] # "none" /\ on'[DriverOf[r]]
    BY <1>2, <2>1 DEF EquipmentInv, EquipmentTypes
  <2>3. ~crossed => r \in resolved
    BY <1>1 DEF EquipmentInv, LiveInv
  <2>4. \A p \in E!Owners, q \in Roles : role'[p][q] = "connect" => role[p][q] = "connect"
    BY <1>3
  <2>5. ASSUME NEW q \in Roles, Live(q)' PROVE IF q = r THEN s = "ready" ELSE Live(q)
    BY <1>3, <2>5 DEF Live
  <2>6. ASSUME NEW q \in Roles, Live(q)', ~crossed, conn \in {"connecting", "connected"}
        PROVE  q \in resolved /\ (q \notin missed' => on'[DriverOf[q]] /\ view[DriverOf[q]] # "none")
    <3>1. CASE q = r
      BY <2>2, <2>3, <2>5, <2>6, <3>1
    <3>2. CASE q # r
      BY <1>1, <2>1, <2>2, <2>5, <2>6, <3>2 DEF EquipmentInv, LiveInv
    <3>3. QED
      BY <3>1, <3>2
  <2>7. QED
    BY <1>1, <2>4, <2>6 DEF EquipmentInv, LiveInv
<1>6. OursInv'
  BY <1>1 DEF EquipmentInv, OursInv
<1>7. QED
  BY <1>3, <1>4, <1>5, <1>6 DEF EquipmentInv

LEMMA PassEndsKeeps == ASSUME EquipmentInv, E!PassEnds PROVE EquipmentInv'
<1>1. /\ pass = "roles" /\ E!Of("pass") = {} /\ conn' = "connected" /\ pass' = "none"
      /\ UNCHANGED <<linked, view, on, status, resolved, started, restarting, listing, parting,
                     restart, role, broken, ours, crossed, missed>>
  BY DEF E!PassEnds, E!indi, E!ghosts
<1>2. conn = "connecting" /\ parting = "none"
  BY <1>1 DEF EquipmentInv, EquipmentTypes, TasksInv
<1>3. EquipmentTypes' /\ AloneInv' /\ LiveInv' /\ UnresponsiveInv' /\ OursInv'
  BY <1>1, <1>2 DEF EquipmentInv, EquipmentTypes, AloneInv, LiveInv, Live, UnresponsiveInv, OursInv
<1>4. TasksInv'
  BY <1>1, <1>2 DEF EquipmentInv, TasksInv, E!Of
<1>5. QED
  BY <1>3, <1>4 DEF EquipmentInv

LEMMA PassFailsKeeps == ASSUME EquipmentInv, E!PassFails PROVE EquipmentInv'
<1>1. /\ pass # "none" /\ conn' = "failed" /\ pass' = "none"
      /\ role' = E!RoleTasks("pass", Roles, "none")
      /\ UNCHANGED <<linked, view, on, status, resolved, started, restarting, listing, parting,
                     restart, broken, ours, crossed, missed>>
  BY DEF E!PassFails, E!indi, E!ghosts
<1>2. conn = "connecting" /\ parting = "none"
  BY <1>1 DEF EquipmentInv, EquipmentTypes, TasksInv
<1>3. /\ role' \in [E!Owners -> [Roles -> {"none", "resolve", "connect"}]]
      /\ \A r \in Roles : role'["pass"][r] = "none"
      /\ role'["restart"] = role["restart"]
  BY <1>1, SetTasks DEF EquipmentInv
<1>4. EquipmentTypes'
  BY <1>1, <1>3 DEF EquipmentInv, EquipmentTypes
<1>5. TasksInv'
  BY <1>1, <1>2, <1>3 DEF EquipmentInv, TasksInv, E!Of
<1>6. AloneInv' /\ UnresponsiveInv' /\ OursInv'
  BY <1>1, <1>2 DEF EquipmentInv, AloneInv, UnresponsiveInv, OursInv
<1>7. LiveInv'
  <2>1. \A o \in E!Owners, r \in Roles : role'[o][r] = "connect" => role[o][r] = "connect"
    BY <1>3
  <2>2. QED
    BY <1>1, <2>1 DEF EquipmentInv, LiveInv
<1>8. QED
  BY <1>4, <1>5, <1>6, <1>7 DEF EquipmentInv

LEMMA DisconnectKeeps == ASSUME EquipmentInv, E!Disconnect PROVE EquipmentInv'
<1>1. /\ conn \notin {"disconnected", "disconnecting"}
      /\ pass' = "none" /\ role' = E!RoleTasks("pass", Roles, "none")
      /\ crossed' = (crossed \/ restart # "none")
      /\ UNCHANGED <<linked, view, on, status, resolved, started, restarting, listing, restart,
                     broken, ours, missed>>
  BY DEF E!Disconnect, E!indi
<1>2. \/ conn' = "disconnecting" /\ parting' = "devices"
      \/ conn' = conn /\ conn = "connecting" /\ linked /\ parting' = "cancelling"
  BY <1>1 DEF E!Disconnect, E!TaskDone, EquipmentInv, EquipmentTypes, TasksInv
<1>3. /\ role' \in [E!Owners -> [Roles -> {"none", "resolve", "connect"}]]
      /\ \A r \in Roles : role'["pass"][r] = "none"
      /\ role'["restart"] = role["restart"]
  BY <1>1, SetTasks DEF EquipmentInv
<1>4. EquipmentTypes'
  BY <1>1, <1>2, <1>3 DEF EquipmentInv, EquipmentTypes
<1>5. TasksInv'
  BY <1>1, <1>2, <1>3 DEF EquipmentInv, TasksInv, E!Of
<1>6. AloneInv' /\ UnresponsiveInv' /\ OursInv'
  BY <1>1, <1>2 DEF EquipmentInv, AloneInv, UnresponsiveInv, OursInv
<1>7. LiveInv'
  <2>1. \A o \in E!Owners, r \in Roles : role'[o][r] = "connect" => role[o][r] = "connect"
    BY <1>3
  <2>2. QED
    BY <1>1, <1>2, <2>1 DEF EquipmentInv, LiveInv, Live
<1>8. QED
  BY <1>4, <1>5, <1>6, <1>7 DEF EquipmentInv

LEMMA PreviousEndsKeeps == ASSUME EquipmentInv, E!PreviousEnds PROVE EquipmentInv'
<1>1. /\ parting = "cancelling" /\ conn' = "disconnecting" /\ parting' = "devices"
      /\ UNCHANGED <<linked, view, on, status, resolved, started, restarting, listing, pass,
                     restart, role, broken, ours, crossed, missed>>
  BY DEF E!PreviousEnds, E!indi, E!ghosts
<1>2. EquipmentTypes' /\ AloneInv' /\ LiveInv' /\ UnresponsiveInv' /\ OursInv'
  BY <1>1 DEF EquipmentInv, EquipmentTypes, AloneInv, LiveInv, Live, UnresponsiveInv, OursInv
<1>3. TasksInv'
  BY <1>1 DEF EquipmentInv, TasksInv, E!Of
<1>4. QED
  BY <1>2, <1>3 DEF EquipmentInv

LEMMA PartingEndsKeeps == ASSUME EquipmentInv, E!PartingEnds PROVE EquipmentInv'
<1>1. /\ parting = "devices" /\ parting' = "none" /\ E!Own({}, started)
      /\ started' = {} /\ resolved' = {} /\ missed' = {}
      /\ status' = E!EveryRole("disconnected") /\ conn' = "disconnected"
      /\ UNCHANGED <<restarting, listing, pass, restart, role, broken, crossed>>
  BY DEF E!PartingEnds
<1>2. E!Fifo({}, started) /\ ours' = ours \ (started \ E!Stopping)
  BY <1>1 DEF E!Own
<1>3. view' \in [Drivers -> {"none", "live", "stale"}] /\ UNCHANGED <<linked, on>>
  BY <1>2, FifoKeeps DEF EquipmentInv
<1>4. \A r \in Roles : status'[r] = "disconnected"
  BY <1>1 DEF E!EveryRole
<1>5. EquipmentTypes'
  BY <1>1, <1>3 DEF EquipmentInv, EquipmentTypes, E!EveryRole, E!Statuses
<1>6. TasksInv'
  BY <1>1, <1>3 DEF EquipmentInv, TasksInv, E!Of
<1>7. ~crossed => restart = "none" /\ E!Stopping = {}
  BY <1>1, NothingStopping DEF EquipmentInv, AloneInv
<1>8. AloneInv' /\ UnresponsiveInv' /\ OursInv'
  BY <1>1, <1>2, <1>4, <1>7 DEF EquipmentInv, AloneInv, UnresponsiveInv, OursInv
<1>9. LiveInv'
  <2>1. ~crossed => E!Of("pass") = {} /\ E!Of("restart") = {}
    BY <1>1, <1>7 DEF EquipmentInv, TasksInv
  <2>2. QED
    BY <1>1, <2>1 DEF LiveInv, E!Of
<1>10. QED
  BY <1>5, <1>6, <1>8, <1>9 DEF EquipmentInv

LEMMA RestartDriverKeeps ==
  ASSUME EquipmentInv, NEW d \in Drivers, E!RestartDriver(d)
  PROVE  EquipmentInv'
<1>1. /\ restart = "none" /\ conn = "connected" /\ linked /\ restarting' = {d}
      /\ status' = E!Set(E!RolesOf(d), "waiting") /\ E!Fifo({}, {d})
      /\ restart' = "stopping" /\ broken' = FALSE
      /\ crossed' = (crossed \/ pass # "none" \/ parting # "none" \/ listing # {})
      /\ UNCHANGED <<conn, resolved, started, listing, pass, parting, role, ours, missed>>
  BY DEF E!RestartDriver
<1>2. /\ view' \in [Drivers -> {"none", "live", "stale"}] /\ UNCHANGED <<linked, on>>
      /\ \A c \in Drivers : view'[c] = "none" <=> view[c] = "none"
  BY <1>1, FifoKeeps DEF EquipmentInv
<1>3. /\ status' \in [Roles -> E!Statuses]
      /\ \A q \in Roles : status'[q] = IF q \in E!RolesOf(d) THEN "waiting" ELSE status[q]
  BY <1>1, SetStatus DEF EquipmentInv, E!Statuses
<1>4. EquipmentTypes'
  BY <1>1, <1>2, <1>3 DEF EquipmentInv, EquipmentTypes
<1>5. TasksInv' /\ AloneInv' /\ OursInv'
  <2>1. TasksInv'
    BY <1>1, <1>2 DEF EquipmentInv, TasksInv, E!Of
  <2>2. AloneInv'
    <3>1. \A q \in E!RolesOf(d) : ~Live(q)'
      BY <1>3 DEF E!RolesOf, Live
    <3>2. QED
      BY <1>1, <1>2, <3>1 DEF EquipmentInv, AloneInv
  <2>3. OursInv'
    BY <1>1 DEF EquipmentInv, OursInv
  <2>4. QED
    BY <2>1, <2>2, <2>3
<1>6. LiveInv'
  <2>1. \A q \in Roles : DriverOf[q] \in Drivers
    BY RigServicesAssumption DEF E!EquipmentAssumption
  <2>2. ASSUME NEW q \in Roles, Live(q)' PROVE Live(q)
    BY <1>3, <2>2 DEF Live
  <2>3. QED
    BY <1>1, <1>2, <2>1, <2>2 DEF EquipmentInv, LiveInv
<1>7. UnresponsiveInv'
  BY <1>1, <1>3 DEF EquipmentInv, UnresponsiveInv, E!RolesOf
<1>8. QED
  BY <1>4, <1>5, <1>6, <1>7 DEF EquipmentInv

LEMMA RestartStartsKeeps == ASSUME EquipmentInv, E!RestartStarts PROVE EquipmentInv'
<1>1. PICK d \in restarting :
        /\ E!Fifo({d}, {}) /\ resolved' = resolved \ E!RolesOf(d)
        /\ role' = E!RoleTasks("restart", E!RolesOf(d), "resolve")
  BY DEF E!RestartStarts
<1>2. /\ restart = "stopping" /\ ~broken /\ restart' = "roles"
      /\ UNCHANGED <<conn, status, started, restarting, listing, pass, parting, broken,
                     ours, crossed, missed>>
  BY DEF E!RestartStarts, E!ghosts
<1>3. /\ view' \in [Drivers -> {"none", "live", "stale"}] /\ UNCHANGED <<linked, on>>
      /\ \A c \in Drivers : view'[c] = "none" <=> view[c] = "none"
  BY <1>1, FifoKeeps DEF EquipmentInv
<1>4. /\ role' \in [E!Owners -> [Roles -> {"none", "resolve", "connect"}]]
      /\ \A q \in Roles : role'["restart"][q] = IF q \in E!RolesOf(d) THEN "resolve"
                                                ELSE role["restart"][q]
      /\ role'["pass"] = role["pass"]
  BY <1>1, SetTasks DEF EquipmentInv
<1>5. EquipmentTypes'
  BY <1>2, <1>3, <1>4 DEF EquipmentInv, EquipmentTypes
<1>6. TasksInv' /\ AloneInv' /\ OursInv' /\ UnresponsiveInv'
  <2>1. TasksInv'
    BY <1>2, <1>3, <1>4 DEF EquipmentInv, TasksInv, E!Of
  <2>2. AloneInv' /\ OursInv' /\ UnresponsiveInv'
    BY <1>2, <1>3 DEF EquipmentInv, AloneInv, OursInv, UnresponsiveInv
  <2>3. QED
    BY <2>1, <2>2
<1>7. LiveInv'
  <2>1. ~crossed => /\ E!Of("pass") = {} /\ E!Of("restart") = {}
                    /\ \A q \in E!RolesOf(d) : ~Live(q)
    BY <1>2 DEF EquipmentInv, TasksInv, AloneInv
  <2>2. ASSUME ~crossed, NEW p \in E!Owners, NEW q \in Roles PROVE role'[p][q] # "connect"
    BY <1>4, <2>1, <2>2 DEF E!Of
  <2>3. \A q \in Roles : DriverOf[q] \in Drivers
    BY RigServicesAssumption DEF E!EquipmentAssumption
  <2>4. ASSUME ~crossed, NEW q \in Roles, Live(q)' PROVE Live(q) /\ q \notin E!RolesOf(d)
    <3>1. Live(q)
      BY <1>2, <2>4 DEF Live
    <3>2. QED
      BY <2>1, <2>4, <3>1
  <2>5. QED
    BY <1>1, <1>2, <1>3, <2>2, <2>3, <2>4 DEF EquipmentInv, LiveInv
<1>8. QED
  BY <1>5, <1>6, <1>7 DEF EquipmentInv

LEMMA RestartFailsKeeps == ASSUME EquipmentInv, E!RestartFails PROVE EquipmentInv'
<1>1. /\ broken /\ restart' = "none" /\ restarting' = {} /\ broken' = FALSE
      /\ status' = E!Set(E!Of("restart"), "error")
      /\ role' = E!RoleTasks("restart", Roles, "none")
      /\ UNCHANGED <<linked, view, on, conn, resolved, started, listing, pass, parting,
                     ours, crossed, missed>>
  BY DEF E!RestartFails, E!indi, E!ghosts
<1>2. /\ status' \in [Roles -> E!Statuses]
      /\ \A q \in Roles : status'[q] \in {"error", status[q]}
  BY <1>1, SetStatus DEF EquipmentInv, E!Statuses
<1>3. /\ role' \in [E!Owners -> [Roles -> {"none", "resolve", "connect"}]]
      /\ \A q \in Roles : role'["restart"][q] = "none"
      /\ role'["pass"] = role["pass"]
  BY <1>1, SetTasks DEF EquipmentInv
<1>4. EquipmentTypes'
  BY <1>1, <1>2, <1>3 DEF EquipmentInv, EquipmentTypes
<1>5. TasksInv'
  BY <1>1, <1>3 DEF EquipmentInv, TasksInv, E!Of
<1>6. AloneInv' /\ OursInv' /\ UnresponsiveInv'
  BY <1>1, <1>2 DEF EquipmentInv, AloneInv, OursInv, UnresponsiveInv
<1>7. LiveInv'
  <2>1. \A p \in E!Owners, q \in Roles : role'[p][q] = "connect" => role[p][q] = "connect"
    BY <1>3
  <2>2. ASSUME NEW q \in Roles, Live(q)' PROVE Live(q)
    BY <1>2, <2>2 DEF Live
  <2>3. QED
    BY <1>1, <2>1, <2>2 DEF EquipmentInv, LiveInv
<1>8. QED
  BY <1>4, <1>5, <1>6, <1>7 DEF EquipmentInv

LEMMA RestartEndsKeeps == ASSUME EquipmentInv, E!RestartEnds PROVE EquipmentInv'
<1>1. /\ restart = "roles" /\ E!Of("restart") = {} /\ restart' = "none" /\ restarting' = {}
      /\ UNCHANGED <<linked, view, on, conn, status, resolved, started, listing, pass, parting,
                     role, broken, ours, crossed, missed>>
  BY DEF E!RestartEnds, E!indi, E!ghosts
<1>2. TasksInv'
  BY <1>1 DEF EquipmentInv, TasksInv, E!Of
<1>3. EquipmentTypes' /\ AloneInv' /\ LiveInv' /\ UnresponsiveInv' /\ OursInv'
  BY <1>1 DEF EquipmentInv, EquipmentTypes, AloneInv, LiveInv, Live, UnresponsiveInv, OursInv
<1>4. QED
  BY <1>2, <1>3 DEF EquipmentInv

\* A listing starts a driver, or stops it again.
LEMMA ListingKeeps ==
  ASSUME EquipmentInv, NEW d \in Drivers, E!ListDevices(d) \/ E!ListEnds(d)
  PROVE  EquipmentInv'
<1> DEFINE start == IF d \in listing THEN {} ELSE {d}
           stop == IF d \in listing THEN {d} \ started ELSE {}
<1>1. /\ E!Own(start, stop)
      /\ listing' = (listing \ {d}) \cup start
      /\ UNCHANGED <<conn, status, resolved, started, restarting, pass, parting, restart, role,
                     broken, missed>>
      /\ crossed' \in BOOLEAN /\ (crossed => crossed')
      /\ ~crossed' /\ start # {} => restart = "none"
  <2>1. crossed \in BOOLEAN
    BY DEF EquipmentInv, EquipmentTypes
  <2>2. CASE E!ListDevices(d)
    BY <2>1, <2>2 DEF E!ListDevices, E!tasks
  <2>3. CASE E!ListEnds(d)
    BY <2>1, <2>3 DEF E!ListEnds, E!tasks
  <2>4. QED
    BY <2>2, <2>3
<1>2. E!Fifo(start, stop) /\ ours' = (ours \ (stop \ E!Stopping)) \cup start
  BY <1>1 DEF E!Own
<1>3. ~crossed /\ stop # {} => E!Stopping = {}
  BY NothingStopping
<1>4. OursInv'
  BY <1>1, <1>2, <1>3 DEF EquipmentInv, OursInv
<1>5. AloneInv'
  <2>1. linked' = linked
    BY <1>2 DEF E!Fifo
  <2>2. ~crossed' /\ restart # "none" => listing' = {}
    BY <1>1 DEF EquipmentInv, AloneInv
  <2>3. QED
    BY <1>1, <2>1, <2>2 DEF EquipmentInv, AloneInv
<1> HIDE DEF start, stop
<1>6. /\ view' \in [Drivers -> {"none", "live", "stale"}] /\ UNCHANGED <<linked, on>>
      /\ \A c \in Drivers : view'[c] = "none" <=> view[c] = "none"
  BY <1>2, FifoKeeps DEF EquipmentInv
<1>7. EquipmentTypes' /\ TasksInv' /\ UnresponsiveInv'
  BY <1>1, <1>6 DEF EquipmentInv, EquipmentTypes, TasksInv, UnresponsiveInv, E!Of
<1>8. LiveInv'
  <2>1. \A q \in Roles : DriverOf[q] \in Drivers /\ (Live(q)' => Live(q))
    BY <1>1, RigServicesAssumption DEF E!EquipmentAssumption, Live
  <2>2. QED
    BY <1>1, <1>6, <2>1 DEF EquipmentInv, LiveInv
<1>9. QED
  BY <1>4, <1>5, <1>7, <1>8 DEF EquipmentInv

LEMMA LinkLostKeeps == ASSUME EquipmentInv, E!LinkLost PROVE EquipmentInv'
<1>1. /\ linked /\ linked' = FALSE /\ ours' \in {ours, {}}
      /\ view' = [d \in Drivers |-> "none"] /\ on' = [d \in Drivers |-> FALSE]
      /\ broken' = (restart # "none")
      /\ UNCHANGED <<resolved, started, restarting, listing, restart, crossed>>
      /\ parting' \in E!PartingsLeft
  BY DEF E!LinkLost
<1>a. /\ parting' \in {"none", "devices"}
      /\ parting' = "devices" => parting = "devices"
  BY <1>1 DEF EquipmentInv, EquipmentTypes, E!PartingsLeft
<1>2. CASE conn \in E!Wanted
  <2>1. /\ pass' = "none" /\ conn' = "connecting" /\ status' = E!EveryRole("waiting")
        /\ role' = E!RoleTasks("pass", Roles, "none")
    BY <1>2 DEF E!LinkLost
  <2>2. /\ role' \in [E!Owners -> [Roles -> {"none", "resolve", "connect"}]]
        /\ \A r \in Roles : role'["pass"][r] = "none"
        /\ role'["restart"] = role["restart"]
    BY <2>1, SetTasks DEF EquipmentInv
  <2>3. \A r \in Roles : status'[r] = "waiting"
    BY <2>1 DEF E!EveryRole
  <2>4. EquipmentTypes'
    BY <1>1, <1>a, <2>1, <2>2 DEF EquipmentInv, EquipmentTypes, E!EveryRole, E!Statuses
  <2>5. TasksInv'
    BY <1>1, <1>a, <1>2, <2>1, <2>2 DEF EquipmentInv, TasksInv, E!Of, E!Wanted
  <2>6. AloneInv' /\ UnresponsiveInv' /\ OursInv'
    BY <1>1, <1>a, <2>1, <2>3 DEF EquipmentInv, AloneInv, UnresponsiveInv, OursInv
  <2>7. LiveInv'
    <3>1. \A p \in E!Owners, q \in Roles : role'[p][q] = "connect" => role[p][q] = "connect"
      BY <2>2
    <3>2. \A q \in Roles : ~Live(q)'
      BY <2>3 DEF Live
    <3>3. QED
      BY <1>1, <3>1, <3>2 DEF EquipmentInv, LiveInv
  <2>8. QED
    BY <2>4, <2>5, <2>6, <2>7 DEF EquipmentInv
<1>3. CASE conn \notin E!Wanted
  <2>1. UNCHANGED <<pass, conn, status, role, missed>>
    BY <1>3 DEF E!LinkLost
  <2>2. EquipmentTypes' /\ OursInv' /\ UnresponsiveInv'
    BY <1>1, <1>a, <2>1 DEF EquipmentInv, EquipmentTypes, OursInv, UnresponsiveInv
  <2>3. TasksInv'
    BY <1>1, <1>a, <1>3, <2>1 DEF EquipmentInv, TasksInv, E!Of, E!Wanted
  <2>4. AloneInv' /\ LiveInv'
    BY <1>1, <1>a, <1>3, <2>1 DEF EquipmentInv, AloneInv, LiveInv, E!Wanted
  <2>5. QED
    BY <2>2, <2>3, <2>4 DEF EquipmentInv
<1>4. QED
  BY <1>2, <1>3

\* What becomes of one device, of which the service hears or not.
LEMMA DeviceSteps ==
  ASSUME EquipmentInv, NEW d \in Drivers, NEW v \in {"none", "live"},
         view' = [view EXCEPT ![d] = v], on' = [on EXCEPT ![d] = FALSE],
         status' \in [Roles -> E!Statuses],
         \A r \in Roles : Live(r)' => status'[r] = status[r],
         ~crossed /\ conn \in {"connecting", "connected"} =>
           \A r \in Roles : Live(r)' => DriverOf[r] # d \/ r \in missed',
         conn \in {"connecting", "connected"} =>
           \A r \in Roles : Live(r)' /\ r \in missed => r \in missed',
         UNCHANGED <<linked, conn, resolved, started, restarting, listing, pass, parting, restart,
                     role, broken, ours, crossed>>
  PROVE  EquipmentInv'
<1>1. EquipmentTypes'
  BY DEF EquipmentInv, EquipmentTypes
<1>2. TasksInv' /\ OursInv'
  BY DEF EquipmentInv, TasksInv, OursInv, E!Of
<1>3. AloneInv'
  <2>1. \A r \in Roles : Live(r)' => Live(r)
    BY DEF Live
  <2>2. QED
    BY <2>1 DEF EquipmentInv, AloneInv, E!RolesOf
<1>4. UnresponsiveInv'
  <2>1. ASSUME NEW r \in Roles, status'[r] = "unresponsive" PROVE status[r] = "unresponsive"
    BY <2>1 DEF Live
  <2>2. QED
    BY <2>1 DEF EquipmentInv, UnresponsiveInv
<1>5. LiveInv'
  <2>1. ASSUME NEW r \in Roles, Live(r)' PROVE Live(r)
    BY <2>1 DEF Live
  <2>2. \A c \in Drivers \ {d} : view'[c] = view[c] /\ on'[c] = on[c]
    BY DEF EquipmentInv, EquipmentTypes
  <2>3. \A q \in Roles : DriverOf[q] \in Drivers
    BY RigServicesAssumption DEF E!EquipmentAssumption
  <2>4. ASSUME ~crossed, conn \in {"connecting", "connected"}, NEW r \in Roles, Live(r)'
        PROVE  r \in resolved /\ (r \notin missed' => on'[DriverOf[r]] /\ view'[DriverOf[r]] # "none")
    BY <2>1, <2>2, <2>3, <2>4 DEF EquipmentInv, LiveInv
  <2>5. QED
    BY <2>4 DEF EquipmentInv, LiveInv
<1>6. QED
  BY <1>1, <1>2, <1>3, <1>4, <1>5 DEF EquipmentInv

LEMMA DriverDefinesKeeps ==
  ASSUME EquipmentInv, NEW d \in Drivers, E!DriverDefines(d) PROVE EquipmentInv'
<1>1. /\ view[d] = "none"
      /\ view' = [view EXCEPT ![d] = "live"] /\ on' = [on EXCEPT ![d] = FALSE]
      /\ UNCHANGED <<linked, conn, status, resolved, started, restarting, listing, pass, parting,
                     restart, role, broken, ours, crossed, missed>>
  BY DEF E!DriverDefines, E!state, E!tasks, E!ghosts
<1>2. \A r \in Roles : Live(r)' => Live(r) /\ status'[r] = status[r]
  BY <1>1 DEF Live
<1>3. ~crossed /\ conn \in {"connecting", "connected"} =>
        \A r \in Roles : Live(r)' => DriverOf[r] # d \/ r \in missed'
  BY <1>1, <1>2 DEF EquipmentInv, LiveInv
<1>4. status' \in [Roles -> E!Statuses]
  BY <1>1 DEF EquipmentInv, EquipmentTypes
<1>5. QED
  BY <1>1, <1>2, <1>3, <1>4, DeviceSteps

\* What the roles of a device that goes notice: those that do not notice are missed.
LEMMA NoticedKeeps ==
  ASSUME EquipmentInv, NEW d \in Drivers, NEW s \in {"error", "disconnected"},
         NEW expected \in BOOLEAN, expected => d \in restarting, E!Noticed(d, s, expected)
  PROVE  /\ status' \in [Roles -> E!Statuses]
         /\ \A r \in Roles : Live(r)' => Live(r) /\ status'[r] = status[r]
         /\ ~crossed /\ conn \in {"connecting", "connected"} =>
              \A r \in Roles : Live(r)' => DriverOf[r] # d \/ r \in missed'
         /\ conn \in {"connecting", "connected"} =>
              \A r \in Roles : Live(r)' /\ r \in missed => r \in missed'
<1> DEFINE mine == E!RolesOf(d) \cap resolved
           heard == conn = "connected" /\ ~expected
<1>1. /\ status' = IF heard THEN E!Set(mine, s) ELSE status
      /\ missed' = IF heard THEN missed \ mine ELSE missed \cup {r \in mine : status[r] = "ready"}
  BY DEF E!Noticed
<1>2. \A r \in Roles : r \in mine <=> DriverOf[r] = d /\ r \in resolved
  BY DEF E!RolesOf
<1>3. CASE heard
  <2>1. status' = E!Set(mine, s) /\ missed' = missed \ mine
    BY <1>1, <1>3
  <2>2. s \in E!Statuses
    BY DEF E!Statuses
  <2>3. /\ status' \in [Roles -> E!Statuses]
        /\ \A r \in Roles : status'[r] = IF r \in mine THEN s ELSE status[r]
    BY <2>1, <2>2, SetStatus DEF EquipmentInv
  <2>4. \A r \in Roles : Live(r)' => r \notin mine /\ Live(r) /\ status'[r] = status[r]
    BY <2>3 DEF Live
  <2>5. ~crossed /\ conn \in {"connecting", "connected"} => \A r \in Roles : Live(r) => r \in resolved
    BY DEF EquipmentInv, LiveInv
  <2> HIDE DEF mine, heard
  <2>6. QED
    BY <1>2, <2>1, <2>3, <2>4, <2>5
<1>4. CASE ~heard
  <2>1. status' = status /\ missed' = missed \cup {r \in mine : status[r] = "ready"}
    BY <1>1, <1>4
  <2>2. \A r \in Roles : Live(r)' => Live(r) /\ status'[r] = status[r]
    BY <2>1 DEF Live
  <2>3. ASSUME ~crossed, conn \in {"connecting", "connected"}, NEW r \in Roles, Live(r)', DriverOf[r] = d
        PROVE  r \in missed'
    <3>1. Live(r) /\ r \in resolved
      BY <2>2, <2>3 DEF EquipmentInv, LiveInv
    <3>2. status[r] # "unresponsive"
      BY <1>4, <2>3 DEF EquipmentInv, UnresponsiveInv
    <3>3. QED
      BY <1>2, <2>1, <2>3, <3>1, <3>2 DEF Live
  <2>4. status' \in [Roles -> E!Statuses]
    BY <2>1 DEF EquipmentInv, EquipmentTypes
  <2>5. QED
    BY <2>1, <2>2, <2>3, <2>4
<1>5. QED
  BY <1>3, <1>4

LEMMA DeviceGoneKeeps ==
  ASSUME EquipmentInv, NEW d \in Drivers, E!DeviceGone(d) PROVE EquipmentInv'
<1>1. /\ view' = [view EXCEPT ![d] = "none"] /\ on' = [on EXCEPT ![d] = FALSE]
      /\ E!Noticed(d, "error", d \in restarting)
      /\ UNCHANGED <<linked, conn, resolved, started, restarting, listing, pass, parting, restart,
                     role, broken, ours, crossed>>
  BY DEF E!DeviceGone, E!tasks
<1>2. /\ status' \in [Roles -> E!Statuses]
      /\ \A r \in Roles : Live(r)' => Live(r) /\ status'[r] = status[r]
      /\ ~crossed /\ conn \in {"connecting", "connected"} =>
           \A r \in Roles : Live(r)' => DriverOf[r] # d \/ r \in missed'
      /\ conn \in {"connecting", "connected"} =>
           \A r \in Roles : Live(r)' /\ r \in missed => r \in missed'
  <2>1. (d \in restarting) \in BOOLEAN
    OBVIOUS
  <2>2. QED
    BY <1>1, <2>1, NoticedKeeps
<1>3. QED
  BY <1>1, <1>2, DeviceSteps

LEMMA DeviceOffKeeps ==
  ASSUME EquipmentInv, NEW d \in Drivers, E!DeviceOff(d) PROVE EquipmentInv'
<1>1. /\ view[d] = "live" /\ on' = [on EXCEPT ![d] = FALSE] /\ view' = view
      /\ E!Noticed(d, "disconnected", FALSE)
      /\ UNCHANGED <<linked, conn, resolved, started, restarting, listing, pass, parting, restart,
                     role, broken, ours, crossed>>
  BY DEF E!DeviceOff, E!tasks
<1>2. view' = [view EXCEPT ![d] = "live"]
  BY <1>1 DEF EquipmentInv, EquipmentTypes
<1>3. /\ status' \in [Roles -> E!Statuses]
      /\ \A r \in Roles : Live(r)' => Live(r) /\ status'[r] = status[r]
      /\ ~crossed /\ conn \in {"connecting", "connected"} =>
           \A r \in Roles : Live(r)' => DriverOf[r] # d \/ r \in missed'
      /\ conn \in {"connecting", "connected"} =>
           \A r \in Roles : Live(r)' /\ r \in missed => r \in missed'
  BY <1>1, NoticedKeeps
<1>4. QED
  BY <1>1, <1>2, <1>3, DeviceSteps

\* A device that no longer answers, and answers again, was there all the time.
LEMMA UnresponsiveKeeps ==
  ASSUME EquipmentInv, NEW d \in Drivers, E!Unresponsive(d) PROVE EquipmentInv'
<1>1. PICK s \in {"ready", "unresponsive"} :
        /\ status' = E!Set({r \in E!RolesOf(d) \cap resolved :
                               status[r] = IF s = "ready" THEN "unresponsive" ELSE "ready"}, s)
        /\ s = "unresponsive" => d \notin restarting
  BY DEF E!Unresponsive
<1>2. /\ conn = "connected"
      /\ UNCHANGED <<linked, view, on, conn, resolved, started, restarting, listing, pass, parting,
                     restart, role, broken, ours, crossed, missed>>
  BY DEF E!Unresponsive, E!indi, E!tasks, E!ghosts
<1> DEFINE turned == {r \in E!RolesOf(d) \cap resolved :
                        status[r] = IF s = "ready" THEN "unresponsive" ELSE "ready"}
<1>3. /\ status' \in [Roles -> E!Statuses]
      /\ \A r \in Roles : status'[r] = IF r \in turned THEN s ELSE status[r]
  <2>1. s \in E!Statuses
    BY DEF E!Statuses
  <2>2. QED
    BY <1>1, <2>1, SetStatus DEF EquipmentInv
<1>4. \A r \in turned : DriverOf[r] = d /\ Live(r)
  BY DEF E!RolesOf, Live
<1> HIDE DEF turned
<1>5. \A r \in Roles : Live(r)' => Live(r)
  BY <1>3, <1>4 DEF Live
<1>6. EquipmentTypes' /\ TasksInv' /\ OursInv'
  BY <1>2, <1>3 DEF EquipmentInv, EquipmentTypes, TasksInv, OursInv, E!Of
<1>7. AloneInv'
  BY <1>2, <1>5 DEF EquipmentInv, AloneInv, E!RolesOf
<1>8. UnresponsiveInv'
  <2>1. ASSUME NEW r \in Roles, status'[r] = "unresponsive"
        PROVE  status[r] = "unresponsive" \/ (DriverOf[r] = d /\ s = "unresponsive")
    BY <1>3, <1>4, <2>1
  <2>2. QED
    BY <1>1, <1>2, <2>1 DEF EquipmentInv, UnresponsiveInv
<1>9. LiveInv'
  BY <1>2, <1>5 DEF EquipmentInv, LiveInv
<1>10. QED
  BY <1>6, <1>7, <1>8, <1>9 DEF EquipmentInv

LEMMA EquipmentStays == ASSUME EquipmentInv, UNCHANGED equipmentVars PROVE EquipmentInv'
BY DEF EquipmentInv, EquipmentTypes, TasksInv, AloneInv, LiveInv, Live, UnresponsiveInv, OursInv,
       E!Of, equipmentVars

LEMMA EquipmentStep == ASSUME EquipmentInv, E!Next PROVE EquipmentInv'
<1>1. ASSUME NEW o \in E!Owners, NEW r \in Roles, E!RoleSteps(o, r) PROVE EquipmentInv'
  BY <1>1, RoleResolvesKeeps, RoleNotFoundKeeps, RoleConnectsKeeps DEF E!RoleSteps
<1>2. ASSUME NEW d \in Drivers,
             \/ E!RestartDriver(d) \/ E!ListDevices(d) \/ E!ListEnds(d)
             \/ E!DriverDefines(d) \/ E!DeviceGone(d) \/ E!DeviceOff(d) \/ E!Unresponsive(d)
      PROVE  EquipmentInv'
  BY <1>2, RestartDriverKeeps, ListingKeeps, DriverDefinesKeeps, DeviceGoneKeeps, DeviceOffKeeps,
     UnresponsiveKeeps
<1>3. CASE E!Connect \/ E!Disconnect \/ E!PassSteps \/ E!PassFails \/ E!PartingSteps
  BY <1>3, ConnectKeeps, DisconnectKeeps, PassStartsKeeps, PassEndsKeeps, PassFailsKeeps,
     PreviousEndsKeeps, PartingEndsKeeps
     DEF E!PassSteps, E!PartingSteps
<1>4. CASE E!RestartStarts \/ E!RestartFails \/ E!RestartEnds \/ E!Linked \/ E!LinkLost
  BY <1>4, RestartStartsKeeps, RestartFailsKeeps, RestartEndsKeeps, LinkedKeeps, LinkLostKeeps
<1>5. QED
  BY <1>1, <1>2, <1>3, <1>4 DEF E!Next

----------------------------------------------------------------------------
(* The previews *)

PreviewTypes ==
  /\ stage \in [P!Frames -> P!InFlight \cup {"none", "done"}]
  /\ holder \in 0..Count /\ waiters \in Seq(P!Frames) /\ latest \in 0..Count
  /\ made \in Nat /\ pool \in 0..made /\ dead \subseteq 1..made
  /\ workingIn \in [P!Requests -> 0..made]
  /\ shown \in Seq(P!Frames) /\ jpgs \subseteq P!Frames /\ files \subseteq P!Frames
  /\ kept \in 0..Count /\ deleting \in [P!Frames -> 0..Count] /\ strays \subseteq P!Frames

Unshown == {"waiting", "analysing", "expiring"}
Busy == {"analysing", "expiring"}

\* The frames come in order; those that wait are in the queue once, and the one that has the
\* lock is the only one at work.
OrderInv ==
  /\ \A f, g \in P!Frames : f < g /\ stage[f] = "none" => stage[g] = "none"
  /\ \A f \in P!Frames : stage[f] # "none" => f <= latest
  /\ \A i \in 1..Len(waiters) : stage[waiters[i]] = "waiting"
  /\ \A i, j \in 1..Len(waiters) : waiters[i] = waiters[j] => i = j
  /\ \A f \in P!Frames : stage[f] \in Busy => f = holder /\ kept < f
  /\ \A f \in P!Frames : workingIn[f] # 0 => stage[f] = "analysing"

\* What is kept, or being deleted, is of a frame that was shown; deleting is behind.
KeptInv ==
  /\ kept # 0 => stage[kept] \in {"keeping", "done"}
  /\ \A f \in P!Frames : deleting[f] # 0 =>
       /\ stage[f] = "keeping" /\ deleting[f] < kept
       /\ stage[deleting[f]] \in {"keeping", "done"}

\* A file of its own, until it is shown; then it is kept, or about to be deleted.
FilesInv ==
  /\ files \cap Saved = {}
  /\ \A f \in P!Frames \ Saved : stage[f] \in Unshown => f \in files
  /\ kept # 0 /\ kept \notin Saved => kept \in files
  /\ \A f \in files :
       stage[f] \in Unshown \/ f = kept \/ \E g \in P!Frames : deleting[g] = f

\* What is on disk is remembered, but for one while it is deleted.
Remembered == {shown[i] : i \in 1..Len(shown)} \cup strays

JpgsInv ==
  /\ Len(shown) <= Keep
  /\ \E x \in P!Frames \cup {0} : jpgs \subseteq Remembered \cup {x}
  /\ (\A f \in P!Frames : stage[f] # "expiring") => jpgs \subseteq Remembered

PreviewsInv == PreviewTypes /\ OrderInv /\ KeptInv /\ FilesInv /\ JpgsInv

LEMMA FrameNumbers ==
  /\ Count \in Nat /\ Keep \in Nat \ {0} /\ P!Frames = 1..Count
  /\ P!Requests = P!Frames \cup Others /\ Others \cap P!Frames = {}
BY RigServicesAssumption DEF P!PreviewsAssumption, P!Frames, P!Requests

LEMMA PreviewsInit == P!Init => PreviewsInv
<1> SUFFICES ASSUME P!Init PROVE PreviewsInv
  OBVIOUS
<1> USE FrameNumbers DEF P!Init
<1>1. PreviewTypes
  BY DEF PreviewTypes
<1>2. OrderInv /\ KeptInv /\ FilesInv
  BY DEF OrderInv, KeptInv, FilesInv, Busy, Unshown
<1>3. JpgsInv
  BY DEF JpgsInv
<1>4. QED
  BY <1>1, <1>2, <1>3 DEF PreviewsInv

\* A request goes to the pool there is, or to a new one.
LEMMA Submits ==
  ASSUME PreviewTypes, NEW r \in P!Requests, P!Submit(r)
  PROVE  /\ made' \in Nat /\ pool' \in 0..made' /\ dead' \subseteq 1..made'
         /\ workingIn' \in [P!Requests -> 0..made']
         /\ \A q \in P!Requests \ {r} : workingIn'[q] = workingIn[q]
<1>1. CASE pool # 0
  BY <1>1 DEF PreviewTypes, P!Submit
<1>2. CASE pool = 0
  <2>1. pool' = made + 1 /\ made' = made + 1 /\ dead' = dead
        /\ workingIn' = [workingIn EXCEPT ![r] = made + 1]
    BY <1>2 DEF P!Submit
  <2>2. made \in Nat /\ workingIn \in [P!Requests -> 0..made] /\ dead \subseteq 1..made
    BY DEF PreviewTypes
  <2>3. \A q \in P!Requests : workingIn[q] \in 0..(made + 1)
    BY <2>2
  <2>4. workingIn' \in [P!Requests -> 0..(made + 1)]
    BY <2>1, <2>2, <2>3
  <2>5. dead \subseteq 1..(made + 1)
    BY <2>2
  <2>6. QED
    BY <2>1, <2>2, <2>4, <2>5
<1>3. QED
  BY <1>1, <1>2

\* The one that is at work has the lock, and what is kept is older.
LEMMA OneAtWork ==
  ASSUME PreviewsInv, NEW f \in P!Frames, stage[f] \in Busy
  PROVE  /\ f = holder /\ kept < f /\ deleting[f] = 0 /\ (f \notin Saved => f \in files)
         /\ \A g \in P!Frames \ {f} : stage[g] \notin Busy /\ workingIn[g] = 0
BY DEF PreviewsInv, OrderInv, KeptInv, FilesInv, Busy, Unshown

\* A frame that was at work gives the lock back.
LEMMA LockGivenBack ==
  ASSUME PreviewsInv, NEW f \in P!Frames, stage[f] \in Busy, NEW s \in {"keeping", "done"},
         stage' = [stage EXCEPT ![f] = s], holder' = 0, UNCHANGED <<waiters, latest>>,
         \A g \in P!Frames : workingIn'[g] = 0
  PROVE  OrderInv'
<1>1. /\ stage'[f] = s /\ stage[f] # "none" /\ stage[f] # "waiting"
      /\ \A g \in P!Frames \ {f} : stage'[g] = stage[g] /\ stage[g] \notin Busy
  BY OneAtWork DEF PreviewsInv, PreviewTypes, Busy
<1>2. \A i \in 1..Len(waiters) : waiters[i] \in P!Frames
  BY DEF PreviewsInv, PreviewTypes
<1>3. /\ \A g, h \in P!Frames : g < h /\ stage'[g] = "none" => stage'[h] = "none"
      /\ \A g \in P!Frames : stage'[g] # "none" => g <= latest'
  BY <1>1 DEF PreviewsInv, OrderInv
<1>4. /\ \A i \in 1..Len(waiters) : stage'[waiters[i]] = "waiting"
      /\ \A i, j \in 1..Len(waiters) : waiters[i] = waiters[j] => i = j
  BY <1>1, <1>2 DEF PreviewsInv, OrderInv
<1>5. \A g \in P!Frames : stage'[g] \notin Busy
  BY <1>1 DEF Busy
<1>6. QED
  BY <1>3, <1>4, <1>5 DEF OrderInv

\* The preview of a frame is there: the frame is kept in the place of an older one.
LEMMA ShownKeeps ==
  ASSUME PreviewsInv, NEW f \in P!Frames, stage[f] \in Busy, P!Shown(f)
  PROVE  /\ KeptInv' /\ FilesInv' /\ kept' = f /\ kept < f /\ UNCHANGED files
         /\ deleting' \in [P!Frames -> 0..Count]
         /\ \E s \in {"keeping", "done"} : stage' = [stage EXCEPT ![f] = s]
<1> USE FrameNumbers
<1>1. /\ kept < f /\ deleting[f] = 0 /\ (f \notin Saved => f \in files)
      /\ stage \in [P!Frames -> P!InFlight \cup {"none", "done"}]
      /\ kept \in 0..Count /\ deleting \in [P!Frames -> 0..Count] /\ files \subseteq P!Frames
  BY OneAtWork DEF PreviewsInv, PreviewTypes
<1>2. kept' = f /\ files' = files
  BY DEF P!Shown
<1>3. CASE kept # 0 /\ kept \notin Saved
  <2>1. /\ stage' = [stage EXCEPT ![f] = "keeping"]
        /\ deleting' = [deleting EXCEPT ![f] = kept]
    BY <1>3 DEF P!Shown, P!To
  <2>2. /\ stage'[f] = "keeping" /\ deleting'[f] = kept
        /\ \A g \in P!Frames \ {f} : stage'[g] = stage[g] /\ deleting'[g] = deleting[g]
    BY <1>1, <2>1
  <2>3. KeptInv'
    BY <1>1, <1>2, <1>3, <2>2 DEF PreviewsInv, KeptInv
  <2>4. FilesInv'
    BY <1>1, <1>2, <1>3, <2>2 DEF PreviewsInv, FilesInv, Unshown
  <2>5. QED
    BY <1>1, <1>2, <2>1, <2>3, <2>4
<1>4. CASE ~(kept # 0 /\ kept \notin Saved)
  <2>1. stage' = [stage EXCEPT ![f] = "done"] /\ deleting' = deleting
    BY <1>4 DEF P!Shown, P!To
  <2>2. stage'[f] = "done" /\ \A g \in P!Frames \ {f} : stage'[g] = stage[g]
    BY <1>1, <2>1
  <2>3. KeptInv'
    BY <1>1, <1>2, <2>1, <2>2 DEF PreviewsInv, KeptInv
  <2>4. kept \notin files
    BY <1>1, <1>4 DEF PreviewsInv, FilesInv
  <2>5. FilesInv'
    BY <1>1, <1>2, <2>1, <2>2, <2>4 DEF PreviewsInv, FilesInv, Unshown
  <2>6. QED
    BY <1>1, <1>2, <2>1, <2>3, <2>5
<1>5. QED
  BY <1>3, <1>4

\* A frame that is not shown takes its file with it.
LEMMA DiscardKeeps ==
  ASSUME PreviewsInv, NEW f \in P!Frames, stage[f] \in Unshown,
         stage' = [stage EXCEPT ![f] = "done"], P!Discard(f), UNCHANGED <<kept, deleting>>
  PROVE  KeptInv' /\ FilesInv' /\ files' \subseteq P!Frames
<1> USE FrameNumbers
<1>1. /\ stage'[f] = "done" /\ \A g \in P!Frames \ {f} : stage'[g] = stage[g]
      /\ files \subseteq P!Frames /\ files' = files \ {f}
  BY DEF PreviewsInv, PreviewTypes, FilesInv, P!Discard
<1>2. kept # f /\ deleting[f] = 0 /\ \A g \in P!Frames : deleting[g] # f
  BY DEF PreviewsInv, KeptInv, Unshown
<1>3. KeptInv'
  BY <1>1, <1>2 DEF PreviewsInv, PreviewTypes, KeptInv
<1>4. FilesInv'
  BY <1>1, <1>2 DEF PreviewsInv, PreviewTypes, FilesInv, Unshown
<1>5. QED
  BY <1>1, <1>3, <1>4

LEMMA StageTypes ==
  ASSUME PreviewTypes, NEW f \in P!Frames, NEW s \in P!InFlight \cup {"done"},
         stage' = [stage EXCEPT ![f] = s]
  PROVE  /\ stage' \in [P!Frames -> P!InFlight \cup {"none", "done"}]
         /\ stage'[f] = s /\ \A g \in P!Frames \ {f} : stage'[g] = stage[g]
BY DEF PreviewTypes

\* A frame leaves the lock with nothing new on disk, and those it had asked for.
LEMMA JpgsStay ==
  ASSUME PreviewsInv, NEW f \in P!Frames, NEW s \in {"keeping", "done"},
         stage' = [stage EXCEPT ![f] = s], jpgs' \subseteq Remembered, UNCHANGED <<shown, strays>>
  PROVE  JpgsInv'
BY DEF PreviewsInv, JpgsInv, Remembered

LEMMA JpgsUntouched ==
  ASSUME PreviewsInv, UNCHANGED <<jpgs, shown, strays>>,
         \A f \in P!Frames : stage[f] = "expiring" => stage'[f] = "expiring"
  PROVE  JpgsInv'
BY DEF PreviewsInv, JpgsInv, Remembered

\* What was remembered of the others is on disk when one is at work that has nothing to delete.
LEMMA NothingExpiring ==
  ASSUME PreviewsInv, NEW f \in P!Frames, stage[f] = "analysing"
  PROVE  jpgs \subseteq Remembered
BY OneAtWork DEF PreviewsInv, JpgsInv, Busy

LEMMA ArriveKeeps == ASSUME PreviewsInv, NEW f \in P!Frames, P!Arrive(f) PROVE PreviewsInv'
<1> USE FrameNumbers
<1>1. /\ stage[f] = "none" /\ \A g \in 1..(f - 1) : stage[g] # "none"
      /\ latest' = f /\ files' = IF f \in Saved THEN files ELSE files \cup {f}
      /\ UNCHANGED <<shown, jpgs, kept, deleting, strays>>
  BY DEF P!Arrive, P!previews, P!ghosts
<1>2. /\ \A g \in P!Frames : g < f => stage[g] # "none"
      /\ \A g \in P!Frames : f < g => stage[g] = "none"
  <2>1. \A g \in P!Frames : g < f => g \in 1..(f - 1)
    OBVIOUS
  <2>2. QED
    BY <1>1, <2>1 DEF PreviewsInv, OrderInv
<1>3. kept < f /\ deleting[f] = 0
  <2>1. kept # 0 => kept \in P!Frames /\ stage[kept] # "none"
    BY DEF PreviewsInv, PreviewTypes, KeptInv
  <2>2. kept # 0 => ~(f < kept) /\ kept # f
    BY <1>1, <1>2, <2>1
  <2>3. kept \in 0..Count /\ f \in 1..Count
    BY DEF PreviewsInv, PreviewTypes
  <2>4. deleting[f] = 0
    BY <1>1 DEF PreviewsInv, KeptInv
  <2>5. QED
    BY <2>2, <2>3, <2>4
<1>4. PICK s \in {"waiting", "analysing"} :
        /\ stage' = [stage EXCEPT ![f] = s]
        /\ s = "analysing" => /\ holder = 0 /\ holder' = f /\ P!Submit(f) /\ UNCHANGED waiters
        /\ s = "waiting" => /\ waiters' = Append(waiters, f)
                            /\ UNCHANGED <<holder, pool, made, dead, workingIn>>
  BY DEF P!Arrive, P!To, P!pools
<1>5. /\ stage' \in [P!Frames -> P!InFlight \cup {"none", "done"}]
      /\ stage'[f] = s /\ \A g \in P!Frames \ {f} : stage'[g] = stage[g]
  BY <1>4, StageTypes DEF PreviewsInv, P!InFlight
<1>6. /\ made' \in Nat /\ pool' \in 0..made' /\ dead' \subseteq 1..made'
      /\ workingIn' \in [P!Requests -> 0..made']
      /\ \A g \in P!Frames \ {f} : workingIn'[g] = workingIn[g]
      /\ s = "waiting" => workingIn' = workingIn
  <2>1. CASE s = "analysing"
    BY <1>4, <2>1, Submits DEF PreviewsInv
  <2>2. CASE s = "waiting"
    BY <1>4, <2>2 DEF PreviewsInv, PreviewTypes
  <2>3. QED
    BY <2>1, <2>2
<1>7. /\ waiters' \in Seq(P!Frames) /\ holder' \in 0..Count
      /\ \A i \in 1..Len(waiters') : stage'[waiters'[i]] = "waiting"
      /\ \A i, j \in 1..Len(waiters') : waiters'[i] = waiters'[j] => i = j
  <2>1. /\ waiters \in Seq(P!Frames) /\ holder \in 0..Count
        /\ \A i \in 1..Len(waiters) : waiters[i] \in P!Frames /\ stage[waiters[i]] = "waiting"
        /\ \A i, j \in 1..Len(waiters) : waiters[i] = waiters[j] => i = j
    BY DEF PreviewsInv, PreviewTypes, OrderInv
  <2>2. \A i \in 1..Len(waiters) : waiters[i] # f
    BY <1>1, <2>1
  <2>3. CASE s = "analysing"
    BY <1>4, <1>5, <2>1, <2>2, <2>3
  <2>4. CASE s = "waiting"
    <3>1. /\ waiters' = Append(waiters, f) /\ holder' = holder
      BY <1>4, <2>4
    <3>2. /\ waiters' \in Seq(P!Frames) /\ Len(waiters') = Len(waiters) + 1
          /\ \A i \in 1..Len(waiters) : waiters'[i] = waiters[i]
          /\ waiters'[Len(waiters) + 1] = f
      BY <2>1, <3>1
    <3>3. \A i \in 1..Len(waiters') : i \in 1..Len(waiters) \/ i = Len(waiters) + 1
      BY <2>1, <3>2
    <3>4. ASSUME NEW i \in 1..Len(waiters') PROVE stage'[waiters'[i]] = "waiting"
      <4>1. CASE i \in 1..Len(waiters)
        <5>1. waiters'[i] = waiters[i]
          BY <3>2, <4>1
        <5>2. waiters[i] \in P!Frames /\ waiters[i] # f /\ stage[waiters[i]] = "waiting"
          BY <2>1, <2>2, <4>1
        <5>3. QED
          BY <1>5, <5>1, <5>2
      <4>2. CASE i = Len(waiters) + 1
        BY <1>5, <2>4, <3>2, <4>2
      <4>3. QED
        BY <3>3, <3>4, <4>1, <4>2
    <3>5. \A i, j \in 1..Len(waiters') : waiters'[i] = waiters'[j] => i = j
      BY <2>1, <2>2, <3>2, <3>3
    <3>6. QED
      BY <2>1, <3>1, <3>2, <3>4, <3>5
  <2>5. QED
    BY <2>3, <2>4
<1>8. PreviewTypes'
  <2>1. latest' \in 0..Count /\ files' \subseteq P!Frames
    BY <1>1 DEF PreviewsInv, PreviewTypes
  <2>2. /\ shown' \in Seq(P!Frames) /\ jpgs' \subseteq P!Frames /\ strays' \subseteq P!Frames
        /\ kept' \in 0..Count /\ deleting' \in [P!Frames -> 0..Count]
    BY <1>1 DEF PreviewsInv, PreviewTypes
  <2>3. QED
    BY <1>5, <1>6, <1>7, <2>1, <2>2 DEF PreviewTypes
<1>9. OrderInv'
  <2>1. \A g, h \in P!Frames : g < h /\ stage'[g] = "none" => stage'[h] = "none"
    BY <1>2, <1>5 DEF PreviewsInv, OrderInv
  <2>2. \A g \in P!Frames : stage'[g] # "none" => g <= latest'
    BY <1>1, <1>2, <1>5
  <2>3. \A g \in P!Frames : stage'[g] \in Busy => g = holder' /\ kept' < g
    <3>1. \A g \in P!Frames : stage[g] \in Busy => g = holder /\ kept < g
      BY DEF PreviewsInv, OrderInv
    <3>2. QED
      BY <1>1, <1>3, <1>4, <1>5, <3>1 DEF Busy
  <2>4. \A g \in P!Frames : workingIn'[g] # 0 => stage'[g] = "analysing"
    BY <1>1, <1>5, <1>6 DEF PreviewsInv, OrderInv
  <2>5. QED
    BY <1>7, <2>1, <2>2, <2>3, <2>4 DEF OrderInv
<1>10. KeptInv'
  BY <1>1, <1>5 DEF PreviewsInv, PreviewTypes, KeptInv
<1>11. FilesInv'
  BY <1>1, <1>3, <1>5 DEF PreviewsInv, PreviewTypes, FilesInv, Unshown
<1>12. JpgsInv'
  BY <1>1, <1>5, JpgsUntouched
<1>13. QED
  BY <1>8, <1>9, <1>10, <1>11, <1>12 DEF PreviewsInv

\* The first that waits leaves the queue, for the lock or because there is a newer one.
LEMMA GrantedKeeps == ASSUME PreviewsInv, P!Granted PROVE PreviewsInv'
<1> USE FrameNumbers
<1> DEFINE f == Head(waiters)
<1>1. /\ holder = 0 /\ waiters # <<>> /\ waiters' = Tail(waiters)
      /\ UNCHANGED <<latest, shown, jpgs, kept, deleting, strays>>
  BY DEF P!Granted, P!previews, P!ghosts
<1>2. /\ waiters \in Seq(P!Frames) /\ Len(waiters) \in Nat \ {0} /\ f = waiters[1] /\ f \in P!Frames
      /\ waiters' \in Seq(P!Frames) /\ Len(waiters') = Len(waiters) - 1
      /\ \A i \in 1..Len(waiters') : waiters'[i] = waiters[i + 1]
  BY <1>1, HeadTailProperties, EmptySeq DEF PreviewsInv, PreviewTypes
<1>3. /\ stage[f] = "waiting"
      /\ \A i \in 1..Len(waiters') : waiters'[i] # f /\ waiters'[i] \in P!Frames
                                     /\ stage[waiters'[i]] = "waiting"
      /\ \A i, j \in 1..Len(waiters') : waiters'[i] = waiters'[j] => i = j
  <2>1. \A i \in 1..Len(waiters') : i + 1 \in 1..Len(waiters) /\ i + 1 # 1
    BY <1>2
  <2>2. /\ \A i \in 1..Len(waiters) : waiters[i] \in P!Frames /\ stage[waiters[i]] = "waiting"
        /\ \A i, j \in 1..Len(waiters) : waiters[i] = waiters[j] => i = j
    BY <1>2 DEF PreviewsInv, OrderInv
  <2>3. 1 \in 1..Len(waiters)
    BY <1>2
  <2>4. ASSUME NEW i \in 1..Len(waiters'), NEW j \in 1..Len(waiters'), waiters'[i] = waiters'[j]
        PROVE  i = j
    <3>1. waiters[i + 1] = waiters[j + 1]
      BY <1>2, <2>4
    <3>2. i + 1 = j + 1
      BY <2>1, <2>2, <3>1
    <3>3. QED
      BY <1>2, <3>2
  <2>5. ASSUME NEW i \in 1..Len(waiters')
        PROVE  waiters'[i] # waiters[1] /\ waiters'[i] \in P!Frames /\ stage[waiters'[i]] = "waiting"
    <3>1. waiters'[i] = waiters[i + 1]
      BY <1>2, <2>5
    <3>2. QED
      BY <2>1, <2>2, <2>3, <3>1
  <2>6. stage[waiters[1]] = "waiting"
    BY <2>2, <2>3
  <2> HIDE DEF f
  <2>7. QED
    BY <1>2, <2>4, <2>5, <2>6
<1>4. \A g \in P!Frames : stage[g] \notin Busy /\ workingIn[g] = 0
  BY <1>1 DEF PreviewsInv, OrderInv, Busy
<1> HIDE DEF f
<1>5. CASE f = latest
  <2>1. /\ stage' = [stage EXCEPT ![f] = "analysing"] /\ holder' = f /\ P!Submit(f)
        /\ UNCHANGED files
    BY <1>5 DEF P!Granted, P!To, f
  <2>2. /\ stage' \in [P!Frames -> P!InFlight \cup {"none", "done"}]
        /\ stage'[f] = "analysing" /\ \A g \in P!Frames \ {f} : stage'[g] = stage[g]
    BY <1>2, <2>1, StageTypes DEF PreviewsInv, P!InFlight
  <2>3. /\ made' \in Nat /\ pool' \in 0..made' /\ dead' \subseteq 1..made'
        /\ workingIn' \in [P!Requests -> 0..made']
        /\ \A g \in P!Frames \ {f} : workingIn'[g] = 0
    BY <1>2, <1>4, <2>1, Submits DEF PreviewsInv
  <2>4. PreviewTypes'
    <3>1. holder' \in 0..Count /\ latest' \in 0..Count /\ waiters' \in Seq(P!Frames)
      BY <1>1, <1>2, <2>1 DEF PreviewsInv, PreviewTypes
    <3>2. /\ shown' \in Seq(P!Frames) /\ jpgs' \subseteq P!Frames /\ strays' \subseteq P!Frames
          /\ kept' \in 0..Count /\ deleting' \in [P!Frames -> 0..Count] /\ files' \subseteq P!Frames
      BY <1>1, <2>1 DEF PreviewsInv, PreviewTypes
    <3>3. QED
      BY <2>2, <2>3, <3>1, <3>2 DEF PreviewTypes
  <2>5. kept < f
    <3>1. kept # 0 => kept \in P!Frames /\ stage[kept] \in {"keeping", "done"}
      BY DEF PreviewsInv, PreviewTypes, KeptInv
    <3>2. kept # 0 => kept <= latest
      BY <3>1 DEF PreviewsInv, OrderInv
    <3>3. QED
      BY <1>2, <1>3, <1>5, <3>1, <3>2
  <2>6. OrderInv'
    <3>1. /\ \A g, h \in P!Frames : g < h /\ stage'[g] = "none" => stage'[h] = "none"
          /\ \A g \in P!Frames : stage'[g] # "none" => g <= latest'
      <4>1. \A g \in P!Frames : stage'[g] = "none" <=> stage[g] = "none"
        BY <1>2, <1>3, <2>2
      <4>2. QED
        BY <1>1, <4>1 DEF PreviewsInv, OrderInv
    <3>2. /\ \A g \in P!Frames : stage'[g] \in Busy => g = holder' /\ kept' < g
          /\ \A g \in P!Frames : workingIn'[g] # 0 => stage'[g] = "analysing"
      BY <1>1, <1>4, <2>1, <2>2, <2>3, <2>5
    <3>3. QED
      BY <1>3, <2>2, <3>1, <3>2 DEF OrderInv
  <2>7. KeptInv' /\ FilesInv'
    <3>1. /\ \A g \in P!Frames : stage'[g] \in Unshown <=> stage[g] \in Unshown
          /\ \A g \in P!Frames : stage'[g] \in {"keeping", "done"} <=> stage[g] \in {"keeping", "done"}
          /\ \A g \in P!Frames : stage[g] = "keeping" => stage'[g] = "keeping"
      BY <1>2, <1>3, <2>2 DEF Unshown
    <3>2. KeptInv'
      <4>1. /\ kept # 0 => kept \in P!Frames
            /\ \A g \in P!Frames : deleting[g] # 0 => deleting[g] \in P!Frames
        BY DEF PreviewsInv, PreviewTypes
      <4>2. QED
        BY <1>1, <3>1, <4>1 DEF PreviewsInv, KeptInv
    <3>3. FilesInv'
      BY <1>1, <2>1, <3>1 DEF PreviewsInv, PreviewTypes, FilesInv
    <3>4. QED
      BY <3>2, <3>3
  <2>8. JpgsInv'
    BY <1>1, <1>2, <1>3, <2>2, JpgsUntouched
  <2>9. QED
    BY <2>4, <2>6, <2>7, <2>8 DEF PreviewsInv
<1>6. CASE f # latest
  <2>1. /\ stage' = [stage EXCEPT ![f] = "done"] /\ P!Discard(f)
        /\ UNCHANGED <<holder, pool, made, dead, workingIn>>
    BY <1>6 DEF P!Granted, P!To, P!pools, f
  <2>2. /\ stage' \in [P!Frames -> P!InFlight \cup {"none", "done"}]
        /\ stage'[f] = "done" /\ \A g \in P!Frames \ {f} : stage'[g] = stage[g]
    BY <1>2, <2>1, StageTypes DEF PreviewsInv
  <2>3. KeptInv' /\ FilesInv' /\ files' \subseteq P!Frames
    BY <1>1, <1>2, <1>3, <2>1, DiscardKeeps DEF Unshown
  <2>4. PreviewTypes'
    BY <1>1, <1>2, <2>1, <2>2, <2>3 DEF PreviewsInv, PreviewTypes
  <2>5. OrderInv'
    <3>1. /\ \A g, h \in P!Frames : g < h /\ stage'[g] = "none" => stage'[h] = "none"
          /\ \A g \in P!Frames : stage'[g] # "none" => g <= latest'
      <4>1. \A g \in P!Frames : stage'[g] = "none" <=> stage[g] = "none"
        BY <1>2, <1>3, <2>2
      <4>2. QED
        BY <1>1, <4>1 DEF PreviewsInv, OrderInv
    <3>2. \A g \in P!Frames : stage'[g] \notin Busy /\ workingIn'[g] = 0
      BY <1>4, <2>1, <2>2 DEF Busy
    <3>3. QED
      BY <1>3, <2>2, <3>1, <3>2 DEF OrderInv
  <2>6. JpgsInv'
    BY <1>1, <1>2, <1>3, <2>2, JpgsUntouched
  <2>7. QED
    BY <2>3, <2>4, <2>5, <2>6 DEF PreviewsInv
<1>7. QED
  BY <1>5, <1>6

\* The answer of the worker: a preview more, and one to delete if there are too many.
LEMMA AnalysisEndsKeeps ==
  ASSUME PreviewsInv, NEW f \in P!Frames, P!AnalysisEnds(f) PROVE PreviewsInv'
<1> USE FrameNumbers
<1>1. /\ stage[f] = "analysing" /\ workingIn' = [workingIn EXCEPT ![f] = 0]
      /\ jpgs' = jpgs \cup {f}
      /\ shown' = IF Len(shown) = Keep THEN Append(Tail(shown), f) ELSE Append(shown, f)
      /\ UNCHANGED <<waiters, latest, pool, made, dead, strays>>
  BY DEF P!AnalysisEnds, P!ghosts
<1>2. /\ \A g \in P!Frames \ {f} : stage[g] \notin Busy /\ workingIn[g] = 0
      /\ f = holder /\ kept < f
  BY <1>1, OneAtWork DEF Busy
<1>3. /\ workingIn' \in [P!Requests -> 0..made] /\ \A g \in P!Frames : workingIn'[g] = 0
  BY <1>1, <1>2 DEF PreviewsInv, PreviewTypes
<1>4. jpgs \subseteq Remembered
  BY <1>1, NothingExpiring
<1>5. shown \in Seq(P!Frames) /\ Len(shown) \in Nat /\ Len(shown) <= Keep
  BY DEF PreviewsInv, PreviewTypes, JpgsInv
<1>6. CASE Len(shown) = Keep
  <2>1. /\ stage' = [stage EXCEPT ![f] = "expiring"]
        /\ UNCHANGED <<holder, files, kept, deleting>>
    BY <1>1, <1>6 DEF P!AnalysisEnds, P!To, P!keeping
  <2>2. /\ stage' \in [P!Frames -> P!InFlight \cup {"none", "done"}]
        /\ stage'[f] = "expiring" /\ \A g \in P!Frames \ {f} : stage'[g] = stage[g]
    BY <2>1, StageTypes DEF PreviewsInv, P!InFlight
  <2>3. /\ shown' \in Seq(P!Frames) /\ Len(shown') = Keep /\ shown'[Keep] = f
        /\ \A i \in 1..(Keep - 1) : shown'[i] = shown[i + 1]
        /\ shown[1] \in P!Frames
    <3>1. shown' = Append(Tail(shown), f) /\ shown # <<>>
      BY <1>1, <1>5, <1>6, EmptySeq
    <3>2. /\ Tail(shown) \in Seq(P!Frames) /\ Len(Tail(shown)) = Keep - 1
          /\ \A i \in 1..(Keep - 1) : Tail(shown)[i] = shown[i + 1]
      BY <1>5, <1>6, <3>1, HeadTailProperties
    <3>3. 1 \in 1..Len(shown)
      BY <1>6
    <3>4. shown[1] \in P!Frames
      BY <1>5, <3>3, ElementOfSeq
    <3> DEFINE rest == Tail(shown)
    <3> HIDE DEF rest
    <3>5. shown' = Append(rest, f) /\ rest \in Seq(P!Frames) /\ Len(rest) = Keep - 1
      BY <3>1, <3>2 DEF rest
    <3>6. /\ shown' \in Seq(P!Frames) /\ Len(shown') = Keep /\ shown'[Keep] = f
          /\ \A i \in 1..(Keep - 1) : shown'[i] = rest[i]
      BY <3>5
    <3>7. QED
      BY <3>2, <3>4, <3>6 DEF rest
  <2>4. PreviewTypes'
    <3>1. /\ jpgs' \subseteq P!Frames /\ strays' \subseteq P!Frames /\ files' \subseteq P!Frames
          /\ kept' \in 0..Count /\ deleting' \in [P!Frames -> 0..Count]
          /\ holder' \in 0..Count /\ latest' \in 0..Count /\ waiters' \in Seq(P!Frames)
          /\ made' \in Nat /\ pool' \in 0..made' /\ dead' \subseteq 1..made'
      BY <1>1, <2>1 DEF PreviewsInv, PreviewTypes
    <3>2. QED
      BY <1>1, <1>3, <2>2, <2>3, <3>1 DEF PreviewTypes
  <2>5. /\ \A g \in P!Frames : stage'[g] = "none" <=> stage[g] = "none"
        /\ \A g \in P!Frames : stage'[g] = "waiting" <=> stage[g] = "waiting"
        /\ \A g \in P!Frames : stage'[g] \in Busy <=> stage[g] \in Busy
        /\ \A g \in P!Frames : stage'[g] \in Unshown <=> stage[g] \in Unshown
        /\ \A g \in P!Frames : stage'[g] \in {"keeping", "done"} <=> stage[g] \in {"keeping", "done"}
        /\ \A g \in P!Frames : stage[g] = "keeping" => stage'[g] = "keeping"
    BY <1>1, <2>2 DEF Busy, Unshown
  <2>6. OrderInv'
    <3>1. \A i \in 1..Len(waiters) : waiters[i] \in P!Frames
      BY DEF PreviewsInv, PreviewTypes
    <3>2. QED
      BY <1>1, <1>3, <2>1, <2>5, <3>1 DEF PreviewsInv, OrderInv
  <2>7. KeptInv'
    <3>1. /\ kept # 0 => kept \in P!Frames
          /\ \A g \in P!Frames : deleting[g] # 0 => deleting[g] \in P!Frames
      BY DEF PreviewsInv, PreviewTypes
    <3>2. QED
      BY <2>1, <2>5, <3>1 DEF PreviewsInv, KeptInv
  <2>8. FilesInv'
    BY <2>1, <2>5 DEF PreviewsInv, PreviewTypes, FilesInv
  <2>9. JpgsInv'
    <3>1. Remembered \cup {f} \subseteq Remembered' \cup {shown[1]}
      <4>1. ASSUME NEW i \in 1..Len(shown), i # 1
            PROVE  \E j \in 1..Len(shown') : shown[i] = shown'[j]
        <5>1. i - 1 \in 1..(Keep - 1) /\ (i - 1) + 1 = i /\ i - 1 \in 1..Len(shown')
          BY <1>5, <1>6, <2>3, <4>1
        <5>2. shown'[i - 1] = shown[i]
          BY <2>3, <5>1
        <5>3. QED
          BY <5>1, <5>2
      <4>2. Keep \in 1..Len(shown')
        BY <2>3
      <4>3. QED
        <5>1. f \in Remembered'
          BY <2>3, <4>2 DEF Remembered
        <5>2. \A i \in 1..Len(shown) : shown[i] \in Remembered' \cup {shown[1]}
          BY <4>1 DEF Remembered
        <5>3. \A x \in Remembered : x \in strays \/ \E i \in 1..Len(shown) : x = shown[i]
          BY DEF Remembered
        <5>4. strays \subseteq Remembered'
          BY <1>1 DEF Remembered
        <5>5. QED
          BY <5>1, <5>2, <5>3, <5>4
    <3>2. jpgs' \subseteq Remembered' \cup {shown[1]}
      BY <1>1, <1>4, <3>1
    <3>3. QED
      BY <2>2, <2>3, <3>2 DEF JpgsInv
  <2>10. QED
    BY <2>4, <2>6, <2>7, <2>8, <2>9 DEF PreviewsInv
<1>7. CASE Len(shown) # Keep
  <2>1. P!Shown(f) /\ holder' = 0
    BY <1>1, <1>7 DEF P!AnalysisEnds
  <2>2. /\ KeptInv' /\ FilesInv' /\ kept' = f /\ UNCHANGED files
        /\ deleting' \in [P!Frames -> 0..Count]
    BY <1>1, <2>1, ShownKeeps DEF Busy
  <2>3. PICK s \in {"keeping", "done"} : stage' = [stage EXCEPT ![f] = s]
    BY <1>1, <2>1, ShownKeeps DEF Busy
  <2>4. /\ stage' \in [P!Frames -> P!InFlight \cup {"none", "done"}]
        /\ stage'[f] = s /\ \A g \in P!Frames \ {f} : stage'[g] = stage[g]
    BY <2>3, StageTypes DEF PreviewsInv, P!InFlight
  <2>5. /\ shown' \in Seq(P!Frames) /\ Len(shown') = Len(shown) + 1 /\ shown'[Len(shown) + 1] = f
        /\ \A i \in 1..Len(shown) : shown'[i] = shown[i]
    <3>1. shown' = Append(shown, f)
      BY <1>1, <1>7
    <3>2. QED
      BY <1>5, <3>1
  <2>6. PreviewTypes'
    <3>1. /\ jpgs' \subseteq P!Frames /\ strays' \subseteq P!Frames /\ files' \subseteq P!Frames
          /\ kept' \in 0..Count
          /\ holder' \in 0..Count /\ latest' \in 0..Count /\ waiters' \in Seq(P!Frames)
          /\ made' \in Nat /\ pool' \in 0..made' /\ dead' \subseteq 1..made'
      BY <1>1, <2>1, <2>2 DEF PreviewsInv, PreviewTypes
    <3>2. QED
      BY <1>1, <1>3, <2>2, <2>4, <2>5, <3>1 DEF PreviewTypes
  <2>7. OrderInv'
    BY <1>1, <1>3, <2>1, <2>3, LockGivenBack DEF Busy
  <2>8. JpgsInv'
    <3>1. Remembered \cup {f} \subseteq Remembered'
      <4>1. \A i \in 1..Len(shown) : i \in 1..Len(shown')
        BY <1>5, <2>5
      <4>2. Len(shown) + 1 \in 1..Len(shown')
        BY <1>5, <2>5
      <4>3. QED
        <5>1. f \in Remembered'
          BY <2>5, <4>2 DEF Remembered
        <5>2. \A i \in 1..Len(shown) : shown[i] \in Remembered'
          BY <2>5, <4>1 DEF Remembered
        <5>3. \A x \in Remembered : x \in strays \/ \E i \in 1..Len(shown) : x = shown[i]
          BY DEF Remembered
        <5>4. strays \subseteq Remembered'
          BY <1>1 DEF Remembered
        <5>5. QED
          BY <5>1, <5>2, <5>3, <5>4
    <3>2. jpgs' \subseteq Remembered'
      BY <1>1, <1>4, <3>1
    <3>3. Len(shown') <= Keep
      BY <1>5, <1>7, <2>5
    <3>4. QED
      BY <3>2, <3>3 DEF JpgsInv
  <2>9. QED
    BY <2>2, <2>6, <2>7, <2>8 DEF PreviewsInv
<1>8. QED
  BY <1>6, <1>7

LEMMA ExpiredKeeps ==
  ASSUME PreviewsInv, NEW f \in P!Frames, P!Expired(f) PROVE PreviewsInv'
<1> USE FrameNumbers
<1>1. /\ stage[f] = "expiring" /\ P!Shown(f) /\ holder' = 0
      /\ jpgs' = jpgs \cap (P!Range(shown) \cup strays)
      /\ UNCHANGED <<waiters, latest, pool, made, dead, workingIn, shown, strays>>
  BY DEF P!Expired, P!pools, P!ghosts
<1>2. \A g \in P!Frames : workingIn[g] = 0
  BY <1>1 DEF PreviewsInv, OrderInv, Busy
<1>3. /\ KeptInv' /\ FilesInv' /\ kept' = f /\ UNCHANGED files
      /\ deleting' \in [P!Frames -> 0..Count]
  BY <1>1, ShownKeeps DEF Busy
<1>4. PICK s \in {"keeping", "done"} : stage' = [stage EXCEPT ![f] = s]
  BY <1>1, ShownKeeps DEF Busy
<1>5. stage' \in [P!Frames -> P!InFlight \cup {"none", "done"}]
  BY <1>4, StageTypes DEF PreviewsInv, P!InFlight
<1>6. jpgs' \subseteq Remembered /\ jpgs' \subseteq P!Frames
  BY <1>1, LenProperties DEF PreviewsInv, PreviewTypes, Remembered, P!Range
<1>7. PreviewTypes'
  <2>1. /\ holder' \in 0..Count /\ kept' \in 0..Count /\ files' \subseteq P!Frames
        /\ UNCHANGED <<waiters, latest, pool, made, dead, workingIn, shown, strays>>
    BY <1>1, <1>3 DEF PreviewsInv, PreviewTypes
  <2>2. QED
    BY <1>3, <1>5, <1>6, <2>1 DEF PreviewsInv, PreviewTypes
<1>8. OrderInv'
  BY <1>1, <1>2, <1>4, LockGivenBack DEF Busy
<1>9. JpgsInv'
  BY <1>1, <1>4, <1>6, JpgsStay
<1>10. QED
  BY <1>3, <1>7, <1>8, <1>9 DEF PreviewsInv

\* What a frame at work leaves behind when it goes without a preview.
LEMMA GivesUpKeeps ==
  ASSUME PreviewsInv, NEW f \in P!Frames, stage[f] \in Busy,
         stage' = [stage EXCEPT ![f] = "done"], holder' = 0, P!Discard(f),
         \A g \in P!Frames : workingIn'[g] = 0, workingIn' \in [P!Requests -> 0..made],
         pool' \in 0..made, UNCHANGED <<waiters, latest, made, dead, shown, kept, deleting>>,
         jpgs' \subseteq P!Frames, strays' \subseteq P!Frames, JpgsInv'
  PROVE  PreviewsInv'
<1> USE FrameNumbers
<1>1. OrderInv'
  BY LockGivenBack
<1>2. KeptInv' /\ FilesInv' /\ files' \subseteq P!Frames
  BY DiscardKeeps DEF Busy, Unshown
<1>3. stage' \in [P!Frames -> P!InFlight \cup {"none", "done"}]
  BY StageTypes DEF PreviewsInv
<1>4. PreviewTypes'
  <2>1. /\ waiters' \in Seq(P!Frames) /\ latest' \in 0..Count /\ made' \in Nat /\ pool' \in 0..made'
        /\ dead' \subseteq 1..made' /\ shown' \in Seq(P!Frames) /\ kept' \in 0..Count
        /\ deleting' \in [P!Frames -> 0..Count] /\ workingIn' \in [P!Requests -> 0..made']
    BY DEF PreviewsInv, PreviewTypes
  <2>2. holder' \in 0..Count
    OBVIOUS
  <2>3. QED
    BY <1>2, <1>3, <2>1, <2>2 DEF PreviewTypes
<1>5. QED
  BY <1>1, <1>2, <1>4 DEF PreviewsInv

LEMMA AnalysisFailsKeeps ==
  ASSUME PreviewsInv, NEW f \in P!Frames, P!AnalysisFails(f) PROVE PreviewsInv'
<1> USE FrameNumbers
<1>1. /\ stage[f] = "analysing" /\ workingIn' = [workingIn EXCEPT ![f] = 0]
      /\ holder' = 0 /\ stage' = [stage EXCEPT ![f] = "done"] /\ P!Discard(f)
      /\ UNCHANGED <<waiters, latest, pool, made, dead, shown, jpgs, kept, deleting, strays>>
  BY DEF P!AnalysisFails, P!To, P!previews, P!ghosts
<1>2. \A g \in P!Frames \ {f} : stage[g] \notin Busy /\ workingIn[g] = 0
  BY <1>1, OneAtWork DEF Busy
<1>3. /\ workingIn' \in [P!Requests -> 0..made] /\ \A g \in P!Frames : workingIn'[g] = 0
  BY <1>1, <1>2 DEF PreviewsInv, PreviewTypes
<1>4. jpgs' \subseteq Remembered
  BY <1>1, NothingExpiring
<1>5. JpgsInv'
  BY <1>1, <1>4, JpgsStay
<1>6. jpgs' \subseteq P!Frames /\ strays' \subseteq P!Frames /\ pool' \in 0..made
  BY <1>1 DEF PreviewsInv, PreviewTypes
<1>7. QED
  BY <1>1, <1>3, <1>5, <1>6, GivesUpKeeps DEF Busy

\* Those a dead worker had are at most one frame, the one that has the lock.
LEMMA DiedKeeps ==
  ASSUME PreviewsInv, NEW r \in P!Requests, P!Died(r) PROVE PreviewsInv'
<1> USE FrameNumbers
<1>1. PICK others \in SUBSET {q \in P!Requests \ {r} : pool # workingIn[r] /\ workingIn[q] = pool /\ pool # 0} :
        LET over == others \cup {r}
            frames == over \cap P!Frames
        IN /\ workingIn' = [q \in P!Requests |-> IF q \in over THEN 0 ELSE workingIn[q]]
           /\ stage' = [f \in P!Frames |-> IF f \in frames THEN "done" ELSE stage[f]]
           /\ holder' = IF holder \in frames THEN 0 ELSE holder
           /\ files' = files \ (frames \ Saved)
  BY DEF P!Died
<1>2. /\ workingIn[r] \in dead /\ pool' = 0
      /\ UNCHANGED <<waiters, latest, made, dead, shown, jpgs, kept, deleting, strays>>
  BY DEF P!Died, P!previews
<1> DEFINE over == others \cup {r}
           frames == over \cap P!Frames
<1>3. /\ workingIn' = [q \in P!Requests |-> IF q \in over THEN 0 ELSE workingIn[q]]
      /\ stage' = [f \in P!Frames |-> IF f \in frames THEN "done" ELSE stage[f]]
      /\ holder' = IF holder \in frames THEN 0 ELSE holder
      /\ files' = files \ (frames \ Saved)
  BY <1>1
<1>4. \A q \in over : q \in P!Requests /\ workingIn[q] # 0
  BY <1>2 DEF PreviewsInv, PreviewTypes
<1>5. frames \subseteq P!Frames /\ \A f \in frames : stage[f] = "analysing" /\ f = holder
  BY <1>4 DEF PreviewsInv, OrderInv, Busy
<1>6. workingIn' \in [P!Requests -> 0..made] /\ pool' \in 0..made
  BY <1>2, <1>3 DEF PreviewsInv, PreviewTypes
<1>7. CASE frames = {}
  <2>1. stage' = stage /\ holder' = holder /\ files' = files
    BY <1>3, <1>7 DEF PreviewsInv, PreviewTypes
  <2>2. \A g \in P!Frames : workingIn'[g] = workingIn[g]
    BY <1>3, <1>7
  <2>3. PreviewTypes'
    BY <1>2, <1>6, <2>1 DEF PreviewsInv, PreviewTypes
  <2>4. OrderInv'
    BY <1>2, <2>1, <2>2 DEF PreviewsInv, OrderInv
  <2>5. KeptInv' /\ FilesInv' /\ JpgsInv'
    BY <1>2, <2>1 DEF PreviewsInv, KeptInv, FilesInv, JpgsInv, Remembered
  <2>6. QED
    BY <2>3, <2>4, <2>5 DEF PreviewsInv
<1>8. CASE frames # {}
  <2>1. /\ frames = {holder} /\ holder \in P!Frames /\ stage[holder] = "analysing"
    BY <1>5, <1>8
  <2>2. \A g \in P!Frames \ {holder} : workingIn[g] = 0
    BY <2>1, OneAtWork DEF Busy
  <2>3. holder \in over
    BY <2>1
  <2> HIDE DEF frames, over
  <2>4. stage' = [stage EXCEPT ![holder] = "done"] /\ holder' = 0
    BY <1>3, <2>1 DEF PreviewsInv, PreviewTypes
  <2>5. P!Discard(holder)
    BY <1>3, <2>1 DEF P!Discard
  <2>6. \A g \in P!Frames : workingIn'[g] = 0
    BY <1>3, <2>2, <2>3
  <2>7. jpgs' \subseteq Remembered /\ jpgs' \subseteq P!Frames /\ strays' \subseteq P!Frames
    BY <1>2, <2>1, NothingExpiring DEF PreviewsInv, PreviewTypes
  <2>8. JpgsInv'
    BY <1>2, <2>1, <2>4, <2>7, JpgsStay
  <2>9. QED
    BY <1>2, <1>6, <2>1, <2>4, <2>5, <2>6, <2>7, <2>8, GivesUpKeeps DEF Busy
<1>9. QED
  BY <1>7, <1>8

\* The older frame's file has gone, whether or not a job still waits for it.
LEMMA KeptEnds ==
  ASSUME PreviewsInv, NEW f \in P!Frames, stage[f] = "keeping",
         stage' = [stage EXCEPT ![f] = "done"], files' = files \ {deleting[f]},
         deleting' = [deleting EXCEPT ![f] = 0],
         UNCHANGED <<holder, waiters, latest, pool, made, dead, workingIn, shown, jpgs, kept, strays>>
  PROVE  PreviewsInv'
<1> USE FrameNumbers
<1>1. /\ stage' \in [P!Frames -> P!InFlight \cup {"none", "done"}]
      /\ stage'[f] = "done" /\ \A g \in P!Frames \ {f} : stage'[g] = stage[g]
  BY StageTypes DEF PreviewsInv
<1>2. /\ deleting' \in [P!Frames -> 0..Count] /\ deleting'[f] = 0
      /\ \A g \in P!Frames \ {f} : deleting'[g] = deleting[g]
  BY DEF PreviewsInv, PreviewTypes
<1>3. /\ \A g \in P!Frames : stage'[g] = "none" <=> stage[g] = "none"
      /\ \A g \in P!Frames : stage'[g] = "waiting" <=> stage[g] = "waiting"
      /\ \A g \in P!Frames : stage'[g] = "analysing" <=> stage[g] = "analysing"
      /\ \A g \in P!Frames : stage'[g] \in Busy <=> stage[g] \in Busy
      /\ \A g \in P!Frames : stage'[g] \in Unshown <=> stage[g] \in Unshown
      /\ \A g \in P!Frames : stage'[g] \in {"keeping", "done"} <=> stage[g] \in {"keeping", "done"}
  BY <1>1 DEF Busy, Unshown
<1>4. PreviewTypes'
  BY <1>1, <1>2 DEF PreviewsInv, PreviewTypes
<1>5. OrderInv'
  <2>1. \A i \in 1..Len(waiters) : waiters[i] \in P!Frames
    BY DEF PreviewsInv, PreviewTypes
  <2>2. QED
    BY <1>3, <2>1 DEF PreviewsInv, OrderInv
<1>6. /\ kept # 0 => kept \in P!Frames
      /\ \A g \in P!Frames : deleting[g] # 0 => deleting[g] \in P!Frames
  BY DEF PreviewsInv, PreviewTypes
<1>7. KeptInv'
  BY <1>1, <1>2, <1>3, <1>6 DEF PreviewsInv, KeptInv
<1>8. FilesInv'
  <2>1. deleting[f] # 0 => deleting[f] # kept /\ stage[deleting[f]] \notin Unshown
    <3>1. ASSUME deleting[f] # 0
          PROVE  deleting[f] < kept /\ stage[deleting[f]] \in {"keeping", "done"}
      BY <3>1 DEF PreviewsInv, KeptInv
    <3>2. deleting[f] \in 0..Count /\ kept \in 0..Count
      BY DEF PreviewsInv, PreviewTypes
    <3>3. QED
      BY <3>1, <3>2 DEF Unshown
  <2>2. /\ files' \cap Saved = {}
        /\ \A g \in P!Frames \ Saved : stage'[g] \in Unshown => g \in files'
        /\ kept' # 0 /\ kept' \notin Saved => kept' \in files'
    BY <1>3, <1>6, <2>1 DEF PreviewsInv, FilesInv
  <2>3. \A g \in files' : stage'[g] \in Unshown \/ g = kept' \/ \E h \in P!Frames : deleting'[h] = g
    <3>1. ASSUME NEW g \in files'
          PROVE  stage'[g] \in Unshown \/ g = kept' \/ \E h \in P!Frames : deleting'[h] = g
      <4>1. g \in files /\ g \in P!Frames /\ g # deleting[f]
        BY <3>1 DEF PreviewsInv, PreviewTypes
      <4>2. stage[g] \in Unshown \/ g = kept \/ \E h \in P!Frames : deleting[h] = g
        BY <4>1 DEF PreviewsInv, FilesInv
      <4>3. QED
        BY <1>2, <1>3, <4>1, <4>2
    <3>2. QED
      BY <3>1
  <2>4. QED
    BY <2>2, <2>3 DEF FilesInv
<1>9. JpgsInv'
  BY <1>1, JpgsUntouched
<1>10. QED
  BY <1>4, <1>5, <1>7, <1>8, <1>9 DEF PreviewsInv

\* A queue without its i-th.
LEMMA Removed ==
  ASSUME NEW S, NEW q \in Seq(S), NEW i \in 1..Len(q)
  PROVE  /\ P!RemoveAt(q, i) \in Seq(S) /\ Len(P!RemoveAt(q, i)) = Len(q) - 1
         /\ \A j \in 1..(Len(q) - 1) : P!RemoveAt(q, i)[j] = IF j < i THEN q[j] ELSE q[j + 1]
<1> DEFINE a == SubSeq(q, 1, i - 1)
           b == SubSeq(q, i + 1, Len(q))
<1>1. Len(q) \in Nat /\ \A j \in 1..Len(q) : q[j] \in S
  BY LenProperties, ElementOfSeq
<1>2. /\ a \in Seq(S) /\ Len(a) = i - 1 /\ \A j \in 1..(i - 1) : a[j] = q[j]
  <2>1. 1 \in Int /\ i - 1 \in Int /\ \A j \in 1..(i - 1) : q[j] \in S
    BY <1>1
  <2>2. /\ a \in Seq(S) /\ Len(a) = (IF 1 <= i - 1 THEN (i - 1) - 1 + 1 ELSE 0)
        /\ \A j \in 1..((i - 1) - 1 + 1) : a[j] = q[1 + j - 1]
    BY <2>1, SubSeqProperties
  <2> HIDE DEF a
  <2>3. \A j \in 1..(i - 1) : 1 + j - 1 = j /\ j \in 1..((i - 1) - 1 + 1)
    BY <1>1
  <2>4. QED
    BY <1>1, <2>2, <2>3
<1>3. /\ b \in Seq(S) /\ Len(b) = Len(q) - i /\ \A j \in 1..(Len(q) - i) : b[j] = q[i + j]
  <2>1. i + 1 \in Int /\ Len(q) \in Int /\ \A j \in (i + 1)..Len(q) : q[j] \in S
    BY <1>1
  <2>2. /\ b \in Seq(S) /\ Len(b) = (IF i + 1 <= Len(q) THEN Len(q) - (i + 1) + 1 ELSE 0)
        /\ \A j \in 1..(Len(q) - (i + 1) + 1) : b[j] = q[(i + 1) + j - 1]
    BY <2>1, SubSeqProperties
  <2> HIDE DEF b
  <2>3. \A j \in 1..(Len(q) - i) : (i + 1) + j - 1 = i + j /\ j \in 1..(Len(q) - (i + 1) + 1)
    BY <1>1
  <2>4. QED
    BY <1>1, <2>2, <2>3
<1>4. P!RemoveAt(q, i) = a \o b
  BY DEF P!RemoveAt
<1> HIDE DEF a, b
<1>5. /\ a \o b \in Seq(S) /\ Len(a \o b) = Len(a) + Len(b)
      /\ \A j \in 1..(Len(a) + Len(b)) : (a \o b)[j] = IF j <= Len(a) THEN a[j] ELSE b[j - Len(a)]
  BY <1>2, <1>3, ConcatProperties
<1>6. ASSUME NEW j \in 1..(Len(q) - 1)
      PROVE  (a \o b)[j] = IF j < i THEN q[j] ELSE q[j + 1]
  <2>1. j \in 1..(Len(a) + Len(b))
    BY <1>1, <1>2, <1>3
  <2>2. CASE j < i
    BY <1>1, <1>2, <1>5, <2>1, <2>2
  <2>3. CASE ~(j < i)
    <3>1. j - (i - 1) \in 1..(Len(q) - i) /\ i + (j - (i - 1)) = j + 1
      BY <1>1, <2>3
    <3>2. (a \o b)[j] = b[j - (i - 1)]
      BY <1>1, <1>2, <1>5, <2>1, <2>3
    <3>3. QED
      BY <1>3, <2>3, <3>1, <3>2
  <2>4. QED
    BY <2>2, <2>3
<1>7. Len(a) + Len(b) = Len(q) - 1
  BY <1>1, <1>2, <1>3
<1>8. QED
  BY <1>4, <1>5, <1>6, <1>7

LEMMA CancelWaitingKeeps ==
  ASSUME PreviewsInv, NEW f \in P!Frames, P!Cancel(f), P!CancelWaiting(f) PROVE PreviewsInv'
<1> USE FrameNumbers
<1>1. /\ stage[f] = "waiting" /\ stage' = [stage EXCEPT ![f] = "done"] /\ P!Discard(f)
      /\ UNCHANGED <<holder, latest, pool, made, dead, workingIn, shown, jpgs, kept, deleting, strays>>
  BY DEF P!Cancel, P!CancelWaiting, P!To, P!pools
<1>2. PICK i \in 1..Len(waiters) : waiters[i] = f /\ waiters' = P!RemoveAt(waiters, i)
  BY DEF P!CancelWaiting
<1>3. /\ stage' \in [P!Frames -> P!InFlight \cup {"none", "done"}]
      /\ stage'[f] = "done" /\ \A g \in P!Frames \ {f} : stage'[g] = stage[g]
  BY <1>1, StageTypes DEF PreviewsInv
<1>4. /\ waiters \in Seq(P!Frames) /\ Len(waiters) \in Nat
      /\ \A j \in 1..Len(waiters) : waiters[j] \in P!Frames /\ stage[waiters[j]] = "waiting"
      /\ \A j, k \in 1..Len(waiters) : waiters[j] = waiters[k] => j = k
  BY DEF PreviewsInv, PreviewTypes, OrderInv
<1>5. /\ waiters' \in Seq(P!Frames) /\ Len(waiters') = Len(waiters) - 1
      /\ \A j \in 1..(Len(waiters) - 1) : waiters'[j] = IF j < i THEN waiters[j] ELSE waiters[j + 1]
  <2>1. /\ P!RemoveAt(waiters, i) \in Seq(P!Frames)
        /\ Len(P!RemoveAt(waiters, i)) = Len(waiters) - 1
        /\ \A j \in 1..(Len(waiters) - 1) :
             P!RemoveAt(waiters, i)[j] = IF j < i THEN waiters[j] ELSE waiters[j + 1]
    BY <1>4, Removed
  <2>2. waiters' = P!RemoveAt(waiters, i)
    BY <1>2
  <2>3. QED
    BY <2>1, <2>2
<1> DEFINE was(j) == IF j < i THEN j ELSE j + 1
<1>6. \A j \in 1..Len(waiters') : was(j) \in 1..Len(waiters) /\ was(j) # i /\ waiters'[j] = waiters[was(j)]
  <2>1. ASSUME NEW j \in 1..Len(waiters')
        PROVE  was(j) \in 1..Len(waiters) /\ was(j) # i /\ waiters'[j] = waiters[was(j)]
    <3>1. j \in 1..(Len(waiters) - 1) /\ waiters'[j] = IF j < i THEN waiters[j] ELSE waiters[j + 1]
      BY <1>4, <1>5
    <3>2. was(j) \in 1..Len(waiters) /\ was(j) # i
      BY <1>4, <3>1
    <3>3. QED
      BY <3>1, <3>2
  <2>2. QED
    BY <2>1
<1>7. \A j, k \in 1..Len(waiters') : was(j) = was(k) => j = k
  BY <1>4, <1>5
<1> HIDE DEF was
<1>8. /\ \A j \in 1..Len(waiters') : stage'[waiters'[j]] = "waiting"
      /\ \A j, k \in 1..Len(waiters') : waiters'[j] = waiters'[k] => j = k
  <2>1. ASSUME NEW j \in 1..Len(waiters') PROVE stage'[waiters'[j]] = "waiting"
    <3>1. waiters[was(j)] # f /\ waiters[was(j)] \in P!Frames /\ stage[waiters[was(j)]] = "waiting"
      BY <1>2, <1>4, <1>6
    <3>2. QED
      BY <1>3, <1>6, <3>1
  <2>2. ASSUME NEW j \in 1..Len(waiters'), NEW k \in 1..Len(waiters'), waiters'[j] = waiters'[k]
        PROVE  j = k
    <3>1. waiters[was(j)] = waiters[was(k)] /\ was(j) \in 1..Len(waiters) /\ was(k) \in 1..Len(waiters)
      BY <1>6, <2>2
    <3>2. was(j) = was(k)
      BY <1>4, <3>1
    <3>3. QED
      BY <1>7, <3>2
  <2>3. QED
    BY <2>1, <2>2
<1>9. KeptInv' /\ FilesInv' /\ files' \subseteq P!Frames
  BY <1>1, DiscardKeeps DEF Unshown
<1>10. PreviewTypes'
  BY <1>1, <1>3, <1>5, <1>9 DEF PreviewsInv, PreviewTypes
<1>11. OrderInv'
  <2>1. /\ \A g \in P!Frames : stage'[g] = "none" <=> stage[g] = "none"
        /\ \A g \in P!Frames : stage'[g] = "analysing" <=> stage[g] = "analysing"
        /\ \A g \in P!Frames : stage'[g] \in Busy <=> stage[g] \in Busy
    BY <1>1, <1>3 DEF Busy
  <2>2. QED
    BY <1>1, <1>8, <2>1 DEF PreviewsInv, OrderInv
<1>12. JpgsInv'
  BY <1>1, <1>3, JpgsUntouched
<1>13. QED
  BY <1>9, <1>10, <1>11, <1>12 DEF PreviewsInv

LEMMA CancelBusyKeeps ==
  ASSUME PreviewsInv, NEW f \in P!Frames, P!Cancel(f), P!CancelAnalysing(f) \/ P!CancelExpiring(f)
  PROVE  PreviewsInv'
<1> USE FrameNumbers
<1>1. stage' = [stage EXCEPT ![f] = "done"] /\ UNCHANGED <<latest, shown, kept>>
  BY DEF P!Cancel, P!To
<1>2. CASE P!CancelAnalysing(f)
  <2>1. /\ stage[f] = "analysing" /\ workingIn' = [workingIn EXCEPT ![f] = 0]
        /\ strays' = strays \cup {f} /\ jpgs' \in {jpgs, jpgs \cup {f}}
        /\ holder' = 0 /\ P!Discard(f) /\ UNCHANGED <<waiters, pool, made, dead, deleting>>
    BY <1>2 DEF P!CancelAnalysing
  <2>2. \A g \in P!Frames \ {f} : stage[g] \notin Busy /\ workingIn[g] = 0
    BY <2>1, OneAtWork DEF Busy
  <2>3. /\ workingIn' \in [P!Requests -> 0..made] /\ \A g \in P!Frames : workingIn'[g] = 0
    BY <2>1, <2>2 DEF PreviewsInv, PreviewTypes
  <2>4. jpgs' \subseteq P!Frames /\ strays' \subseteq P!Frames /\ pool' \in 0..made
    BY <2>1 DEF PreviewsInv, PreviewTypes
  <2>5. JpgsInv'
    <3>1. jpgs \subseteq Remembered
      BY <2>1, NothingExpiring
    <3>2. jpgs' \subseteq Remembered'
      BY <1>1, <2>1, <3>1 DEF Remembered
    <3>3. QED
      BY <1>1, <3>2 DEF PreviewsInv, JpgsInv
  <2>6. QED
    BY <1>1, <2>1, <2>3, <2>4, <2>5, GivesUpKeeps DEF Busy
<1>3. CASE P!CancelExpiring(f)
  <2>1. /\ stage[f] = "expiring" /\ jpgs' = jpgs \cap (P!Range(shown) \cup strays)
        /\ holder' = 0 /\ P!Discard(f)
        /\ UNCHANGED <<waiters, pool, made, dead, workingIn, deleting, strays>>
    BY <1>3 DEF P!CancelExpiring, P!pools
  <2>2. \A g \in P!Frames : workingIn'[g] = 0
    BY <2>1 DEF PreviewsInv, OrderInv, Busy
  <2>3. jpgs' \subseteq Remembered /\ jpgs' \subseteq P!Frames
    BY <2>1, LenProperties DEF PreviewsInv, PreviewTypes, Remembered, P!Range
  <2>4. JpgsInv'
    BY <1>1, <2>1, <2>3, JpgsStay
  <2>5. /\ workingIn' \in [P!Requests -> 0..made] /\ strays' \subseteq P!Frames /\ pool' \in 0..made
    BY <2>1 DEF PreviewsInv, PreviewTypes
  <2>6. QED
    BY <1>1, <2>1, <2>2, <2>3, <2>4, <2>5, GivesUpKeeps DEF Busy
<1>4. QED
  BY <1>2, <1>3

LEMMA CancelKeeps == ASSUME PreviewsInv, NEW f \in InJob, P!Cancel(f) PROVE PreviewsInv'
<1>1. f \in P!Frames
  BY RigServicesAssumption DEF P!PreviewsAssumption, P!Frames
<1>2. CASE P!CancelKeeping(f)
  BY <1>1, <1>2, KeptEnds DEF P!Cancel, P!CancelKeeping, P!To, P!pools
<1>3. CASE ~P!CancelKeeping(f)
  BY <1>1, <1>3, CancelWaitingKeeps, CancelBusyKeeps DEF P!Cancel
<1>4. QED
  BY <1>2, <1>3

\* Requests of other workflows, and the death of the worker before anyone knows.
LEMMA OthersKeep ==
  ASSUME PreviewsInv,
         UNCHANGED <<stage, holder, waiters, latest, shown, jpgs, files, kept, deleting, strays>>,
         made' \in Nat, pool' \in 0..made', dead' \subseteq 1..made',
         workingIn' \in [P!Requests -> 0..made'],
         \A g \in P!Frames : workingIn'[g] = workingIn[g]
  PROVE  PreviewsInv'
<1>1. PreviewTypes'
  BY DEF PreviewsInv, PreviewTypes
<1>2. OrderInv'
  BY DEF PreviewsInv, OrderInv
<1>3. KeptInv' /\ FilesInv' /\ JpgsInv'
  BY DEF PreviewsInv, KeptInv, FilesInv, JpgsInv, Remembered
<1>4. QED
  BY <1>1, <1>2, <1>3 DEF PreviewsInv

LEMMA RequestKeeps ==
  ASSUME PreviewsInv, NEW r \in Others, P!Request(r) \/ P!Answered(r) PROVE PreviewsInv'
<1> USE FrameNumbers
<1>1. UNCHANGED <<stage, holder, waiters, latest, shown, jpgs, files, kept, deleting, strays>>
  BY DEF P!Request, P!Answered, P!lock, P!previews, P!keeping, P!ghosts
<1>2. r \in P!Requests /\ r \notin P!Frames
  OBVIOUS
<1>3. CASE P!Request(r)
  <2>1. P!Submit(r)
    BY <1>3 DEF P!Request
  <2>2. QED
    BY <1>1, <1>2, <2>1, Submits, OthersKeep DEF PreviewsInv
<1>4. CASE P!Answered(r)
  <2>1. workingIn' = [workingIn EXCEPT ![r] = 0] /\ UNCHANGED <<pool, made, dead>>
    BY <1>4 DEF P!Answered
  <2>2. /\ workingIn' \in [P!Requests -> 0..made] /\ \A g \in P!Frames : workingIn'[g] = workingIn[g]
        /\ made \in Nat /\ pool \in 0..made /\ dead \subseteq 1..made
    BY <1>2, <2>1 DEF PreviewsInv, PreviewTypes
  <2>3. QED
    BY <1>1, <2>1, <2>2, OthersKeep
<1>5. QED
  BY <1>3, <1>4

LEMMA WorkerDiesKeeps == ASSUME PreviewsInv, P!WorkerDies PROVE PreviewsInv'
<1>1. /\ UNCHANGED <<stage, holder, waiters, latest, shown, jpgs, files, kept, deleting, strays>>
      /\ UNCHANGED <<pool, made, workingIn>> /\ pool # 0 /\ dead' = dead \cup {pool}
  BY DEF P!WorkerDies, P!lock, P!previews, P!keeping, P!ghosts
<1>2. dead' \subseteq 1..made'
  BY <1>1 DEF PreviewsInv, PreviewTypes
<1>3. QED
  BY <1>1, <1>2, OthersKeep DEF PreviewsInv, PreviewTypes

LEMMA PreviewsStay == ASSUME PreviewsInv, UNCHANGED previewVars PROVE PreviewsInv'
<1>1. UNCHANGED <<stage, holder, waiters, latest, pool, made, dead, workingIn, shown, jpgs, files,
                  kept, deleting, strays>>
  BY DEF previewVars
<1>2. QED
  BY <1>1, OthersKeep DEF PreviewsInv, PreviewTypes

LEMMA PreviewsStep == ASSUME PreviewsInv, P!Next PROVE PreviewsInv'
<1>1. ASSUME NEW f \in P!Frames, P!Arrive(f) \/ P!Steps(f) PROVE PreviewsInv'
  <2>1. f \in P!Requests
    BY FrameNumbers
  <2>2. CASE P!KeepEnds(f)
    BY <2>2, KeptEnds DEF P!KeepEnds, P!To, P!lock, P!pools, P!previews, P!ghosts
  <2>3. CASE ~P!KeepEnds(f)
    BY <1>1, <2>1, <2>3, ArriveKeeps, AnalysisEndsKeeps, AnalysisFailsKeeps, ExpiredKeeps, DiedKeeps
       DEF P!Steps
  <2>4. QED
    BY <2>2, <2>3
<1>2. ASSUME NEW r \in Others, P!Request(r) \/ P!Answered(r) \/ P!Died(r) PROVE PreviewsInv'
  <2>1. r \in P!Requests
    BY FrameNumbers
  <2>2. QED
    BY <1>2, <2>1, RequestKeeps, DiedKeeps
<1>3. CASE P!Granted \/ P!WorkerDies
  BY <1>3, GrantedKeeps, WorkerDiesKeeps
<1>4. QED
  BY <1>1, <1>2, <1>3, CancelKeeps DEF P!Next

----------------------------------------------------------------------------
(* Both *)

LEMMA ServicesInit == Init => EquipmentInv /\ PreviewsInv
BY EquipmentInit, PreviewsInit DEF Init

LEMMA ServicesStep ==
  EquipmentInv /\ PreviewsInv /\ [Next]_vars => EquipmentInv' /\ PreviewsInv'
<1> SUFFICES ASSUME EquipmentInv, PreviewsInv, [Next]_vars PROVE EquipmentInv' /\ PreviewsInv'
  OBVIOUS
<1>1. CASE Equipment
  BY <1>1, EquipmentStep, PreviewsStay DEF Equipment
<1>2. CASE Previews
  BY <1>2, EquipmentStays, PreviewsStep DEF Previews
<1>3. CASE UNCHANGED vars
  BY <1>3, EquipmentStays, PreviewsStay DEF vars
<1>4. QED
  BY <1>1, <1>2, <1>3 DEF Next

\* A role that is ready in a connected profile has a device that is there and connected, as far
\* as indiserver has told (EquipmentService._connect_role, _on_event).  Left out: a role whose
\* device went or was switched off while a pass ran or its driver was restarted (missed), and
\* everything after a driver was restarted beside a pass or a disconnect (crossed).
THEOREM RolesAreThere == Spec => []ReadyIsThere
<1>1. EquipmentInv => ReadyIsThere
  <2> SUFFICES ASSUME EquipmentInv PROVE E!ReadyIsThere
    BY DEF ReadyIsThere
  <2>1. ASSUME conn = "connected", ~crossed, NEW r \in Roles \ missed, status[r] = "ready"
        PROVE  on[DriverOf[r]] /\ view[DriverOf[r]] # "none"
    BY <2>1 DEF EquipmentInv, LiveInv, Live
  <2>2. QED
    BY <2>1 DEF E!ReadyIsThere
<1>2. QED
  BY <1>1, ServicesInit, ServicesStep, PTL DEF Spec

\* As many JPEGs as are remembered, and one that is being deleted.
LEMMA JpgsBounded == PreviewsInv => P!PreviewsBounded
<1> SUFFICES ASSUME PreviewsInv PROVE P!PreviewsBounded
  OBVIOUS
<1> USE FrameNumbers
<1> DEFINE R == {shown[i] : i \in 1..Len(shown)}
<1>1. shown \in Seq(P!Frames) /\ Len(shown) \in Nat /\ Len(shown) <= Keep
  BY DEF PreviewsInv, PreviewTypes, JpgsInv
<1>2. IsFiniteSet(R) /\ Cardinality(R) <= Len(shown)
  <2> DEFINE g == [i \in 1..Len(shown) |-> shown[i]]
  <2>1. g \in Surjection(1..Len(shown), R)
    BY DEF Surjection
  <2>2. IsFiniteSet(1..Len(shown)) /\ Cardinality(1..Len(shown)) = Len(shown)
    <3>1. 1 \in Int /\ Len(shown) \in Int /\ (1 > Len(shown) => Len(shown) = 0)
      BY <1>1
    <3>2. /\ IsFiniteSet(1..Len(shown))
          /\ Cardinality(1..Len(shown)) = IF 1 > Len(shown) THEN 0 ELSE Len(shown) - 1 + 1
      BY <3>1, FS_Interval
    <3>3. QED
      BY <1>1, <3>1, <3>2
  <2> HIDE DEF g, R
  <2>3. QED
    BY <2>1, <2>2, FS_Surjection
<1>3. PICK x : jpgs \subseteq Remembered \cup {x}
  BY DEF PreviewsInv, JpgsInv
<1>4. jpgs \ strays \subseteq R \cup {x}
  BY <1>3 DEF Remembered
<1> HIDE DEF R
<1>5. /\ IsFiniteSet(R \cup {x}) /\ Cardinality(R \cup {x}) <= Len(shown) + 1
  <2>1. Cardinality(R) \in Nat
    BY <1>2, FS_CardinalityType
  <2>2. QED
    <3>1. /\ IsFiniteSet(R \cup {x})
          /\ Cardinality(R \cup {x}) = IF x \in R THEN Cardinality(R) ELSE Cardinality(R) + 1
      BY <1>2, FS_AddElement
    <3>2. QED
      BY <1>1, <1>2, <2>1, <3>1
<1>6. /\ IsFiniteSet(jpgs \ strays) /\ Cardinality(jpgs \ strays) <= Cardinality(R \cup {x})
  BY <1>4, <1>5, FS_Subset
<1>7. Cardinality(jpgs \ strays) \in Nat /\ Cardinality(R \cup {x}) \in Nat
  BY <1>5, <1>6, FS_CardinalityType
<1>8. P!Cardinality(jpgs \ strays) = Cardinality(jpgs \ strays)
  BY DEF P!Cardinality, Cardinality
<1>9. Cardinality(jpgs \ strays) <= Keep + 1
  BY <1>1, <1>5, <1>6, <1>7
<1>10. QED
  BY <1>8, <1>9 DEF P!PreviewsBounded

\* A profile that is disconnected, with no pass or listing under way, has no driver of NOCS's
\* running, unless a driver was restarted beside a pass or a disconnect (crossed); a frame on
\* its way to a preview has an owner, the frame behind the preview is on disk, and so are no
\* more previews than are kept, but for what a worker that died had half written
\* (EquipmentService._disconnect, _not_found, list_devices; CaptureService._preview, _keep;
\* ImagingWorker.analyze).  Files before the frame is exposed, and once it is saved, are not
\* looked at.
THEOREM LeftBehind == Spec => []NothingLeft
<1>1. EquipmentInv => E!NothingLeftRunning
  <2> SUFFICES ASSUME EquipmentInv PROVE E!NothingLeftRunning
    OBVIOUS
  <2>1. ASSUME conn = "disconnected", listing = {}, ~crossed PROVE ours = {}
    BY <2>1 DEF EquipmentInv, OursInv
  <2>2. QED
    BY <2>1 DEF E!NothingLeftRunning, E!Idle
<1>2. PreviewsInv => P!FilesAreOwned /\ P!KeptIsThere
  <2> SUFFICES ASSUME PreviewsInv PROVE P!FilesAreOwned /\ P!KeptIsThere
    OBVIOUS
  <2>1. P!KeptIsThere
    BY DEF PreviewsInv, FilesInv, P!KeptIsThere
  <2>2. ASSUME NEW f \in files
        PROVE  stage[f] \in P!InFlight \/ f = kept \/ f \in P!Range(deleting)
    <3>1. stage[f] \in Unshown \/ f = kept \/ \E g \in P!Frames : deleting[g] = f
      BY DEF PreviewsInv, FilesInv
    <3>2. Unshown \subseteq P!InFlight
      BY DEF Unshown, P!InFlight
    <3>3. DOMAIN deleting = P!Frames
      BY DEF PreviewsInv, PreviewTypes
    <3>4. QED
      BY <3>1, <3>2, <3>3 DEF P!Range
  <2>3. QED
    BY <2>1, <2>2 DEF P!FilesAreOwned
<1>3. EquipmentInv /\ PreviewsInv => NothingLeft
  BY <1>1, <1>2, JpgsBounded DEF NothingLeft
<1>4. QED
  BY <1>3, ServicesInit, ServicesStep, PTL DEF Spec

\* The frame kept behind the preview only gives way to a newer one, whichever frames are
\* dropped, rejected or cancelled on the way (CaptureService._keep).
THEOREM NewestIsKept == Spec => P!KeptForward
<1>1. PreviewsInv /\ [Next]_vars => [kept' >= kept]_(P!vars)
  <2> SUFFICES ASSUME PreviewsInv, [Next]_vars PROVE kept' >= kept \/ UNCHANGED P!vars
    OBVIOUS
  <2>1. kept \in 0..Count /\ Count \in Nat
    BY FrameNumbers DEF PreviewsInv, PreviewTypes
  <2>2. CASE kept' = kept
    BY <2>1, <2>2
  <2>3. CASE kept' # kept
    <3>1. P!Next
      BY <2>3 DEF Next, Equipment, Previews, vars, previewVars
    <3>2. PICK f \in P!Frames : P!AnalysisEnds(f) \/ P!Expired(f)
      BY <2>3, <3>1 DEF P!Next, P!Steps, P!Granted, P!WorkerDies, P!Arrive, P!AnalysisFails,
         P!KeepEnds, P!Died, P!Cancel, P!Request, P!Answered, P!previews, P!keeping
    <3>3. stage[f] \in Busy /\ (P!Shown(f) \/ kept' = kept)
      BY <3>2 DEF P!AnalysisEnds, P!Expired, P!keeping, Busy
    <3>4. kept < f /\ kept' = f
      BY <2>3, <3>3, OneAtWork DEF P!Shown
    <3>5. QED
      BY <2>1, <3>4, FrameNumbers
  <2>4. QED
    BY <2>2, <2>3
<1>2. QED
  BY <1>1, ServicesInit, ServicesStep, PTL DEF Spec, P!KeptForward

=============================================================================
