---------------------------- MODULE Network_proofs ----------------------------
(***************************************************************************)
(* For any networks, graces and number of operations: every state is well   *)
(* typed, and the settings that the owner chose for the access point are    *)
(* never forgotten.                                                         *)
(***************************************************************************)
EXTENDS Network, TLAPS

Joins == {"joinDelay", "joinLoad", "joinUp", "joinFailed"}

\* A join is of some network; there are as many settings as were chosen.
NetworkTypes == TypeOK /\ (pc \in Joins \cup {"tryUp"} => target \in Ssids) /\ settings <= asked

LEMMA TypesInit == Init => NetworkTypes
<1> SUFFICES ASSUME Init PROVE NetworkTypes
  OBVIOUS
<1>1. /\ wifi \in {"none", "ap"} \cup Ssids /\ profiles \subseteq Ssids /\ inRange \subseteq Ssids
      /\ phone = FALSE /\ pin = "auto" /\ pc = "wait"
  BY DEF Init
<1>2. /\ onAir = 0 /\ keyfile = 0 /\ settings = 0 /\ asked = 0 /\ lost = 0 /\ sinceTry = Retry
      /\ pendingJoin = None /\ pendingAp = FALSE /\ wake = FALSE /\ booting = TRUE
      /\ joining = FALSE /\ target = None /\ seen = {}
  BY DEF Init
<1>3. /\ 0 \in 0..MaxAsks /\ 0 \in 0..BootGrace /\ Retry \in 0..Retry /\ 0 # None
  BY NetworkAssumption
<1>4. TypeOK
  BY <1>1, <1>2, <1>3 DEF TypeOK
<1>5. QED
  BY <1>1, <1>2, <1>3, <1>4 DEF NetworkTypes, Joins

LEMMA OperationTypes == ASSUME NetworkTypes, Operation PROVE NetworkTypes'
<1> USE NetworkAssumption DEF NetworkTypes, TypeOK, Ask, radio, timers, actor
<1>1. CASE AccessPoint
  BY <1>1 DEF AccessPoint
<1>2. ASSUME NEW s \in Ssids, Join(s) PROVE NetworkTypes'
  BY <1>2 DEF Join
<1>3. ASSUME NEW s \in Ssids, Forget(s) PROVE NetworkTypes'
  BY <1>3 DEF Forget
<1>4. ASSUME NEW p \in {"auto", "ap", "station"}, SetMode(p) PROVE NetworkTypes'
  BY <1>4 DEF SetMode
<1>5. QED
  BY <1>1, <1>2, <1>3, <1>4 DEF Operation

LEMMA WaitTypes == ASSUME NetworkTypes, Wait PROVE NetworkTypes'
<1> USE NetworkAssumption DEF NetworkTypes, TypeOK
<1>1. /\ lost' \in 0..BootGrace \cup {None} /\ (booting' => lost' # None) /\ booting' = booting
      /\ sinceTry' \in 0..Retry
  <2>1. CASE UNCHANGED timers
    BY <2>1 DEF timers
  <2>2. CASE ~UNCHANGED timers
    BY <2>2 DEF Wait
  <2>3. QED
    BY <2>1, <2>2
<1>2. QED
  BY <1>1 DEF Wait, At, choice, radio, Joins

LEMMA LookTypes == ASSUME NetworkTypes, Look \/ NoAnswer PROVE NetworkTypes'
<1> USE NetworkAssumption DEF NetworkTypes, TypeOK, Joins
<1>1. UNCHANGED <<wifi, profiles, inRange, phone, onAir, keyfile, settings, pin, asked, wake>>
  BY DEF Look, NoAnswer, At, choice, radio
<1>2. /\ pendingAp' \in BOOLEAN /\ pc' \in {"apDelay", "country", "down", "clients", "wait"}
      /\ (pc' # "wait" => UNCHANGED <<joining, target, seen, pendingJoin>>)
      /\ (pc' = "wait" => TickOver)
  BY DEF Look, NoAnswer, Pinned, OnStation, OnAp, Offline, StartAp, GoTo, TickOver
<1>3. /\ lost' \in 0..BootGrace \cup {None} /\ (booting' => lost' # None) /\ booting' \in BOOLEAN
      /\ sinceTry' = sinceTry
  <2>1. CASE UNCHANGED timers
    BY <2>1 DEF timers
  <2>2. CASE OnStation
    BY <2>2 DEF OnStation
  <2>3. CASE Offline
    <3>1. CASE lost # None /\ lost >= Grace
      BY <2>3, <3>1 DEF Offline
    <3>2. CASE ~(lost # None /\ lost >= Grace)
      <4>1. lost' = (IF lost = None THEN 0 ELSE lost) /\ booting' = booting /\ sinceTry' = sinceTry
        BY <2>3, <3>2 DEF Offline
      <4>2. 0 \in 0..BootGrace /\ 0 # None
        OBVIOUS
      <4>3. QED
        BY <4>1, <4>2
    <3>3. QED
      BY <3>1, <3>2
  <2>4. QED
    BY <2>1, <2>2, <2>3 DEF Look, NoAnswer, Pinned, OnAp
<1>4. QED
  BY <1>1, <1>2, <1>3 DEF TickOver

LEMMA JoinTypes == ASSUME NetworkTypes, JoinStep PROVE NetworkTypes'
<1> USE NetworkAssumption DEF NetworkTypes, TypeOK, Joins, At, GoTo, TickOver, choice, timers
<1>1. CASE JoinDelayOver
  BY <1>1 DEF JoinDelayOver, radio
<1>2. CASE JoinLoaded
  BY <1>2 DEF JoinLoaded
<1>3. CASE Joined
  BY <1>3 DEF Joined, ComesUp
<1>4. CASE CannotJoin
  BY <1>4 DEF CannotJoin, FailsUp
<1>5. CASE JoinFailed
  BY <1>5 DEF JoinFailed, StartAp
<1>6. QED
  BY <1>1, <1>2, <1>3, <1>4, <1>5 DEF JoinStep

\* What the steps around the access point do to the Wi-Fi, and where they go.
LEMMA StepTypes ==
  ASSUME NetworkTypes, UNCHANGED <<settings, pin, asked, profiles, inRange, booting, lost, wake>>,
         wifi' \in {wifi, "ap", "none"}, phone' \in {phone, FALSE}, phone' => wifi' = "ap",
         onAir' \in {onAir, keyfile}, keyfile' \in {keyfile, settings}, sinceTry' \in 0..Retry,
         pendingAp' \in BOOLEAN,
         TickOver \/ (GoTo(pc') /\ pc' \in {"country", "write", "apUp", "known"})
  PROVE  NetworkTypes'
<1> USE NetworkAssumption DEF NetworkTypes, TypeOK
<1>1. /\ wifi' \in {"none", "ap"} \cup Ssids /\ phone' \in BOOLEAN
      /\ {onAir', keyfile', settings'} \subseteq 0..MaxAsks
  OBVIOUS
<1>2. /\ pc' \in {"wait", "country", "write", "apUp", "known"} /\ joining' \in BOOLEAN
      /\ target' \in Ssids \cup {None} /\ seen' \subseteq Ssids /\ pendingJoin' \in Ssids \cup {None}
  BY DEF TickOver, GoTo
<1>3. QED
  BY <1>1, <1>2 DEF Joins

LEMMA ApTypes == ASSUME NetworkTypes, ApStep PROVE NetworkTypes'
<1>1. /\ phone \in BOOLEAN /\ pendingAp \in BOOLEAN /\ sinceTry \in 0..Retry /\ (phone => wifi = "ap")
  BY DEF NetworkTypes, TypeOK
<1> USE DEF At, choice, timers, StartAp
<1>2. CASE ApDelayOver \/ CountrySet \/ Written
  <2>1. GoTo(pc') /\ pc' \in {"country", "write", "apUp"}
    BY <1>2 DEF ApDelayOver, CountrySet, Written, GoTo
  <2>2. CASE ApDelayOver
    BY <1>1, <2>1, <2>2, StepTypes DEF ApDelayOver, radio
  <2>3. CASE CountrySet
    BY <1>1, <2>1, <2>3, StepTypes DEF CountrySet, radio
  <2>4. CASE Written
    BY <1>1, <2>1, <2>4, StepTypes DEF Written, radio
  <2>5. QED
    BY <1>2, <2>2, <2>3, <2>4
<1>3. CASE ApComesUp
  BY <1>1, <1>3, StepTypes DEF ApComesUp
<1>4. CASE ApFails
  BY <1>1, <1>4, StepTypes DEF ApFails
<1>5. CASE ApGoesDown
  BY <1>1, <1>5, StepTypes DEF ApGoesDown
<1>6. CASE ApStaysUp
  BY <1>1, <1>6, StepTypes DEF ApStaysUp, radio
<1>7. QED
  BY <1>2, <1>3, <1>4, <1>5, <1>6 DEF ApStep

LEMMA TryTypes == ASSUME NetworkTypes, TryStep PROVE NetworkTypes'
<1> USE NetworkAssumption DEF NetworkTypes, TypeOK, At, choice
<1>1. CASE Clients
  <2>1. TickOver \/ (GoTo(pc') /\ pc' = "known")
    BY <1>1 DEF Clients, GoTo
  <2>2. QED
    BY <1>1, <2>1, StepTypes DEF Clients, radio
<1>2. CASE Known
  BY <1>2 DEF Known, TickOver, radio, timers, Joins
<1>3. CASE Scan
  BY <1>3 DEF Scan, TickOver, radio, timers, Joins
<1>4. CASE Tried
  BY <1>4 DEF Tried, ComesUp, TickOver, timers, Joins
<1>5. CASE CannotTry
  BY <1>5, StepTypes DEF CannotTry, FailsUp, StartAp, GoTo, timers
<1>6. QED
  BY <1>1, <1>2, <1>3, <1>4, <1>5 DEF TryStep

LEMMA WorldTypes == ASSUME NetworkTypes, World PROVE NetworkTypes'
<1> USE NetworkAssumption DEF NetworkTypes, TypeOK, NotActor, timers, choice, actor
<1>1. CASE AutoConnect
  BY <1>1 DEF AutoConnect
<1>2. CASE PhoneComesOrGoes
  BY <1>2 DEF PhoneComesOrGoes
<1>3. ASSUME NEW s \in Ssids, RangeChanges(s) PROVE NetworkTypes'
  BY <1>3 DEF RangeChanges
<1>4. QED
  BY <1>1, <1>2, <1>3 DEF World

LEMMA TypesStep == NetworkTypes /\ [Next]_vars => NetworkTypes'
<1> SUFFICES ASSUME NetworkTypes, [Next]_vars PROVE NetworkTypes'
  OBVIOUS
<1>1. CASE Next
  BY <1>1, OperationTypes, WaitTypes, LookTypes, JoinTypes, ApTypes, TryTypes, WorldTypes
     DEF Next, Actor
<1>2. CASE UNCHANGED vars
  BY <1>2 DEF vars, radio, timers, choice, actor, NetworkTypes, TypeOK, Joins
<1>3. QED
  BY <1>1, <1>2

\* Every reachable state is well typed: the device is on the access point, a network or
\* nothing, and a phone is only ever on the access point (Network, _Timers).
THEOREM TypeCorrect == Spec => []TypeOK
<1>1. NetworkTypes => TypeOK
  BY DEF NetworkTypes
<1>2. QED
  BY <1>1, TypesInit, TypesStep, PTL DEF Spec

----------------------------------------------------------------------------
\* A start of the access point has its settings from the file that Written wrote; those
\* chosen since are pending.
StartingInv == pc = "apUp" => keyfile = settings \/ pendingAp

NotForgotten == SettingsNotForgotten /\ StartingInv

LEMMA NetworkInit == Init => NotForgotten
BY DEF Init, NotForgotten, SettingsNotForgotten, StartingInv

\* A tick that goes on from where nothing starts leaves what is pending.
LEMMA TickKeeps ==
  ASSUME NotForgotten, UNCHANGED <<settings, keyfile>>, pc' # "apUp",
         pc \notin {"apDelay", "country", "write"},
         wifi' = "ap" => wifi = "ap" /\ onAir' = onAir /\ pendingAp' = pendingAp
  PROVE  NotForgotten'
BY DEF NotForgotten, SettingsNotForgotten, StartingInv

\* So does a start: pending or not, it writes the settings as they are.
LEMMA StartKeeps ==
  ASSUME pc' \in {"apDelay", "country", "write"}
  PROVE  NotForgotten'
BY DEF NotForgotten, SettingsNotForgotten, StartingInv

LEMMA OperationKeeps == ASSUME NotForgotten, Operation PROVE NotForgotten'
<1>1. CASE AccessPoint
  BY <1>1 DEF AccessPoint, NotForgotten, SettingsNotForgotten, StartingInv
<1>2. ASSUME NEW s \in Ssids, Join(s) \/ Forget(s) PROVE NotForgotten'
  BY <1>2 DEF Join, Forget, radio, actor, NotForgotten, SettingsNotForgotten, StartingInv
<1>3. ASSUME NEW p \in {"auto", "ap", "station"}, SetMode(p) PROVE NotForgotten'
  BY <1>3 DEF SetMode, radio, actor, NotForgotten, SettingsNotForgotten, StartingInv
<1>4. QED
  BY <1>1, <1>2, <1>3 DEF Operation

\* What is pending is only given up where the access point is not on, or about to start.
LEMMA LookKeeps == ASSUME NotForgotten, Look PROVE NotForgotten'
<1>1. /\ pc = "look" /\ UNCHANGED <<settings, keyfile, wifi, onAir>>
  BY DEF Look, At, choice, radio
<1>2. CASE pendingAp /\ wifi = "ap"
  BY <1>2, StartKeeps DEF Look, GoTo
<1>3. CASE ~(pendingAp /\ wifi = "ap") /\ StartAp
  BY <1>3, StartKeeps DEF StartAp, GoTo
<1>4. CASE ~(pendingAp /\ wifi = "ap") /\ ~StartAp
  <2>1. Pinned \/ OnStation \/ OnAp \/ Offline
    BY <1>4 DEF Look
  <2>2. pc' \in {"wait", "down", "clients"} /\ (pendingAp' = FALSE)
    BY <1>4, <2>1 DEF Pinned, OnStation, OnAp, Offline, TickOver, GoTo
  <2>3. CASE wifi = "ap"
    BY <1>1, <1>4, <2>2, <2>3 DEF NotForgotten, SettingsNotForgotten, StartingInv
  <2>4. CASE wifi # "ap"
    BY <1>1, <2>2, <2>4, TickKeeps
  <2>5. QED
    BY <2>3, <2>4
<1>5. QED
  BY <1>2, <1>3, <1>4

LEMMA JoinKeeps == ASSUME NetworkTypes, NotForgotten, JoinStep PROVE NotForgotten'
<1>1. CASE JoinDelayOver \/ JoinLoaded \/ Joined \/ CannotJoin
  <2>1. /\ pc \in {"joinDelay", "joinLoad", "joinUp"} /\ pc' \in {"joinLoad", "joinUp", "joinFailed", "wait"}
        /\ UNCHANGED <<settings, keyfile, onAir, pendingAp>>
    BY <1>1 DEF JoinDelayOver, JoinLoaded, Joined, CannotJoin, At, GoTo, TickOver, choice, radio
  <2>2. wifi' = "ap" => wifi = "ap"
    BY <1>1, NetworkAssumption
       DEF JoinDelayOver, JoinLoaded, Joined, CannotJoin, ComesUp, FailsUp, radio, NetworkTypes, TypeOK
  <2>3. QED
    BY <2>1, <2>2, TickKeeps
<1>2. CASE JoinFailed
  BY <1>2, StartKeeps DEF JoinFailed, StartAp, GoTo
<1>3. QED
  BY <1>1, <1>2 DEF JoinStep

LEMMA ApKeeps == ASSUME NotForgotten, ApStep PROVE NotForgotten'
<1>1. CASE ApDelayOver \/ CountrySet
  BY <1>1, StartKeeps DEF ApDelayOver, CountrySet, StartAp, GoTo
<1>2. CASE Written
  BY <1>2 DEF Written, At, GoTo, choice, radio, NotForgotten, SettingsNotForgotten, StartingInv
<1>3. CASE ApComesUp
  BY <1>3 DEF ApComesUp, At, TickOver, choice, NotForgotten, SettingsNotForgotten, StartingInv
<1>4. CASE ApFails \/ ApGoesDown \/ ApStaysUp
  <2>1. /\ pc \in {"apUp", "down"} /\ pc' = "wait" /\ (wifi' = "ap" => wifi = "ap")
        /\ UNCHANGED <<settings, keyfile, onAir, pendingAp>>
    BY <1>4 DEF ApFails, ApGoesDown, ApStaysUp, At, TickOver, choice, radio
  <2>2. QED
    BY <2>1, TickKeeps
<1>5. QED
  BY <1>1, <1>2, <1>3, <1>4 DEF ApStep

LEMMA TryKeeps == ASSUME NetworkTypes, NotForgotten, TryStep PROVE NotForgotten'
<1>1. CASE Clients \/ Known \/ Scan \/ Tried
  <2>1. /\ pc \in {"clients", "known", "scan", "tryUp"} /\ pc' \in {"known", "scan", "tryUp", "wait"}
        /\ UNCHANGED <<settings, keyfile, onAir, pendingAp>>
    BY <1>1 DEF Clients, Known, Scan, Tried, At, GoTo, TickOver, choice, radio
  <2>2. wifi' = "ap" => wifi = "ap"
    BY <1>1, NetworkAssumption DEF Clients, Known, Scan, Tried, ComesUp, radio, NetworkTypes, TypeOK
  <2>3. QED
    BY <2>1, <2>2, TickKeeps
<1>2. CASE CannotTry
  BY <1>2, StartKeeps DEF CannotTry, StartAp, GoTo
<1>3. QED
  BY <1>1, <1>2 DEF TryStep

\* NetworkManager and the world start no access point.
LEMMA WorldKeeps == ASSUME NetworkTypes, NotForgotten, World PROVE NotForgotten'
<1>1. /\ UNCHANGED <<onAir, keyfile, settings, pendingAp, pc>> /\ (wifi' = "ap" => wifi = "ap")
  BY NetworkAssumption DEF World, AutoConnect, PhoneComesOrGoes, RangeChanges, NotActor, choice, actor,
     NetworkTypes, TypeOK
<1>2. QED
  BY <1>1 DEF NotForgotten, SettingsNotForgotten, StartingInv

LEMMA NotForgottenStep ==
  NetworkTypes /\ NotForgotten /\ [Next]_vars => NotForgotten'
<1> SUFFICES ASSUME NetworkTypes, NotForgotten, [Next]_vars PROVE NotForgotten'
  OBVIOUS
<1>1. CASE Wait
  BY <1>1, TickKeeps DEF Wait, At, choice, radio
<1>2. CASE NoAnswer
  BY <1>2, TickKeeps DEF NoAnswer, TickOver, choice, radio
<1>3. CASE UNCHANGED vars
  BY <1>3 DEF vars, radio, choice, actor, NotForgotten, SettingsNotForgotten, StartingInv
<1>4. QED
  BY <1>1, <1>2, <1>3, OperationKeeps, LookKeeps, JoinKeeps, ApKeeps, TryKeeps, WorldKeeps
     DEF Next, Actor

\* The settings the owner chose for the access point are in its file, about to be written to
\* it, or pending for the next tick, whenever they changed and whatever failed
\* (Network.access_point, tick and _start_ap).
THEOREM SettingsRemembered == Spec => []SettingsNotForgotten
<1>1. NotForgotten => SettingsNotForgotten
  BY DEF NotForgotten
<1>2. QED
  BY <1>1, TypesInit, TypesStep, NetworkInit, NotForgottenStep, PTL DEF Spec
=============================================================================
