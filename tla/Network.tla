------------------------------- MODULE Network -------------------------------
(***************************************************************************)
(* The appliance's Wi-Fi (nocs.system.network, ADR 0028): one actor that    *)
(* looks at the device every TICK seconds, or when an operation wakes it,   *)
(* and decides between the access point and the networks it knows, with the *)
(* owner's operations, NetworkManager and phones around it.                 *)
(*                                                                          *)
(* The event loop runs one callback at a time: pc is the await at which the *)
(* actor is.  Time is counted in ticks.  Passwords, countries and names are *)
(* left out: the access point's settings are numbered as they change.  The  *)
(* Wi-Fi device exists.                                                     *)
(***************************************************************************)
EXTENDS Naturals

CONSTANTS
  Ssids,      \* the networks there may be
  None,
  BootGrace,  \* BOOT_GRACE, in ticks
  LostGrace,  \* LOST_GRACE, in ticks
  Retry,      \* RETRY_STATIONS, in ticks
  MaxAsks     \* bound: operations of the owner

ASSUME NetworkAssumption ==
  /\ {"none", "ap"} \cap Ssids = {} /\ None \notin Ssids \cup Nat
  /\ BootGrace \in Nat \ {0} /\ LostGrace \in Nat \ {0} /\ Retry \in Nat \ {0}
  /\ LostGrace <= BootGrace
  /\ MaxAsks \in Nat

VARIABLES
  wifi,      \* what the device is connected to: "none", "ap" or a network
  profiles,  \* the networks NetworkManager has a connection for
  inRange,   \* the networks in range
  phone,     \* a phone is associated with the access point
  onAir,     \* the settings the access point runs with
  keyfile,   \* the settings in its connection file
  settings,  \* the settings the owner last chose
  pin,       \* Settings.pin
  asked,     \* operations so far
  pendingJoin, pendingAp, booting, wake,  \* _Timers
  lost,      \* ticks since _Timers.lost_since (or started), None when it is None
  sinceTry,  \* ticks since _Timers.last_try, up to Retry
  pc,        \* the await the actor is at
  joining,   \* its tick is a join
  target,    \* the network it joins or tries
  seen       \* the networks it believes known

radio == <<wifi, profiles, inRange, phone, onAir>>
timers == <<booting, lost, sinceTry>>
choice == <<settings, pin, asked>>
actor == <<pc, joining, target, seen>>
vars == <<radio, keyfile, timers, choice, pendingJoin, pendingAp, wake, actor>>

TypeOK ==
  /\ wifi \in {"none", "ap"} \cup Ssids
  /\ profiles \subseteq Ssids /\ inRange \subseteq Ssids
  /\ phone \in BOOLEAN /\ (phone => wifi = "ap")
  /\ {onAir, keyfile, settings} \subseteq 0..MaxAsks
  /\ pin \in {"auto", "ap", "station"}
  /\ pendingJoin \in Ssids \cup {None} /\ pendingAp \in BOOLEAN /\ wake \in BOOLEAN
  /\ booting \in BOOLEAN /\ lost \in 0..BootGrace \cup {None}
  /\ booting => lost # None
  /\ sinceTry \in 0..Retry
  /\ pc \in {"wait", "joinDelay", "joinLoad", "joinUp", "joinFailed", "look", "apDelay",
             "country", "write", "apUp", "down", "clients", "known", "scan", "tryUp"}
  /\ joining \in BOOLEAN /\ target \in Ssids \cup {None} /\ seen \subseteq Ssids
  /\ asked \in 0..MaxAsks

\* nocs-system starts, with the Pi or again while the Wi-Fi is in use.
Init ==
  /\ profiles \in SUBSET Ssids /\ inRange \in SUBSET Ssids
  /\ wifi \in {"none", "ap"} \cup (profiles \cap inRange)
  /\ phone = FALSE /\ onAir = 0 /\ keyfile = 0 /\ settings = 0
  /\ pin = "auto"
  /\ pendingJoin = None /\ pendingAp = FALSE /\ wake = FALSE
  /\ booting = TRUE /\ lost = 0 /\ sinceTry = Retry
  /\ pc = "wait" /\ joining = FALSE /\ target = None /\ seen = {}
  /\ asked = 0

----------------------------------------------------------------------------
(* The owner's operations *)

Ask == asked < MaxAsks /\ asked' = asked + 1

\* Network.join: accepted at once.
Join(s) ==
  /\ Ask
  /\ pendingJoin' = s /\ wake' = TRUE
  /\ UNCHANGED <<radio, keyfile, timers, settings, pin, pendingAp, actor>>

\* Network.forget: a connection that is up goes down with its deletion.
Forget(s) ==
  /\ Ask
  /\ profiles' = profiles \ {s}
  /\ wifi' = IF wifi = s THEN "none" ELSE wifi
  /\ UNCHANGED <<inRange, phone, onAir, keyfile, timers, settings, pin, pendingJoin,
                 pendingAp, wake, actor>>

\* Network.access_point: new settings, applied in a moment if it is on.
AccessPoint ==
  /\ Ask
  /\ settings' = settings + 1
  /\ pendingAp' = TRUE /\ wake' = TRUE
  /\ UNCHANGED <<radio, keyfile, timers, pin, pendingJoin, actor>>

\* Network.set_mode.
SetMode(p) ==
  /\ Ask
  /\ pin' = p /\ wake' = TRUE
  /\ UNCHANGED <<radio, keyfile, timers, settings, pendingJoin, pendingAp, actor>>

Operation ==
  \/ AccessPoint
  \/ \E s \in Ssids : Join(s) \/ Forget(s)
  \/ \E p \in {"auto", "ap", "station"} : SetMode(p)

----------------------------------------------------------------------------
(* The actor's ticks *)

At(p) == pc = p /\ UNCHANGED choice
GoTo(p) == pc' = p /\ UNCHANGED <<joining, target, seen, pendingJoin>>

\* The tick is over; a join's clears what is pending (the finally of tick).
TickOver ==
  /\ pc' = "wait" /\ joining' = FALSE /\ target' = None /\ seen' = {}
  /\ pendingJoin' = IF joining THEN None ELSE pendingJoin

\* run and the beginning of tick, after TICK or as soon as an operation asks.
Wait ==
  /\ At("wait")
  /\ wake' = FALSE
  /\ \/ wake /\ UNCHANGED timers
     \/ /\ lost' = IF lost = None \/ lost = BootGrace THEN lost ELSE lost + 1
        /\ sinceTry' = IF sinceTry = Retry THEN Retry ELSE sinceTry + 1
        /\ UNCHANGED booting
  /\ IF pendingJoin # None
     THEN pc' = "joinDelay" /\ joining' = TRUE /\ target' = pendingJoin
     ELSE pc' = "look" /\ UNCHANGED <<joining, target>>
  /\ UNCHANGED <<radio, keyfile, pendingJoin, pendingAp, seen>>

\* _start_ap begins: it starts with the settings as they are now.
StartAp == pendingAp' = FALSE /\ GoTo("country")

\* tick without a join: what to do about the device as it was found.
Pinned ==
  /\ pin # "auto"
  /\ IF pin = "ap" /\ wifi # "ap" THEN StartAp
     ELSE /\ pendingAp' = FALSE
          /\ IF pin = "station" /\ wifi = "ap" THEN GoTo("down") ELSE TickOver
  /\ UNCHANGED timers

OnStation ==
  /\ wifi \in Ssids
  /\ pendingAp' = FALSE /\ lost' = None /\ booting' = FALSE
  /\ UNCHANGED sinceTry
  /\ TickOver

OnAp ==
  /\ wifi = "ap"
  /\ pendingAp' = FALSE
  /\ UNCHANGED timers
  /\ IF sinceTry = Retry THEN GoTo("clients") ELSE TickOver

Grace == IF booting THEN BootGrace ELSE LostGrace

\* (Mutant) The time without a network is counted from the last tick.
Offline_CountsAgain ==
  /\ wifi = "none"
  /\ UNCHANGED sinceTry
  /\ IF lost # None /\ lost >= Grace
     THEN booting' = FALSE /\ lost' = None /\ StartAp
     ELSE /\ lost' = 0
          /\ pendingAp' = FALSE
          /\ UNCHANGED booting
          /\ TickOver

Offline ==
  /\ wifi = "none"
  /\ UNCHANGED sinceTry
  /\ IF lost # None /\ lost >= Grace
     THEN booting' = FALSE /\ lost' = None /\ StartAp
     ELSE /\ lost' = IF lost = None THEN 0 ELSE lost
          /\ pendingAp' = FALSE
          /\ UNCHANGED booting
          /\ TickOver

\* (Mutant) A network that is up is looked at before what the owner pinned.
Look_StationFirst ==
  /\ At("look")
  /\ IF pendingAp /\ wifi = "ap"
     THEN pendingAp' = FALSE /\ GoTo("apDelay") /\ UNCHANGED timers
     ELSE OnStation \/ (wifi \notin Ssids /\ Pinned) \/ (pin = "auto" /\ (OnAp \/ Offline))
  /\ UNCHANGED <<radio, keyfile, wake>>

Look ==
  /\ At("look")
  /\ IF pendingAp /\ wifi = "ap"
     THEN pendingAp' = FALSE /\ GoTo("apDelay") /\ UNCHANGED timers
     ELSE Pinned \/ (pin = "auto" /\ (OnStation \/ OnAp \/ Offline))
  /\ UNCHANGED <<radio, keyfile, wake>>

\* NetworkManager does not answer: the tick is given up.
NoAnswer ==
  /\ pc \in {"look", "joinLoad", "known"} /\ UNCHANGED choice
  /\ TickOver
  /\ UNCHANGED <<radio, keyfile, timers, pendingAp, wake>>

----------------------------------------------------------------------------
(* Joining a network *)

JoinDelayOver ==
  /\ At("joinDelay")
  /\ GoTo("joinLoad")
  /\ UNCHANGED <<radio, keyfile, timers, pendingAp, wake>>

\* Its connection is written and loaded.
JoinLoaded ==
  /\ At("joinLoad")
  /\ profiles' = profiles \cup {target}
  /\ GoTo("joinUp")
  /\ UNCHANGED <<wifi, inRange, phone, onAir, keyfile, timers, pendingAp, wake>>

\* A connection comes up, which takes the access point down, or fails after it did;
\* one that was forgotten meanwhile fails at once.
ComesUp ==
  /\ target \in profiles \cap inRange
  /\ wifi' = target /\ phone' = FALSE

FailsUp ==
  /\ wifi' = IF target \in profiles THEN "none" ELSE wifi
  /\ phone' = (phone /\ wifi' = "ap")

Joined ==
  /\ At("joinUp")
  /\ ComesUp
  /\ TickOver
  /\ UNCHANGED <<profiles, inRange, onAir, keyfile, timers, pendingAp, wake>>

CannotJoin ==
  /\ At("joinUp")
  /\ FailsUp
  /\ GoTo("joinFailed")
  /\ UNCHANGED <<profiles, inRange, onAir, keyfile, timers, pendingAp, wake>>

\* A network that cannot be joined is forgotten, and the access point comes back.
JoinFailed ==
  /\ At("joinFailed")
  /\ profiles' = profiles \ {target}
  /\ wifi' = IF wifi = target THEN "none" ELSE wifi
  /\ StartAp
  /\ UNCHANGED <<inRange, phone, onAir, keyfile, timers, wake>>

----------------------------------------------------------------------------
(* The access point *)

ApDelayOver ==
  /\ At("apDelay")
  /\ StartAp
  /\ UNCHANGED <<radio, keyfile, timers, wake>>

CountrySet ==
  /\ At("country")
  /\ GoTo("write")
  /\ UNCHANGED <<radio, keyfile, timers, pendingAp, wake>>

Written ==
  /\ At("write")
  /\ keyfile' = settings
  /\ GoTo("apUp")
  /\ UNCHANGED <<radio, timers, pendingAp, wake>>

\* (Mutant) What is pending is cleared when the access point is up, not before.
ApComesUp_ClearsPending ==
  /\ At("apUp")
  /\ wifi' = "ap" /\ onAir' = keyfile /\ phone' = FALSE
  /\ pendingAp' = FALSE
  /\ TickOver
  /\ UNCHANGED <<profiles, inRange, keyfile, timers, wake>>

ApComesUp ==
  /\ At("apUp")
  /\ wifi' = "ap" /\ onAir' = keyfile /\ phone' = FALSE
  /\ TickOver
  /\ UNCHANGED <<profiles, inRange, keyfile, timers, pendingAp, wake>>

ApFails ==
  /\ At("apUp")
  /\ wifi' \in {wifi, "none"} /\ phone' = (phone /\ wifi' = "ap")
  /\ TickOver
  /\ UNCHANGED <<profiles, inRange, onAir, keyfile, timers, pendingAp, wake>>

ApGoesDown ==
  /\ At("down")
  /\ wifi' = IF wifi = "ap" THEN "none" ELSE wifi
  /\ phone' = FALSE
  /\ TickOver
  /\ UNCHANGED <<profiles, inRange, onAir, keyfile, timers, pendingAp, wake>>

ApStaysUp ==
  /\ At("down")
  /\ TickOver
  /\ UNCHANGED <<radio, keyfile, timers, pendingAp, wake>>

----------------------------------------------------------------------------
(* Looking for known networks as an access point *)

Clients ==
  /\ At("clients")
  /\ IF phone THEN TickOver /\ UNCHANGED sinceTry ELSE GoTo("known") /\ sinceTry' = 0
  /\ UNCHANGED <<radio, keyfile, booting, lost, pendingAp, wake>>

Known ==
  /\ At("known")
  /\ IF profiles = {} THEN TickOver
     ELSE pc' = "scan" /\ seen' = profiles /\ UNCHANGED <<joining, target, pendingJoin>>
  /\ UNCHANGED <<radio, keyfile, timers, pendingAp, wake>>

\* A scan may miss networks, or fail.
Scan ==
  /\ At("scan")
  /\ \/ TickOver
     \/ /\ target' \in seen \cap inRange
        /\ pc' = "tryUp" /\ UNCHANGED <<joining, seen, pendingJoin>>
  /\ UNCHANGED <<radio, keyfile, timers, pendingAp, wake>>

Tried ==
  /\ At("tryUp")
  /\ ComesUp
  /\ TickOver
  /\ UNCHANGED <<profiles, inRange, onAir, keyfile, timers, pendingAp, wake>>

CannotTry ==
  /\ At("tryUp")
  /\ FailsUp
  /\ StartAp
  /\ UNCHANGED <<profiles, inRange, onAir, keyfile, timers, wake>>

----------------------------------------------------------------------------
(* NetworkManager and the world *)

NotActor == UNCHANGED <<profiles, onAir, keyfile, timers, choice, pendingJoin, pendingAp,
                        wake, actor>>

\* A network comes into range, or goes, and with it the connection to it.
RangeChanges(s) ==
  /\ inRange' = IF s \in inRange THEN inRange \ {s} ELSE inRange \cup {s}
  /\ wifi' = IF wifi = s THEN "none" ELSE wifi
  /\ UNCHANGED phone
  /\ NotActor

\* NetworkManager connects to a known network by itself when nothing is up.
AutoConnect ==
  /\ wifi = "none"
  /\ wifi' \in profiles \cap inRange
  /\ UNCHANGED <<inRange, phone>>
  /\ NotActor

PhoneComesOrGoes ==
  /\ wifi = "ap"
  /\ phone' = ~phone
  /\ UNCHANGED <<wifi, inRange>>
  /\ NotActor

World == AutoConnect \/ PhoneComesOrGoes \/ \E s \in Ssids : RangeChanges(s)

----------------------------------------------------------------------------

JoinStep == JoinDelayOver \/ JoinLoaded \/ Joined \/ CannotJoin \/ JoinFailed
ApStep == ApDelayOver \/ CountrySet \/ Written \/ ApComesUp \/ ApFails \/ ApGoesDown \/ ApStaysUp
TryStep == Clients \/ Known \/ Scan \/ Tried \/ CannotTry
Actor == Wait \/ Look \/ NoAnswer \/ JoinStep \/ ApStep \/ TryStep

Next == Operation \/ Actor \/ World

\* The actor outlives any bad tick, every command it runs ends, and NetworkManager
\* does not refuse for ever to answer or to start and stop the access point.
Fairness ==
  /\ WF_vars(Actor)
  /\ SF_vars(Look) /\ SF_vars(ApComesUp) /\ SF_vars(ApGoesDown)

Spec == Init /\ [][Next]_vars
FairSpec == Spec /\ Fairness

----------------------------------------------------------------------------
(* Properties *)

\* The owner's settings for the access point are not forgotten: one that runs with
\* older ones will be started again, or is being started with them, whenever they
\* changed; the next start has them even if this one failed.
SettingsNotForgotten ==
  wifi = "ap" /\ onAir # settings =>
    pendingAp \/ pc \in {"apDelay", "country", "write"} \/ keyfile = settings

\* The box does not stay out of reach: unless the owner pinned a network, the Wi-Fi
\* comes back as a station or an access point, whatever happens to networks, joins
\* and the changes the owner makes meanwhile.
Reachable == []<>(wifi # "none" \/ pin = "station")

\* What the owner pins takes effect, whatever tick it comes in the middle of.
PinObeyed ==
  /\ pin = "ap" ~> (wifi = "ap" \/ pin # "ap")
  /\ pin = "station" ~> (wifi # "ap" \/ pin # "station")

----------------------------------------------------------------------------
(* What the documentation says and the code does not do *)

\* A join that was accepted is tried before it is cleared (or asked again).
JoinTried ==
  [][pendingJoin # None /\ pendingJoin' = None => joining /\ target = pendingJoin]_vars

\* The access point is left for a known network only while no phone is on it.
PhoneNotCutOff == [][pc = "tryUp" /\ pc' # "tryUp" => ~phone]_vars
=============================================================================
