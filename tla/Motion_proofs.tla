---------------------------- MODULE Motion_proofs ----------------------------
(***************************************************************************)
(* For any pads, directions, motions asked for, faults and backlog: a mount *)
(* that is left moving by hand is held, told of or accounted for, and only  *)
(* a latched pad has a start on its way to a mount that a job holds.        *)
(***************************************************************************)
EXTENDS Motion, SequenceTheorems, TLAPS

(* Where an actor is tells what it waits for, and what its call has left. *)

IsStop(c) == c.prop \in Axes /\ c.val = Still

PhaseOf(a) ==
  /\ pc[a] \in {"rest", "closed", "created"} => call[a] = NoCall /\ todo[a] = <<>>
  /\ pc[a] \in {"rate", "slew", "abort"} => call[a].prop = pc[a] /\ call[a].val = Still /\ todo[a] = <<>>
  /\ pc[a] \in {"rate stop", "stop"} => IsStop(call[a]) /\ \A i \in 1..Len(todo[a]) : IsStop(todo[a][i])
  /\ pc[a] = "move" => call[a].prop \in Axes /\ \A i \in 1..Len(todo[a]) : todo[a][i].prop \in Axes
  /\ a = "job" => pc[a] \in {"rest", "slew", "abort"}
  /\ a = "ready" => pc[a] \in {"rest", "created", "stop", "abort"}
  /\ a \in Pads => pc[a] \notin {"slew", "created"}

\* A pad that moves the mount and does not hold it was interrupted.
PadOf(p) ==
  pc[p] \in {"rate stop", "rate", "move"} =>
    want[p] # STOPPED /\ (holder = p \/ (latched[p] /\ motion[p] = STOPPED))

JobHolds == holder = "job" <=> pc["job"] # "rest"

CallsInv ==
  /\ TypeOK
  /\ \A a \in Actors : PhaseOf(a)
  /\ \A p \in Pads : PadOf(p)
  /\ JobHolds

----------------------------------------------------------------------------
(* Commands *)

LEMMA NamesDiffer == /\ "job" \in Actors /\ "ready" \in Actors /\ Pads \subseteq Actors
                     /\ \A p \in Pads : p \notin {"job", "abort", "ready", "nobody"}
BY MotionAssumption DEF Actors

LEMMA CommandTypes ==
  ASSUME NEW a \in Actors \cup {"abort"}, NEW prop \in Axes \cup {"rate", "abort", "slew"},
         NEW val \in Dirs \cup {Still}
  PROVE  /\ Command(a, prop, val) \in Commands /\ Command(a, prop, val) # NoCall
         /\ Command(a, prop, val).prop = prop /\ Command(a, prop, val).val = val
         /\ Command(a, prop, val).by = a
BY DEF Command, Commands, NoCall, Axes

\* What is sent in a call: never nothing, of commands for the mount.
Sendable(commands) == commands \in Seq(Commands) /\ commands # <<>>

LEMMA OneCommand ==
  ASSUME NEW c \in Commands
  PROVE  Sendable(<<c>>) /\ Head(<<c>>) = c /\ Tail(<<c>>) = <<>>
BY DEF Sendable

LEMMA StopCallsAre ==
  ASSUME NEW a \in Actors
  PROVE  /\ Sendable(StopCalls(a)) /\ IsStop(Head(StopCalls(a)))
         /\ Head(StopCalls(a)) = Command(a, "ns", Still)
         /\ Tail(StopCalls(a)) = <<Command(a, "we", Still)>>
         /\ \A i \in 1..Len(Tail(StopCalls(a))) : IsStop(Tail(StopCalls(a))[i])
<1>1. /\ Command(a, "ns", Still) \in Commands /\ IsStop(Command(a, "ns", Still))
      /\ Command(a, "we", Still) \in Commands /\ IsStop(Command(a, "we", Still))
  BY CommandTypes DEF Axes, IsStop
<1>2. QED
  BY <1>1 DEF StopCalls, Sendable

LEMMA HeadAndTail ==
  ASSUME NEW S, NEW s \in Seq(S), s # <<>>
  PROVE  /\ Head(s) = s[1] /\ 1 \in 1..Len(s)
         /\ \A i \in 1..Len(Tail(s)) : Tail(s)[i] = s[i + 1] /\ i + 1 \in 1..Len(s)
<1>1. Len(s) \in Nat /\ Len(s) # 0
  BY EmptySeq
<1>2. Len(Tail(s)) = Len(s) - 1 /\ \A i \in 1..Len(Tail(s)) : Tail(s)[i] = s[i + 1]
  BY HeadTailProperties
<1>3. Head(s) = s[1]
  OBVIOUS
<1>4. QED
  BY <1>1, <1>2, <1>3

\* A move of the mount is made of commands of its axes; to a standstill, of stops.
MovesOnly(commands, stops) ==
  /\ commands \in Seq(Commands)
  /\ \A i \in 1..Len(commands) : commands[i].prop \in Axes /\ (stops => IsStop(commands[i]))

LEMMA Joined ==
  ASSUME NEW stops \in BOOLEAN, NEW s, NEW t, MovesOnly(s, stops), MovesOnly(t, stops)
  PROVE  MovesOnly(s \o t, stops)
<1>1. s \in Seq(Commands) /\ t \in Seq(Commands)
  BY DEF MovesOnly
<1>2. ASSUME NEW i \in 1..Len(s \o t)
      PROVE  (s \o t)[i].prop \in Axes /\ (stops => IsStop((s \o t)[i]))
  <2>1. CASE i <= Len(s)
    <3>1. i \in 1..Len(s) /\ (s \o t)[i] = s[i]
      BY <1>1, <2>1
    <3>2. QED
      BY <3>1 DEF MovesOnly
  <2>2. CASE i > Len(s)
    <3>1. i - Len(s) \in 1..Len(t) /\ (s \o t)[i] = t[i - Len(s)]
      BY <1>1, <2>2
    <3>2. QED
      BY <3>1 DEF MovesOnly
  <2>3. QED
    BY <1>1, <2>1, <2>2
<1>3. s \o t \in Seq(Commands)
  BY <1>1
<1>4. QED
  BY <1>2, <1>3 DEF MovesOnly

LEMMA MoveCallsAre ==
  ASSUME NEW p \in Pads, NEW target \in Motions
  PROVE  MovesOnly(MoveCalls(p, target), target = STOPPED)
<1> DEFINE Halt(x) == IF axis[x] # Still THEN <<Command(p, x, Still)>> ELSE <<>>
           Begin(x) == IF target[x] # Still THEN <<Command(p, x, target[x])>> ELSE <<>>
           Turn(x) == IF axis[x] = target[x] THEN <<>> ELSE Halt(x) \o Begin(x)
<1>1. ASSUME NEW x \in Axes PROVE MovesOnly(Turn(x), target = STOPPED)
  <2>1. p \in Actors \cup {"abort"} /\ target[x] \in Dirs \cup {Still}
    BY NamesDiffer DEF Motions
  <2>2. MovesOnly(<<>>, target = STOPPED)
    BY DEF MovesOnly
  <2>3. MovesOnly(Halt(x), target = STOPPED)
    <3>1. Command(p, x, Still) \in Commands /\ IsStop(Command(p, x, Still))
      BY <2>1, CommandTypes DEF IsStop
    <3>2. MovesOnly(<<Command(p, x, Still)>>, target = STOPPED)
      BY <3>1 DEF MovesOnly, IsStop
    <3>3. QED
      BY <2>2, <3>2
  <2>4. MovesOnly(Begin(x), target = STOPPED)
    <3>1. /\ Command(p, x, target[x]) \in Commands /\ Command(p, x, target[x]).prop \in Axes
      BY <2>1, CommandTypes
    <3>2. target = STOPPED => target[x] = Still
      BY DEF STOPPED
    <3>3. target[x] # Still => MovesOnly(<<Command(p, x, target[x])>>, target = STOPPED)
      BY <3>1, <3>2 DEF MovesOnly
    <3>4. QED
      BY <2>2, <3>3
  <2> HIDE DEF Halt, Begin
  <2>5. QED
    BY <2>2, <2>3, <2>4, Joined
<1>2. MoveCalls(p, target) = Turn("ns") \o Turn("we")
  BY DEF MoveCalls
<1> HIDE DEF Turn
<1>3. MovesOnly(Turn("ns"), target = STOPPED) /\ MovesOnly(Turn("we"), target = STOPPED)
  BY <1>1 DEF Axes
<1>4. MovesOnly(Turn("ns") \o Turn("we"), target = STOPPED)
  BY <1>3, Joined
<1>5. QED
  BY <1>2, <1>4

----------------------------------------------------------------------------
(* The types, in three parts that change together *)

Places == {"rest", "rate stop", "rate", "move", "stop", "abort", "closed", "created", "slew"}

Calls ==
  /\ queue \in Seq(Commands)
  /\ call \in [Actors -> Commands \cup {NoCall}]
  /\ todo \in [Actors -> Seq(Commands)]
  /\ answer \in [Actors -> {"none", "ok", "bad"}]
  /\ pc \in [Actors -> Places]
  /\ \A a \in Actors : PhaseOf(a)

PadTypes ==
  /\ motion \in [Pads -> Motions] /\ want \in [Pads -> Motions]
  /\ latched \in [Pads -> BOOLEAN] /\ latching \in [Pads -> BOOLEAN]
  /\ closing \in [Pads -> BOOLEAN] /\ present \in [Pads -> BOOLEAN]

PadsInv ==
  /\ PadTypes
  /\ holder \in Pads \cup {"job", "nobody"}
  /\ \A p \in Pads : PadOf(p)
  /\ JobHolds

Rest ==
  /\ axis \in Motions /\ slewing \in BOOLEAN /\ ready \in BOOLEAN
  /\ orphan \in BOOLEAN /\ warned \in BOOLEAN /\ faults \in 0..MaxFaults

LEMMA Parts == CallsInv <=> Calls /\ PadsInv /\ Rest
<1>1. TypeOK <=> /\ Rest /\ PadTypes /\ holder \in Pads \cup {"job", "nobody"}
                 /\ queue \in Seq(Commands) /\ call \in [Actors -> Commands \cup {NoCall}]
                 /\ todo \in [Actors -> Seq(Commands)] /\ answer \in [Actors -> {"none", "ok", "bad"}]
                 /\ pc \in [Actors -> Places]
  BY DEF TypeOK, Rest, PadTypes, Places
<1>2. QED
  BY <1>1 DEF CallsInv, Calls, PadsInv

LEMMA PartsNext == Calls' /\ PadsInv' /\ Rest' => CallsInv'
BY DEF TypeOK, Rest, PadTypes, Places, CallsInv, Calls, PadsInv

\* The phase of a call: what it says of the command waited for and those left.
PhaseFits(a, s, c, left) ==
  /\ s \in Places
  /\ s \in {"rest", "closed", "created"} => c = NoCall /\ left = <<>>
  /\ s \in {"rate", "slew", "abort"} => c.prop = s /\ c.val = Still /\ left = <<>>
  /\ s \in {"rate stop", "stop"} => IsStop(c) /\ \A i \in 1..Len(left) : IsStop(left[i])
  /\ s = "move" => c.prop \in Axes /\ \A i \in 1..Len(left) : left[i].prop \in Axes
  /\ a = "job" => s \in {"rest", "slew", "abort"}
  /\ a = "ready" => s \in {"rest", "created", "stop", "abort"}
  /\ a \in Pads => s \notin {"slew", "created"}

LEMMA IssueCalls ==
  ASSUME Calls, NEW a \in Actors, NEW commands, Sendable(commands), Issue(a, commands),
         NEW s, PhaseFits(a, s, Head(commands), Tail(commands)), At(a, s)
  PROVE  Calls'
<1>1. Head(commands) \in Commands /\ Tail(commands) \in Seq(Commands)
  BY DEF Sendable
<1>2. /\ queue' \in Seq(Commands) /\ call' \in [Actors -> Commands \cup {NoCall}]
      /\ todo' \in [Actors -> Seq(Commands)] /\ answer' \in [Actors -> {"none", "ok", "bad"}]
      /\ pc' \in [Actors -> Places]
  <2>1. queue' \in Seq(Commands)
    BY <1>1 DEF Calls, Issue
  <2>2. call' \in [Actors -> Commands \cup {NoCall}] /\ todo' \in [Actors -> Seq(Commands)]
    BY <1>1 DEF Calls, Issue
  <2>3. answer' \in [Actors -> {"none", "ok", "bad"}] /\ pc' \in [Actors -> Places]
    BY DEF Calls, Issue, At, PhaseFits
  <2>4. QED
    BY <2>1, <2>2, <2>3
<1>3. ASSUME NEW b \in Actors PROVE PhaseOf(b)'
  <2>1. CASE b = a
    <3>1. call'[a] = Head(commands) /\ todo'[a] = Tail(commands) /\ pc'[a] = s
      BY DEF Calls, Issue, At
    <3>2. QED
      BY <2>1, <3>1 DEF PhaseFits, PhaseOf
  <2>2. CASE b # a
    <3>1. call'[b] = call[b] /\ todo'[b] = todo[b] /\ pc'[b] = pc[b]
      BY <2>2 DEF Calls, Issue, At
    <3>2. PhaseOf(b)
      BY DEF Calls
    <3>3. QED
      BY <3>1, <3>2 DEF PhaseOf
  <2>3. QED
    BY <2>1, <2>2
<1>4. QED
  BY <1>2, <1>3 DEF Calls

LEMMA DropCalls ==
  ASSUME Calls, NEW a \in Actors, Drop(a), NEW s, PhaseFits(a, s, NoCall, <<>>),
         At(a, s)
  PROVE  Calls'
<1>1. /\ queue' \in Seq(Commands) /\ call' \in [Actors -> Commands \cup {NoCall}]
      /\ todo' \in [Actors -> Seq(Commands)] /\ answer' \in [Actors -> {"none", "ok", "bad"}]
      /\ pc' \in [Actors -> Places]
  <2>1. <<>> \in Seq(Commands)
    OBVIOUS
  <2>2. QED
    BY <2>1 DEF Calls, Drop, At, PhaseFits
<1>2. ASSUME NEW b \in Actors PROVE PhaseOf(b)'
  <2>1. CASE b = a
    <3>1. call'[a] = NoCall /\ todo'[a] = <<>> /\ pc'[a] = s
      BY DEF Calls, Drop, At
    <3>2. QED
      BY <2>1, <3>1 DEF PhaseFits, PhaseOf
  <2>2. CASE b # a
    <3>1. call'[b] = call[b] /\ todo'[b] = todo[b] /\ pc'[b] = pc[b]
      BY <2>2 DEF Calls, Drop, At
    <3>2. PhaseOf(b)
      BY DEF Calls
    <3>3. QED
      BY <3>1, <3>2 DEF PhaseOf
  <2>3. QED
    BY <2>1, <2>2
<1>3. QED
  BY <1>1, <1>2 DEF Calls

\* Steps of the driver: answers and commands taken.
LEMMA AnswerCalls ==
  ASSUME Calls, UNCHANGED <<call, todo, pc>>, queue' \in Seq(Commands),
         answer' \in [Actors -> {"none", "ok", "bad"}]
  PROVE  Calls'
BY DEF Calls, PhaseOf

LEMMA ResetFits ==
  ASSUME NEW p \in Pads
  PROVE  PhaseFits(p, "rest", NoCall, <<>>) /\ PhaseFits(p, "closed", NoCall, <<>>)
BY NamesDiffer DEF PhaseFits, Places

LEMMA StopFits ==
  ASSUME NEW a \in Actors \ {"job"}
  PROVE  PhaseFits(a, "stop", Head(StopCalls(a)), Tail(StopCalls(a)))
BY StopCallsAre, NamesDiffer DEF PhaseFits, Places

\* A call of one command, of any kind but a motion.
LEMMA OneCalls ==
  ASSUME Calls, NEW a \in Actors, NEW prop \in {"rate", "abort", "slew"},
         Issue(a, <<Command(a, prop, Still)>>), At(a, prop),
         a = "job" => prop # "rate", a = "ready" => prop = "abort", a \in Pads => prop # "slew"
  PROVE  Calls'
<1>1. /\ Command(a, prop, Still) \in Commands
      /\ Command(a, prop, Still).prop = prop /\ Command(a, prop, Still).val = Still
  BY CommandTypes
<1>2. PhaseFits(a, prop, Head(<<Command(a, prop, Still)>>), Tail(<<Command(a, prop, Still)>>))
  BY <1>1, OneCommand, NamesDiffer DEF PhaseFits, Places
<1>3. QED
  BY <1>1, <1>2, OneCommand, IssueCalls

\* A call that moves the axes, for the rate or for the motion.
LEMMA MoveFits ==
  ASSUME NEW p \in Pads, NEW target \in Motions, MoveCalls(p, target) # <<>>,
         NEW s \in {"rate stop", "move"}, s = "rate stop" => target = STOPPED
  PROVE  /\ Sendable(MoveCalls(p, target))
         /\ PhaseFits(p, s, Head(MoveCalls(p, target)), Tail(MoveCalls(p, target)))
<1> DEFINE m == MoveCalls(p, target)
<1>1. MovesOnly(m, target = STOPPED) /\ m # <<>>
  BY MoveCallsAre
<1> HIDE DEF m
<1>2. Sendable(m)
  BY <1>1 DEF MovesOnly, Sendable
<1>3. /\ Head(m) = m[1] /\ 1 \in 1..Len(m)
      /\ \A i \in 1..Len(Tail(m)) : Tail(m)[i] = m[i + 1] /\ i + 1 \in 1..Len(m)
  BY <1>1, HeadAndTail DEF MovesOnly
<1>4. PhaseFits(p, s, Head(m), Tail(m))
  BY <1>1, <1>3, NamesDiffer DEF MovesOnly, PhaseFits, Places
<1>5. QED
  BY <1>2, <1>4 DEF m

----------------------------------------------------------------------------
(* The steps of the pads keep these *)

\* A step of a pad: what it leaves of the rest.
PadFrame ==
  /\ UNCHANGED <<axis, slewing, ready>>
  /\ closing' \in [Pads -> BOOLEAN] /\ present' \in [Pads -> BOOLEAN]
  /\ orphan' \in BOOLEAN /\ warned' \in BOOLEAN /\ faults' \in 0..MaxFaults

LEMMA FrameRest == ASSUME Rest, PadFrame PROVE Rest'
BY DEF Rest, PadFrame

LEMMA StillMotion == STOPPED \in Motions
BY DEF STOPPED, Motions

LEMMA StoppedCalls ==
  ASSUME CallsInv, NEW p \in Pads, NEW latch \in BOOLEAN, PadFrame, Stopped(p, latch)
  PROVE  CallsInv'
<1> USE NamesDiffer
<1>1. Calls'
  <2>1. Drop(p) /\ (At(p, "closed") \/ At(p, "rest"))
    BY DEF Stopped
  <2>2. QED
    BY <2>1, Parts, DropCalls, ResetFits
<1>2. PadsInv'
  <2>1. pc' = [pc EXCEPT ![p] = pc'[p]] /\ pc'[p] \in {"rest", "closed"} /\ holder' \in {holder, "nobody"}
        /\ (holder' # holder => holder = p)
    BY Parts DEF Stopped, At, Calls, Released
  <2>2. PadTypes'
    BY Parts, StillMotion DEF Stopped, PadFrame, PadsInv, PadTypes
  <2>3. holder' \in Pads \cup {"job", "nobody"} /\ JobHolds'
    BY <2>1, Parts DEF PadsInv, JobHolds, Calls
  <2>4. ASSUME NEW q \in Pads PROVE PadOf(q)'
    <3>1. CASE q = p
      BY <2>1, <3>1 DEF PadOf
    <3>2. CASE q # p
      <4>1. pc'[q] = pc[q] /\ want'[q] = want[q] /\ latched'[q] = latched[q] /\ motion'[q] = motion[q]
        BY <2>1, <3>2, Parts DEF Stopped, PadsInv, PadTypes, Calls
      <4>2. holder = q => holder' = q
        BY <2>1, <3>2
      <4>3. QED
        BY <4>1, <4>2, Parts DEF PadsInv, PadOf
    <3>3. QED
      BY <3>1, <3>2
  <2>5. QED
    BY <2>2, <2>3, <2>4 DEF PadsInv
<1>3. Rest'
  BY Parts, FrameRest
<1>4. QED
  BY <1>1, <1>2, <1>3, PartsNext

\* A pad that goes on with a call, or gets to rest, holds the mount or was interrupted.
LEMMA PadGoesOn ==
  ASSUME CallsInv, NEW p \in Pads, NEW s \in Places, At(p, s), PadTypes',
         holder' = holder \/ (holder' = p /\ holder = "nobody"),
         \A q \in Pads \ {p} : want'[q] = want[q] /\ latched'[q] = latched[q] /\ motion'[q] = motion[q],
         s \in {"rate stop", "rate", "move"} =>
           want'[p] # STOPPED /\ (holder' = p \/ (latched'[p] /\ motion'[p] = STOPPED))
  PROVE  PadsInv'
<1> USE NamesDiffer
<1>1. pc' = [pc EXCEPT ![p] = s] /\ pc'[p] = s /\ (\A q \in Actors \ {p} : pc'[q] = pc[q])
  BY Parts DEF Calls, At
<1>2. holder' \in Pads \cup {"job", "nobody"} /\ JobHolds'
  BY <1>1, Parts DEF PadsInv, JobHolds
<1>3. ASSUME NEW q \in Pads PROVE PadOf(q)'
  <2>1. CASE q = p
    BY <1>1, <2>1 DEF PadOf
  <2>2. CASE q # p
    <3>1. pc'[q] = pc[q] /\ (holder = q => holder' = q)
      BY <1>1, <2>2
    <3>2. QED
      BY <3>1, <2>2, Parts DEF PadsInv, PadOf
  <2>3. QED
    BY <2>1, <2>2
<1>4. QED
  BY <1>2, <1>3 DEF PadsInv

\* A pad sends its stops.
LEMMA StopsCalls ==
  ASSUME CallsInv, NEW p \in Pads, PadFrame, Issue(p, StopCalls(p)), At(p, "stop"),
         PadTypes', UNCHANGED holder,
         \A q \in Pads \ {p} : want'[q] = want[q] /\ latched'[q] = latched[q] /\ motion'[q] = motion[q]
  PROVE  CallsInv'
<1>1. Calls'
  BY Parts, NamesDiffer, IssueCalls, StopFits, StopCallsAre
<1>2. PadsInv'
  BY PadGoesOn DEF Places
<1>3. Rest'
  BY Parts, FrameRest
<1>4. QED
  BY <1>1, <1>2, <1>3, PartsNext

LEMMA StopCallsKeep ==
  ASSUME CallsInv, NEW p \in Pads, NEW latch \in BOOLEAN, PadFrame, Stop(p, latch)
  PROVE  CallsInv'
<1>1. CASE Active(p) /\ ready
  <2>1. /\ Issue(p, StopCalls(p)) /\ At(p, "stop") /\ UNCHANGED <<motion, want, holder, latched>>
        /\ latching' = [latching EXCEPT ![p] = latch]
    BY <1>1 DEF Stop
  <2>2. PadTypes'
    BY <2>1, Parts DEF PadsInv, PadTypes, PadFrame
  <2>3. QED
    BY <2>1, <2>2, StopsCalls
<1>2. CASE ~(Active(p) /\ ready)
  BY <1>2, StoppedCalls DEF Stop
<1>3. QED
  BY <1>1, <1>2

LEMMA FaultTypes == ASSUME CallsInv, Fault PROVE faults' \in 0..MaxFaults
BY Parts,  MotionAssumption DEF Rest, Fault

\* Pad.apply: the calls of a motion begin, after the axes stand still if the rate is another.
LEMMA HoldBegins ==
  ASSUME CallsInv, NEW p \in Pads, NEW m \in Wanted, NEW rate \in BOOLEAN, Hold(p, m, rate),
         ready, holder \in {"nobody", p}
  PROVE  CallsInv'
<1> DEFINE stopFirst == rate /\ Moving(motion[p])
           target == IF stopFirst THEN STOPPED ELSE m
           calls0 == MoveCalls(p, target)
<1>1. /\ holder' = p /\ UNCHANGED <<latched, latching, closing>> /\ want' = [want EXCEPT ![p] = m]
      /\ UNCHANGED <<axis, slewing, ready, present, orphan, warned, faults>> /\ pc[p] = "rest"
  BY DEF Hold, ghosts
<1>2. \/ /\ rate => stopFirst
         /\ calls0 # <<>>
         /\ Issue(p, calls0) /\ At(p, IF rate THEN "rate stop" ELSE "move")
         /\ UNCHANGED motion
      \/ /\ Issue(p, <<Command(p, "rate", Still)>>) /\ At(p, "rate")
         /\ motion' = [motion EXCEPT ![p] = STOPPED]
      \/ /\ motion' = [motion EXCEPT ![p] = m]
         /\ UNCHANGED <<calls, queue, pc>>
  BY DEF Hold
<1>3. m \in Motions /\ m # STOPPED /\ target \in Motions /\ p \in Actors
  BY MotionAssumption, StillMotion, NamesDiffer
<1>4. PadTypes'
  BY <1>1, <1>2, <1>3, StillMotion, Parts DEF PadsInv, PadTypes
<1>5. Rest'
  BY <1>1, Parts DEF Rest
<1>6. /\ want'[p] = m /\ \A q \in Pads \ {p} : want'[q] = want[q] /\ latched'[q] = latched[q] /\ motion'[q] = motion[q]
  BY <1>1, <1>2, Parts DEF PadsInv, PadTypes
<1>7. CASE calls0 # <<>> /\ Issue(p, calls0) /\ At(p, IF rate THEN "rate stop" ELSE "move")
           /\ (rate => stopFirst)
  <2> DEFINE s == IF rate THEN "rate stop" ELSE "move"
  <2>1. s \in {"rate stop", "move"} /\ s \in Places /\ (s = "rate stop" => target = STOPPED) /\ At(p, s)
    BY <1>7 DEF Places
  <2> HIDE DEF s, target
  <2>2. Sendable(calls0) /\ PhaseFits(p, s, Head(calls0), Tail(calls0))
    BY <1>3, <1>7, <2>1, MoveFits
  <2>3. Calls'
    BY <1>3, <1>7, <2>1, <2>2, IssueCalls, Parts
  <2>4. PadsInv'
    BY <1>1, <1>3, <1>4, <1>6, <2>1, PadGoesOn
  <2>5. QED
    BY <1>5, <2>3, <2>4, PartsNext
<1>8. CASE Issue(p, <<Command(p, "rate", Still)>>) /\ At(p, "rate")
  <2>1. Calls'
    BY <1>3, <1>8, OneCalls, Parts, NamesDiffer
  <2>2. PadsInv'
    BY <1>1, <1>3, <1>4, <1>6, <1>8, PadGoesOn DEF Places
  <2>3. QED
    BY <1>5, <2>1, <2>2, PartsNext
<1>9. CASE UNCHANGED <<calls, queue, pc>>
  <2>1. Calls'
    BY <1>9, AnswerCalls, Parts DEF calls, Calls
  <2>2. At(p, "rest")
    BY <1>1, <1>3, <1>9, Parts DEF At, Calls
  <2>3. PadsInv'
    BY <1>1, <1>4, <1>6, <2>2, PadGoesOn DEF Places
  <2>4. QED
    BY <1>5, <2>1, <2>3, PartsNext
<1>10. QED
  BY <1>2, <1>7, <1>8, <1>9

LEMMA HoldCalls ==
  ASSUME CallsInv, NEW p \in Pads, NEW m \in Wanted, NEW rate \in BOOLEAN, Hold(p, m, rate)
  PROVE  CallsInv'
<1>1. CASE ready /\ holder \in {"nobody", p}
  BY <1>1, HoldBegins
<1>2. CASE ~(ready /\ holder \in {"nobody", p})
  <2>1. Stop(p, TRUE) /\ UNCHANGED closing /\ UNCHANGED <<axis, slewing, ready, present, ghosts, faults>>
    BY <1>2 DEF Hold
  <2>2. PadFrame
    BY <2>1, Parts DEF PadFrame, ghosts, Rest, PadsInv, PadTypes
  <2>3. QED
    BY <2>1, <2>2, StopCallsKeep
<1>3. QED
  BY <1>1, <1>2

LEMMA LetGoCalls ==
  ASSUME CallsInv, NEW p \in Pads, LetGo(p)
  PROVE  CallsInv'
<1>1. PadFrame
  BY Parts DEF LetGo, PadFrame, ghosts, Rest, PadsInv, PadTypes
<1>2. CASE Active(p) /\ ready
  <2>1. /\ Issue(p, StopCalls(p)) /\ At(p, "stop") /\ latched' = [latched EXCEPT ![p] = FALSE]
        /\ UNCHANGED <<motion, holder, latching, want>>
    BY <1>2 DEF LetGo
  <2>2. PadTypes'
    BY <1>1, <2>1, Parts DEF PadsInv, PadTypes, PadFrame
  <2>3. \A q \in Pads \ {p} : latched'[q] = latched[q]
    BY <2>1, Parts DEF PadsInv, PadTypes
  <2>4. QED
    BY <1>1, <2>1, <2>2, <2>3, StopsCalls
<1>3. CASE ~(Active(p) /\ ready)
  <2>1. /\ Drop(p) /\ UNCHANGED <<pc, latching, want>> /\ motion' = [motion EXCEPT ![p] = STOPPED]
        /\ holder' = Released(p) /\ latched' = [latched EXCEPT ![p] = FALSE] /\ pc[p] = "rest"
    BY <1>3 DEF LetGo
  <2>2. At(p, "rest")
    BY <2>1, NamesDiffer, Parts DEF At, Calls
  <2>3. Calls'
    BY <2>1, <2>2, DropCalls, ResetFits, NamesDiffer, Parts
  <2>4. PadTypes'
    BY <1>1, <2>1, StillMotion, Parts DEF PadsInv, PadTypes, PadFrame
  <2>5. holder' \in Pads \cup {"job", "nobody"} /\ JobHolds'
    BY <2>1, NamesDiffer, Parts DEF PadsInv, JobHolds, Released
  <2>6. ASSUME NEW q \in Pads PROVE PadOf(q)'
    <3>1. CASE q = p
      BY <2>1, <3>1 DEF PadOf
    <3>2. CASE q # p
      <4>1. want'[q] = want[q] /\ latched'[q] = latched[q] /\ motion'[q] = motion[q] /\ pc'[q] = pc[q]
            /\ (holder = q => holder' = q)
        BY <2>1, <3>2, Parts DEF PadsInv, PadTypes, Released
      <4>2. QED
        BY <4>1, Parts DEF PadsInv, PadOf
    <3>3. QED
      BY <3>1, <3>2
  <2>7. Rest'
    BY <1>1, FrameRest, Parts
  <2>8. QED
    BY <2>3, <2>4, <2>5, <2>6, <2>7, PartsNext DEF PadsInv
<1>4. QED
  BY <1>2, <1>3

LEMMA SetRateCalls == ASSUME CallsInv, NEW p \in Pads, SetRate(p) PROVE CallsInv'
<1>1. /\ pc[p] = "rate stop" /\ motion' = [motion EXCEPT ![p] = STOPPED]
      /\ Issue(p, <<Command(p, "rate", Still)>>) /\ At(p, "rate")
      /\ UNCHANGED <<axis, slewing, ready, holder, want, latched, latching, closing, present,
                     orphan, warned, faults>>
  BY DEF SetRate, ghosts
<1>2. Calls'
  BY <1>1, OneCalls, NamesDiffer, Parts
<1>3. PadTypes' /\ Rest'
  BY <1>1, StillMotion, Parts DEF PadsInv, PadTypes, Rest
<1>4. motion'[p] = STOPPED /\ \A q \in Pads \ {p} : motion'[q] = motion[q]
  BY <1>1, Parts DEF PadsInv, PadTypes
<1>5. want[p] # STOPPED /\ (holder = p \/ latched[p])
  BY <1>1, Parts DEF PadsInv, PadOf
<1>6. PadsInv'
  BY <1>1, <1>3, <1>4, <1>5, PadGoesOn DEF Places
<1>7. QED
  BY <1>2, <1>3, <1>6, PartsNext

LEMMA MovedCalls ==
  ASSUME CallsInv, NEW p \in Pads, Moved(p),
         UNCHANGED <<axis, slewing, ready, closing, present, orphan, warned, faults>>
  PROVE  CallsInv'
<1>1. /\ motion' = [motion EXCEPT ![p] = want[p]] /\ want' = [want EXCEPT ![p] = STOPPED]
      /\ UNCHANGED <<holder, latched, latching>>
  BY DEF Moved
<1>2. PadTypes' /\ Rest' /\ PadFrame
  BY <1>1, StillMotion, Parts DEF PadsInv, PadTypes, Rest, PadFrame
<1>3. \A q \in Pads \ {p} : motion'[q] = motion[q] /\ want'[q] = want[q]
  BY <1>1, Parts DEF PadsInv, PadTypes
<1>4. CASE latched[p]
  BY <1>1, <1>2, <1>3, <1>4, StopsCalls DEF Moved
<1>5. CASE ~latched[p]
  <2>1. Drop(p) /\ At(p, "rest")
    BY <1>5 DEF Moved
  <2>2. Calls'
    BY <2>1, DropCalls, ResetFits, NamesDiffer, Parts
  <2>3. PadsInv'
    BY <1>1, <1>2, <1>3, <2>1, PadGoesOn DEF Places
  <2>4. QED
    BY <1>2, <2>2, <2>3, PartsNext
<1>6. QED
  BY <1>4, <1>5

LEMMA RateSetCalls == ASSUME CallsInv, NEW p \in Pads, RateSet(p) PROVE CallsInv'
<1>1. pc[p] = "rate" /\ UNCHANGED <<axis, slewing, ready, closing, present, orphan, warned, faults>>
  BY DEF RateSet, ghosts
<1>2. CASE MoveCalls(p, want[p]) # <<>> /\ Issue(p, MoveCalls(p, want[p])) /\ At(p, "move")
           /\ UNCHANGED <<motion, want, holder, latched, latching>>
  <2>1. want[p] \in Motions
    BY Parts DEF PadsInv, PadTypes
  <2>2. Sendable(MoveCalls(p, want[p]))
        /\ PhaseFits(p, "move", Head(MoveCalls(p, want[p])), Tail(MoveCalls(p, want[p])))
    BY <1>2, <2>1, MoveFits
  <2>3. Calls'
    BY <1>2, <2>2, IssueCalls, NamesDiffer, Parts
  <2>4. want[p] # STOPPED /\ (holder = p \/ (latched[p] /\ motion[p] = STOPPED))
    BY <1>1, Parts DEF PadsInv, PadOf
  <2>5. PadTypes' /\ Rest'
    BY <1>1, <1>2, Parts DEF PadsInv, PadTypes, Rest
  <2>6. PadsInv'
    BY <1>2, <2>4, <2>5, PadGoesOn DEF Places
  <2>7. QED
    BY <2>3, <2>5, <2>6, PartsNext
<1>3. CASE Moved(p)
  BY <1>1, <1>3, MovedCalls
<1>4. QED
  BY <1>2, <1>3 DEF RateSet

LEMMA MoveEndsCalls == ASSUME CallsInv, NEW p \in Pads, MoveEnds(p) PROVE CallsInv'
BY MovedCalls DEF MoveEnds, ghosts

LEMMA GivesUpCalls ==
  ASSUME CallsInv, NEW p \in Pads, Silence(p) \/ MoveFails(p) \/ Gone(p)
  PROVE  CallsInv'
<1>1. Stop(p, TRUE) /\ UNCHANGED <<axis, slewing, ready, present, warned, faults>>
  BY DEF Silence, MoveFails, Gone, ghosts
<1>2. closing' \in [Pads -> BOOLEAN] /\ orphan' \in BOOLEAN
  BY Parts DEF Silence, MoveFails, Gone, ghosts, PadsInv, PadTypes, Rest, Leaves
<1>3. PadFrame
  BY <1>1, <1>2, Parts DEF PadFrame, PadsInv, PadTypes, Rest
<1>4. QED
  BY <1>1, <1>3, StopCallsKeep

LEMMA StopEndsCalls == ASSUME CallsInv, NEW p \in Pads, StopEnds(p) PROVE CallsInv'
<1>1. PadFrame
  BY Parts DEF StopEnds, PadFrame, PadsInv, PadTypes, Rest, Bad
<1>2. (latching[p] \/ Bad(p)) \in BOOLEAN
  OBVIOUS
<1>3. QED
  BY <1>1, <1>2, StoppedCalls DEF StopEnds

LEMMA StopFailsCalls == ASSUME CallsInv, NEW p \in Pads, StopFails(p) PROVE CallsInv'
<1>1. Issue(p, <<Command(p, "abort", Still)>>) /\ At(p, "abort")
      /\ UNCHANGED <<axis, slewing, ready, holder, pads, orphan, warned, faults>>
  BY DEF StopFails, ghosts
<1>2. Calls'
  BY <1>1, OneCalls, NamesDiffer, Parts
<1>3. PadTypes' /\ Rest'
  BY <1>1, Parts DEF pads, PadsInv, PadTypes, Rest
<1>4. PadsInv'
  BY <1>1, <1>3, PadGoesOn DEF Places, pads
<1>5. QED
  BY <1>2, <1>3, <1>4, PartsNext

LEMMA ClosedCalls ==
  ASSUME CallsInv, NEW p \in Pads, Overrun(p) \/ Opens(p) \/ Vanishes(p)
  PROVE  CallsInv'
<1>1. CASE Overrun(p)
  <2>1. /\ Drop(p) /\ At(p, "closed") /\ motion' = [motion EXCEPT ![p] = STOPPED]
        /\ UNCHANGED <<axis, slewing, ready, holder, want, latched, latching, closing, present, warned>>
        /\ orphan' \in BOOLEAN /\ faults' \in 0..MaxFaults
    BY <1>1, FaultTypes, Parts DEF Overrun, Rest
  <2>2. Calls'
    BY <2>1, DropCalls, ResetFits, NamesDiffer, Parts
  <2>3. PadTypes' /\ Rest' /\ \A q \in Pads \ {p} : motion'[q] = motion[q]
    BY <2>1, StillMotion, Parts DEF PadsInv, PadTypes, Rest
  <2>4. PadsInv'
    BY <2>1, <2>3, PadGoesOn DEF Places
  <2>5. QED
    BY <2>2, <2>3, <2>4, PartsNext
<1>2. CASE Opens(p)
  <2>1. /\ At(p, "rest") /\ pc[p] = "closed" /\ UNCHANGED <<driver, ready, holder, calls, want, ghosts, faults>>
        /\ motion' = [motion EXCEPT ![p] = STOPPED] /\ latched' = [latched EXCEPT ![p] = FALSE]
    BY <1>2 DEF Opens
  <2>2. Calls'
    <3>1. call[p] = NoCall /\ todo[p] = <<>>
      BY <2>1, NamesDiffer, Parts DEF Calls, PhaseOf
    <3>2. ASSUME NEW b \in Actors PROVE PhaseOf(b)'
      <4>1. CASE b = p
        <5>1. pc'[p] = "rest" /\ call'[p] = NoCall /\ todo'[p] = <<>>
          BY <2>1, <3>1, NamesDiffer, Parts DEF At, Calls, calls
        <5>2. QED
          BY <4>1, <5>1, NamesDiffer DEF PhaseOf
      <4>2. CASE b # p
        <5>1. pc'[b] = pc[b]
          BY <2>1, <4>2, Parts DEF At, Calls
        <5>2. QED
          BY <2>1, <5>1, Parts DEF Calls, PhaseOf, calls
      <4>3. QED
        BY <4>1, <4>2
    <3>3. pc' \in [Actors -> Places]
      BY <2>1, Parts DEF At, Calls, Places
    <3>4. QED
      BY <2>1, <3>2, <3>3, Parts DEF Calls, calls, driver
  <2>3. PadTypes'
    BY <1>2, StillMotion, Parts DEF Opens, PadsInv, PadTypes
  <2>4. \A q \in Pads \ {p} : motion'[q] = motion[q] /\ latched'[q] = latched[q] /\ want'[q] = want[q]
    BY <2>1, Parts DEF PadsInv, PadTypes
  <2>5. PadsInv'
    BY <2>1, <2>3, <2>4, PadGoesOn DEF Places
  <2>6. Rest'
    BY <2>1, Parts DEF Rest, driver, ghosts
  <2>7. QED
    BY <2>2, <2>5, <2>6, PartsNext
<1>3. CASE Vanishes(p)
  <2>1. /\ UNCHANGED <<driver, ready, holder, calls, pc, motion, want, latched, latching, closing, ghosts, faults>>
        /\ present' = [present EXCEPT ![p] = FALSE]
    BY <1>3 DEF Vanishes
  <2>2. Calls' /\ Rest'
    BY <2>1, Parts DEF Calls, PhaseOf, calls, driver, ghosts, Rest
  <2>3. PadsInv'
    BY <2>1, Parts DEF PadsInv, PadTypes, PadOf, JobHolds
  <2>4. QED
    BY <2>2, <2>3, PartsNext
<1>4. QED
  BY <1>1, <1>2, <1>3

----------------------------------------------------------------------------
(* So do the others' *)

\* Nothing of the pads changes, nor who holds the mount.
LEMMA SamePads ==
  ASSUME CallsInv, UNCHANGED <<pads, holder>>, \A q \in Pads : pc'[q] = pc[q],
         pc'["job"] = pc["job"]
  PROVE  PadsInv'
BY Parts DEF pads, PadsInv, PadTypes, PadOf, JobHolds

LEMMA NextCommandCalls == ASSUME CallsInv, NEW a \in Actors, NextCommand(a) PROVE CallsInv'
<1>1. /\ todo[a] # <<>> /\ call[a] # NoCall /\ Issue(a, todo[a])
      /\ UNCHANGED <<axis, slewing, ready, holder, pc, pads, orphan, warned, faults>>
  BY DEF NextCommand, ghosts
<1> DEFINE t == todo[a]
<1>2. t \in Seq(Commands) /\ t # <<>> /\ PhaseOf(a) /\ pc[a] \in Places
  BY <1>1, Parts DEF Calls
<1>3. /\ Head(t) = t[1] /\ 1 \in 1..Len(t)
      /\ \A i \in 1..Len(Tail(t)) : Tail(t)[i] = t[i + 1] /\ i + 1 \in 1..Len(t)
  BY <1>2, HeadAndTail
<1>4. PhaseFits(a, pc[a], Head(t), Tail(t))
  <2>1. pc[a] \in {"rate stop", "stop", "move"}
    BY <1>1, <1>2 DEF PhaseOf, Places
  <2>2. QED
    BY <1>2, <1>3, <2>1 DEF PhaseOf, PhaseFits
<1>5. At(a, pc[a])
  BY <1>1, Parts DEF At, Calls
<1> HIDE DEF t
<1>6. Calls'
  <2>1. Sendable(t)
    BY <1>2 DEF Sendable
  <2>2. Issue(a, t)
    BY <1>1 DEF t
  <2>3. QED
    BY <1>4, <1>5, <2>1, <2>2, IssueCalls, Parts
<1>7. PadsInv' /\ Rest'
  BY <1>1, SamePads, Parts DEF Rest
<1>8. QED
  BY <1>6, <1>7, PartsNext

LEMMA AnswerTypes ==
  ASSUME Calls, NEW prop, NEW val, NEW refused, AnswerAll(prop, val, refused)
  PROVE  answer' \in [Actors -> {"none", "ok", "bad"}]
BY DEF AnswerAll, Calls

LEMMA DriverCalls ==
  ASSUME CallsInv,
         DriverActs \/ DriverRefuses \/ SlewEnds \/ SlewTimesOut \/ \E a \in Actors : TimesOut(a)
  PROVE  CallsInv'
<1>1. UNCHANGED <<call, todo, pc, holder, pads>>
  BY DEF DriverActs, DriverRefuses, SlewEnds, SlewTimesOut, TimesOut, driver, ghosts
<1>2. PadsInv'
  BY <1>1, SamePads
<1>3. CASE DriverActs \/ DriverRefuses
  <2> DEFINE c == Head(queue)
  <2>1. c \in Commands /\ Tail(queue) \in Seq(Commands)
    <3>1. queue # <<>> /\ queue \in Seq(Commands)
      BY <1>3, Parts DEF Calls, DriverActs, DriverRefuses
    <3>2. QED
      BY <3>1, HeadTailProperties
  <2>2. Calls'
    <3>1. \/ UNCHANGED answer
          \/ \E prop \in {c.prop, "rate", "abort"}, val \in {c.val, Still}, refused \in BOOLEAN :
               AnswerAll(prop, val, refused)
      BY <1>3 DEF DriverActs, DriverRefuses
    <3>2. answer' \in [Actors -> {"none", "ok", "bad"}]
      BY <3>1, AnswerTypes, Parts DEF Calls
    <3>3. queue' = Tail(queue)
      BY <1>3 DEF DriverActs, DriverRefuses
    <3>4. QED
      BY <1>1, <2>1, <3>2, <3>3, AnswerCalls, Parts
  <2>3. axis' \in Motions /\ slewing' \in BOOLEAN
    <3>1. CASE DriverActs
      <4>1. c.prop \in Axes => c.val \in Dirs \cup {Still}
        BY <2>1 DEF Commands
      <4>2. \/ c.prop \in Axes /\ axis' = [axis EXCEPT ![c.prop] = c.val] /\ slewing' = slewing
            \/ axis' \in {axis, STOPPED} /\ slewing' \in {slewing, TRUE, FALSE}
        BY <3>1 DEF DriverActs
      <4>3. QED
        BY <4>1, <4>2, StillMotion, Parts DEF Rest, Motions
    <3>2. CASE DriverRefuses
      BY <3>2, Parts DEF DriverRefuses, Rest
    <3>3. QED
      BY <1>3, <3>1, <3>2
  <2>4. Rest'
    BY <1>3, <2>3, FaultTypes, Parts DEF DriverActs, DriverRefuses, Rest, ghosts, Unheeded
  <2>5. QED
    BY <1>2, <2>2, <2>4, PartsNext
<1>4. CASE SlewEnds
  <2>1. answer' \in [Actors -> {"none", "ok", "bad"}]
    BY <1>4, AnswerTypes, Parts DEF SlewEnds
  <2>2. Calls' /\ Rest'
    BY <1>1, <1>4, <2>1, AnswerCalls, Parts DEF SlewEnds, Calls, Rest, ghosts
  <2>3. QED
    BY <1>2, <2>2, PartsNext
<1>5. CASE SlewTimesOut \/ \E a \in Actors : TimesOut(a)
  <2>1. /\ answer' \in [Actors -> {"none", "ok", "bad"}]
        /\ UNCHANGED <<queue, axis, slewing, ready, orphan, warned>> /\ faults' \in 0..MaxFaults
    BY <1>5, FaultTypes, Parts DEF SlewTimesOut, TimesOut, Calls, Rest, driver, ghosts
  <2>2. Calls' /\ Rest'
    BY <1>1, <2>1, AnswerCalls, Parts DEF Calls, Rest
  <2>3. QED
    BY <1>2, <2>2, PartsNext
<1>6. QED
  BY <1>3, <1>4, <1>5

\* The job is where it is exactly while it holds the mount.
LEMMA JobGoes ==
  ASSUME CallsInv, NEW s \in {"rest", "slew", "abort"}, At("job", s),
         UNCHANGED pads,
         \/ s # "rest" /\ holder \in {"nobody", "job"} /\ holder' = "job"
         \/ s = "rest" /\ holder \in {"nobody", "job"} /\ holder' = "nobody"
  PROVE  PadsInv'
<1>1. pc'["job"] = s /\ \A q \in Pads : pc'[q] = pc[q]
  BY NamesDiffer, Parts DEF At, Calls
<1>2. JobHolds' /\ holder' \in Pads \cup {"job", "nobody"}
  BY <1>1 DEF JobHolds
<1>3. ASSUME NEW q \in Pads PROVE PadOf(q)'
  <2>1. pc'[q] = pc[q] /\ holder # q
    BY <1>1, NamesDiffer
  <2>2. QED
    BY <2>1, Parts DEF pads, PadsInv, PadOf
<1>4. QED
  BY <1>2, <1>3, Parts DEF pads, PadsInv, PadTypes

LEMMA JobFits == PhaseFits("job", "rest", NoCall, <<>>)
BY NamesDiffer DEF PhaseFits, Places

LEMMA JobCalls == ASSUME CallsInv, JobStarts \/ JobEnds \/ JobCancelled PROVE CallsInv'
<1>1. CASE JobStarts
  <2>1. /\ Issue("job", <<Command("job", "slew", Still)>>) /\ At("job", "slew")
        /\ holder = "nobody" /\ holder' = "job"
        /\ UNCHANGED <<axis, slewing, ready, pads, orphan, warned, faults>>
    BY <1>1 DEF JobStarts, ghosts
  <2>2. Calls'
    BY <2>1, OneCalls, NamesDiffer, Parts
  <2>3. PadsInv' /\ Rest'
    BY <2>1, JobGoes, Parts DEF Rest
  <2>4. QED
    BY <2>2, <2>3, PartsNext
<1>2. CASE JobEnds \/ (JobCancelled /\ pc["job"] = "abort")
  <2>1. /\ Drop("job") /\ At("job", "rest") /\ holder' = "nobody" /\ pc["job"] # "rest"
        /\ UNCHANGED <<axis, slewing, ready, pads, faults>>
        /\ orphan' \in BOOLEAN /\ warned' \in BOOLEAN
    BY <1>2, Parts DEF JobEnds, JobCancelled, Rest, Bad
  <2>2. Calls'
    BY <2>1, DropCalls, JobFits, NamesDiffer, Parts
  <2>3. holder = "job"
    BY <2>1, Parts DEF PadsInv, JobHolds
  <2>4. PadsInv' /\ Rest'
    BY <2>1, <2>3, JobGoes, Parts DEF Rest
  <2>5. QED
    BY <2>2, <2>4, PartsNext
<1>3. CASE JobCancelled /\ pc["job"] # "abort"
  <2>1. /\ Issue("job", <<Command("job", "abort", Still)>>) /\ At("job", "abort")
        /\ holder = "job" /\ holder' = "job"
        /\ UNCHANGED <<axis, slewing, ready, pads, orphan, warned, faults>>
    BY <1>3 DEF JobCancelled
  <2>2. Calls'
    BY <2>1, OneCalls, NamesDiffer, Parts
  <2>3. PadsInv' /\ Rest'
    BY <2>1, JobGoes, Parts DEF Rest
  <2>4. QED
    BY <2>2, <2>3, PartsNext
<1>4. QED
  BY <1>1, <1>2, <1>3

LEMMA AbortCalls == ASSUME CallsInv, Abort PROVE CallsInv'
<1> DEFINE everyones == Command("abort", "abort", Still)
           jobs == Command("job", "abort", Still)
<1>1. everyones \in Commands /\ jobs \in Commands /\ jobs # NoCall
      /\ jobs.prop = "abort" /\ jobs.val = Still
  BY CommandTypes, NamesDiffer
<1>2. \/ /\ pc["job"] = "slew" /\ queue' = queue \o <<everyones, jobs>>
         /\ call' = [call EXCEPT !["job"] = jobs] /\ At("job", "abort")
      \/ /\ pc["job"] # "slew" /\ queue' = Append(queue, everyones)
         /\ call' = [call EXCEPT !["job"] = NoCall] /\ At("job", "rest")
  BY DEF Abort
<1>3. /\ answer' = [answer EXCEPT !["job"] = "none"] /\ UNCHANGED todo
      /\ UNCHANGED <<axis, slewing, ready, want, latching, closing, present, orphan, warned, faults>>
  BY DEF Abort, ghosts
<1> HIDE DEF everyones, jobs
<1>4. PhaseOf("job") /\ pc["job"] \in {"rest", "slew", "abort"} /\ todo["job"] = <<>>
  BY NamesDiffer, Parts DEF Calls, PhaseOf
<1>5. Calls'
  <2>1. queue' \in Seq(Commands)
    <3>1. queue \in Seq(Commands) /\ <<everyones, jobs>> \in Seq(Commands)
      BY <1>1, Parts DEF Calls
    <3>2. queue \o <<everyones, jobs>> \in Seq(Commands) /\ Append(queue, everyones) \in Seq(Commands)
      BY <1>1, <3>1
    <3>3. QED
      BY <1>2, <3>2
  <2>2. /\ call' \in [Actors -> Commands \cup {NoCall}] /\ todo' \in [Actors -> Seq(Commands)]
        /\ answer' \in [Actors -> {"none", "ok", "bad"}] /\ pc' \in [Actors -> Places]
    <3>1. call' \in [Actors -> Commands \cup {NoCall}]
      BY <1>1, <1>2, Parts DEF Calls
    <3>2. pc' \in [Actors -> Places]
      BY <1>2, Parts DEF Calls, At, Places
    <3>3. QED
      BY <1>3, <3>1, <3>2, Parts DEF Calls
  <2>3. ASSUME NEW b \in Actors PROVE PhaseOf(b)'
    <3>1. CASE b = "job"
      <4>1. \/ pc'["job"] = "abort" /\ call'["job"] = jobs
            \/ pc'["job"] = "rest" /\ call'["job"] = NoCall
        BY <1>2, NamesDiffer, Parts DEF Calls, At
      <4>2. QED
        BY <1>1, <1>3, <1>4, <3>1, <4>1, NamesDiffer DEF PhaseOf
    <3>2. CASE b # "job"
      <4>1. pc'[b] = pc[b] /\ call'[b] = call[b] /\ todo'[b] = todo[b]
        BY <1>2, <1>3, <3>2, Parts DEF Calls, At
      <4>2. QED
        BY <4>1, Parts DEF Calls, PhaseOf
    <3>3. QED
      BY <3>1, <3>2
  <2>4. QED
    BY <2>1, <2>2, <2>3 DEF Calls
<1>6. PadsInv'
  <2>1. /\ latched' = [p \in Pads |-> latched[p] \/ Interrupted(p)]
        /\ motion' = [p \in Pads |-> IF Interrupted(p) THEN STOPPED ELSE motion[p]]
        /\ holder' = IF holder \in {p \in Pads : Interrupted(p)} \/ pc["job"] = "abort"
                     THEN "nobody" ELSE holder
    BY DEF Abort
  <2>2. PadTypes'
    <3>1. \A p \in Pads : (latched[p] \/ Interrupted(p)) \in BOOLEAN
      OBVIOUS
    <3>2. latched' \in [Pads -> BOOLEAN]
      BY <2>1, <3>1
    <3>3. motion' \in [Pads -> Motions]
      BY <2>1, StillMotion, Parts DEF PadsInv, PadTypes
    <3>4. QED
      BY <1>3, <3>2, <3>3, Parts DEF PadsInv, PadTypes
  <2>3. pc'["job"] = (IF pc["job"] = "slew" THEN "abort" ELSE "rest")
    BY <1>2, NamesDiffer, Parts DEF At, Calls
  <2>4. JobHolds' /\ holder' \in Pads \cup {"job", "nobody"}
    BY <1>4, <2>1, <2>3, NamesDiffer, Parts DEF PadsInv, JobHolds
  <2>5. ASSUME NEW q \in Pads PROVE PadOf(q)'
    <3>1. pc'[q] = pc[q] /\ want'[q] = want[q] /\ PadOf(q)
      BY <1>2, <1>3, NamesDiffer, Parts DEF At, Calls, PadsInv
    <3>2. CASE Interrupted(q)
      BY <2>1, <3>1, <3>2 DEF PadOf
    <3>3. CASE ~Interrupted(q)
      <4>1. latched'[q] = latched[q] /\ motion'[q] = motion[q]
        BY <2>1, <3>3, Parts DEF PadsInv, PadTypes
      <4>2. pc[q] \in {"rate stop", "rate", "move"} => holder # q
        BY <3>3 DEF Interrupted, Active
      <4>3. QED
        BY <3>1, <4>1, <4>2 DEF PadOf
    <3>4. QED
      BY <3>2, <3>3
  <2>6. QED
    BY <2>2, <2>4, <2>5 DEF PadsInv
<1>7. Rest'
  BY <1>3, Parts DEF Rest
<1>8. QED
  BY <1>5, <1>6, <1>7, PartsNext

\* The mount role: "ready" is no pad.
LEMMA ReadyPads ==
  ASSUME CallsInv, UNCHANGED <<pads, holder>>, NEW s, At("ready", s)
  PROVE  PadsInv'
<1>1. pc'["job"] = pc["job"] /\ \A q \in Pads : pc'[q] = pc[q]
  BY NamesDiffer, Parts, MotionAssumption DEF At, Calls
<1>2. QED
  BY <1>1, SamePads

LEMMA ReadyFits ==
  /\ PhaseFits("ready", "rest", NoCall, <<>>) /\ PhaseFits("ready", "created", NoCall, <<>>)
BY NamesDiffer DEF PhaseFits, Places

LEMMA RoleCalls == ASSUME CallsInv, Lost \/ Ready \/ OnReady \/ OnReadyStops PROVE CallsInv'
<1>1. CASE Lost
  <2>1. /\ UNCHANGED <<axis, slewing, holder, call, todo, pc, pads>> /\ ready' = FALSE
        /\ queue' \in {queue, <<>>} /\ faults' \in 0..MaxFaults
    BY <1>1, FaultTypes DEF Lost
  <2>2. answer' \in [Actors -> {"none", "ok", "bad"}] /\ orphan' \in BOOLEAN /\ warned' \in BOOLEAN
    BY <1>1, Parts DEF Lost, Calls, Rest
  <2>3. <<>> \in Seq(Commands)
    OBVIOUS
  <2>4. Calls' /\ PadsInv' /\ Rest'
    BY <2>1, <2>2, <2>3, AnswerCalls, SamePads, Parts DEF Calls, Rest
  <2>5. QED
    BY <2>4, PartsNext
<1>2. CASE Ready
  <2>1. /\ ready' = TRUE /\ At("ready", "created") /\ pc["ready"] = "rest"
        /\ UNCHANGED <<axis, slewing, queue, holder, call, todo, answer, pads, orphan, warned, faults>>
    BY <1>2 DEF Ready, driver, calls, ghosts
  <2>2. call["ready"] = NoCall /\ todo["ready"] = <<>>
    BY <2>1, NamesDiffer, Parts DEF Calls, PhaseOf
  <2>3. ASSUME NEW b \in Actors PROVE PhaseOf(b)'
    <3>1. CASE b = "ready"
      <4>1. pc'["ready"] = "created"
        BY <2>1, NamesDiffer, Parts DEF At, Calls
      <4>2. QED
        BY <2>1, <2>2, <3>1, <4>1, NamesDiffer DEF PhaseOf
    <3>2. CASE b # "ready"
      <4>1. pc'[b] = pc[b]
        BY <2>1, <3>2, Parts DEF At, Calls
      <4>2. QED
        BY <2>1, <4>1, Parts DEF Calls, PhaseOf
    <3>3. QED
      BY <3>1, <3>2
  <2>4. Calls'
    BY <2>1, <2>3, Parts DEF Calls, At, Places
  <2>5. PadsInv' /\ Rest'
    BY <2>1, ReadyPads, Parts DEF Rest
  <2>6. QED
    BY <2>4, <2>5, PartsNext
<1>3. CASE OnReady \/ OnReadyStops
  <2>1. /\ UNCHANGED <<axis, slewing, ready, holder, pads, faults>>
        /\ orphan' \in BOOLEAN /\ warned' \in BOOLEAN
    BY <1>3, Parts DEF OnReady, OnReadyStops, ghosts, Rest, Bad
  <2>2. \/ Drop("ready") /\ At("ready", "rest")
        \/ Issue("ready", StopCalls("ready")) /\ At("ready", "stop")
        \/ Issue("ready", <<Command("ready", "abort", Still)>>) /\ At("ready", "abort")
    BY <1>3 DEF OnReady, OnReadyStops
  <2>3. Calls'
    <3>1. CASE Drop("ready") /\ At("ready", "rest")
      BY <3>1, DropCalls, ReadyFits, NamesDiffer, Parts
    <3>2. CASE Issue("ready", StopCalls("ready")) /\ At("ready", "stop")
      BY <3>2, IssueCalls, StopFits, StopCallsAre, NamesDiffer, Parts
    <3>3. CASE Issue("ready", <<Command("ready", "abort", Still)>>) /\ At("ready", "abort")
      BY <3>3, OneCalls, NamesDiffer, Parts
    <3>4. QED
      BY <2>2, <3>1, <3>2, <3>3
  <2>4. PadsInv' /\ Rest'
    BY <2>1, <2>2, ReadyPads, Parts DEF Rest
  <2>5. QED
    BY <2>3, <2>4, PartsNext
<1>4. QED
  BY <1>1, <1>2, <1>3

LEMMA CallsInit == Init => CallsInv
<1> SUFFICES ASSUME Init PROVE CallsInv
  OBVIOUS
<1>1. Calls
  <2>1. <<>> \in Seq(Commands)
    OBVIOUS
  <2>2. \A a \in Actors : pc[a] = "rest" /\ call[a] = NoCall /\ todo[a] = <<>>
    BY DEF Init
  <2>3. \A a \in Actors : PhaseOf(a)
    BY <2>2 DEF PhaseOf
  <2>4. QED
    BY <2>1, <2>3 DEF Init, Calls, Places
<1>2. PadsInv
  BY StillMotion, NamesDiffer DEF Init, PadsInv, PadTypes, PadOf, JobHolds
<1>3. Rest
  <2>1. 0 \in 0..MaxFaults
    BY MotionAssumption
  <2>2. axis \in Motions
    BY StillMotion, MotionAssumption DEF Init
  <2>3. QED
    BY <2>1, <2>2 DEF Init, Rest
<1>4. QED
  BY <1>1, <1>2, <1>3, Parts

LEMMA CallsStep == CallsInv /\ [Next]_vars => CallsInv'
<1> SUFFICES ASSUME CallsInv, [Next]_vars PROVE CallsInv'
  OBVIOUS
<1>1. ASSUME NEW p \in Pads, NEW m \in Wanted, NEW rate \in BOOLEAN, Hold(p, m, rate) PROVE CallsInv'
  BY <1>1, HoldCalls
<1>2. ASSUME NEW p \in Pads,
             LetGo(p) \/ Silence(p) \/ Handles(p) \/ Gone(p) \/ Overrun(p) \/ Opens(p) \/ Vanishes(p)
      PROVE  CallsInv'
  BY <1>2, LetGoCalls, SetRateCalls, RateSetCalls, MoveEndsCalls, GivesUpCalls, StopEndsCalls,
     StopFailsCalls, ClosedCalls DEF Handles
<1>3. ASSUME NEW a \in Actors, NextCommand(a) \/ TimesOut(a) PROVE CallsInv'
  BY <1>3, NextCommandCalls, DriverCalls
<1>4. CASE DriverActs \/ DriverRefuses \/ SlewEnds \/ SlewTimesOut
  BY <1>4, DriverCalls
<1>5. CASE JobStarts \/ JobCancelled \/ Abort \/ Service \/ Lost \/ Ready
  BY <1>5, JobCalls, AbortCalls, RoleCalls DEF Service
<1>6. CASE UNCHANGED vars
  BY <1>6, Parts, PartsNext DEF vars, driver, calls, pads, ghosts, Calls, PhaseOf, PadsInv, PadTypes,
     PadOf, JobHolds, Rest
<1>7. QED
  BY <1>1, <1>2, <1>3, <1>4, <1>5, <1>6 DEF Next

LEMMA CallsAlways == Spec => []CallsInv
BY CallsInit, CallsStep, PTL DEF Spec

\* Every reachable state of the mount, its pads and the calls on it is well typed.
THEOREM TypeCorrect == Spec => []TypeOK
<1>1. CallsInv => TypeOK
  BY DEF CallsInv
<1>2. QED
  BY <1>1, CallsAlways, PTL

\* While a job holds the mount, a start by hand that is on its way, and that a pad still waits
\* for, is of a pad that is latched: it was interrupted by an abort, or stops (Pad.interrupt).
\* That such a pad's stop arrives, or a start nobody waits for any longer, is not said here.
THEOREM StartsAreLatched == Spec => []SlewsAlone
<1>1. CallsInv => SlewsAlone
  <2> SUFFICES ASSUME CallsInv, holder = "job", NEW i \in 1..Len(queue), NEW p \in Pads,
                      queue[i].val # Still, call[p] = queue[i]
               PROVE  latched[p]
    BY DEF SlewsAlone
  <2>1. PhaseOf(p) /\ PadOf(p) /\ pc[p] \in Places /\ call[p] # NoCall
    <3>1. call[p] \in Commands
      BY Parts DEF Calls
    <3>2. call[p] # NoCall
      BY <3>1 DEF Commands, NoCall, Axes
    <3>3. QED
      BY <3>2, NamesDiffer, Parts DEF Calls, PadsInv
  <2>2. queue[i] \in Commands
    BY Parts DEF Calls
  <2>3. pc[p] = "move"
    <3>1. call[p].val # Still
      OBVIOUS
    <3>2. pc[p] \notin {"rate", "slew", "abort", "rate stop", "stop"}
      BY <2>1, <3>1 DEF PhaseOf, IsStop
    <3>3. QED
      BY <2>1, <3>2 DEF PhaseOf, Places
  <2>4. QED
    BY <2>1, <2>3, NamesDiffer DEF PadOf
<1>2. QED
  BY <1>1, CallsAlways, PTL

----------------------------------------------------------------------------
(* Who sees to a mount that moves by hand *)

Starts(c, x) == c.prop = x /\ c.val # Still

\* An axis that moves, or will when a command sent is carried out, and no stop is behind it.
Now(x) == axis[x] # Still /\ \A j \in 1..Len(queue) : ~Ends(queue[j], x)
Late(x) ==
  \E i \in 1..Len(queue) :
    Starts(queue[i], x) /\ \A j \in (i + 1)..Len(queue) : ~Ends(queue[j], x)

\* Whoever is still to stop the axis: a move that is not over, a stop that failed, the rest
\* of a stop that goes on.
Upset(a) == pc[a] \in {"rate stop", "stop", "abort"} /\ Bad(a)
Stopping(a, x) ==
  /\ pc[a] = "stop" /\ (a \in Pads => Active(a))
  /\ \E i \in 1..Len(todo[a]) : Ends(todo[a][i], x)
Attends(a, x) == pc[a] = "move" \/ Upset(a) \/ Stopping(a, x)

Watched(x) == orphan \/ warned \/ \E a \in Actors : Attends(a, x)

\* A pad that holds the mount and is not stopping it will: its user lets go, or it hears
\* nothing more.
Held == holder \in Pads /\ pc[holder] \notin {"stop", "abort"}

MovesWatched ==
  \A x \in Axes :
    /\ Late(x) => Watched(x) \/ Held \/ ~ready
    /\ Now(x) => Watched(x) \/ Held \/ ~ready \/ pc["ready"] = "created"

\* Once it stops, it counts on nobody who would not stop a mount it holds: not on
\* MountService._on_ready.
ReleasesWatched ==
  holder \in Pads /\ ~Held => \A x \in Axes : Late(x) \/ Now(x) => Watched(x)

WatchInv == MovesWatched /\ ReleasesWatched

----------------------------------------------------------------------------
(* What a step does to the motions under way *)

LEMMA SameMotions ==
  ASSUME UNCHANGED <<axis, queue>>, NEW x \in Axes
  PROVE  (Late(x)' <=> Late(x)) /\ (Now(x)' <=> Now(x))
BY DEF Late, Now, Starts, Ends

LEMMA SentMotions ==
  ASSUME queue \in Seq(Commands), NEW c \in Commands, queue' = Append(queue, c), axis' = axis,
         NEW x \in Axes
  PROVE  /\ Late(x)' => (Late(x) \/ Starts(c, x)) /\ ~Ends(c, x)
         /\ Now(x)' => Now(x) /\ ~Ends(c, x)
<1> DEFINE n == Len(queue)
<1>1. /\ n \in Nat /\ Len(queue') = n + 1 /\ queue'[n + 1] = c
      /\ \A i \in 1..n : queue'[i] = queue[i]
  BY AppendProperties
<1>2. ASSUME Late(x)' PROVE (Late(x) \/ Starts(c, x)) /\ ~Ends(c, x)
  <2>1. PICK i \in 1..(n + 1) :
          /\ queue'[i].prop = x /\ queue'[i].val # Still
          /\ \A j \in (i + 1)..(n + 1) : ~Ends(queue'[j], x)
    BY <1>1, <1>2 DEF Late, Starts, Ends
  <2>2. CASE i = n + 1
    <3>1. Starts(c, x)
      BY <1>1, <2>1, <2>2 DEF Starts
    <3>2. QED
      BY <3>1 DEF Starts, Ends, Axes
  <2>3. CASE i # n + 1
    <3>1. i \in 1..n /\ n + 1 \in (i + 1)..(n + 1) /\ \A j \in (i + 1)..n : j \in (i + 1)..(n + 1) /\ j \in 1..n
      BY <1>1, <2>1, <2>3
    <3>2. ~Ends(c, x) /\ Starts(queue[i], x) /\ \A j \in (i + 1)..n : ~Ends(queue[j], x)
      BY <1>1, <2>1, <3>1 DEF Starts
    <3>3. QED
      BY <3>1, <3>2 DEF Late
  <2>4. QED
    BY <2>2, <2>3
<1>3. ASSUME Now(x)' PROVE Now(x) /\ ~Ends(c, x)
  <2>1. axis[x] # Still /\ \A j \in 1..(n + 1) : ~Ends(queue'[j], x)
    BY <1>1, <1>3 DEF Now, Ends
  <2>2. n + 1 \in 1..(n + 1) /\ \A j \in 1..n : j \in 1..(n + 1)
    BY <1>1
  <2>3. QED
    BY <1>1, <2>1, <2>2 DEF Now
<1>4. QED
  BY <1>2, <1>3

LEMMA TakenMotions ==
  ASSUME queue \in Seq(Commands), queue # <<>>, queue' = Tail(queue), NEW x \in Axes
  PROVE  /\ Late(x)' => Late(x)
         /\ Now(x)' => \/ axis'[x] = axis[x] /\ (Now(x) \/ (axis[x] # Still /\ Ends(Head(queue), x)))
                       \/ axis'[x] # axis[x] /\ (Starts(Head(queue), x) => Late(x))
<1> DEFINE n == Len(queue)
<1>1. /\ n \in Nat \ {0} /\ Len(queue') = n - 1 /\ Head(queue) = queue[1]
      /\ \A i \in 1..(n - 1) : queue'[i] = queue[i + 1]
  BY EmptySeq, HeadTailProperties, HeadAndTail
<1>2. ASSUME Late(x)' PROVE Late(x)
  <2>1. PICK i \in 1..(n - 1) :
          /\ queue'[i].prop = x /\ queue'[i].val # Still
          /\ \A j \in (i + 1)..(n - 1) : ~Ends(queue'[j], x)
    BY <1>1, <1>2 DEF Late, Starts, Ends
  <2>2. i + 1 \in 1..n /\ Starts(queue[i + 1], x)
    BY <1>1, <2>1 DEF Starts
  <2>3. ASSUME NEW j \in (i + 2)..n PROVE ~Ends(queue[j], x)
    <3>1. j - 1 \in (i + 1)..(n - 1) /\ j - 1 \in 1..(n - 1) /\ (j - 1) + 1 = j
      BY <1>1, <2>1
    <3>2. QED
      BY <1>1, <2>1, <3>1
  <2>4. (i + 1) + 1 = i + 2
    BY <2>1
  <2>5. QED
    BY <2>2, <2>3, <2>4 DEF Late
<1>3. ASSUME Now(x)'
      PROVE  \/ axis'[x] = axis[x] /\ (Now(x) \/ (axis[x] # Still /\ Ends(Head(queue), x)))
             \/ axis'[x] # axis[x] /\ (Starts(Head(queue), x) => Late(x))
  <2>1. axis'[x] # Still /\ \A j \in 1..(n - 1) : ~Ends(queue'[j], x)
    BY <1>1, <1>3 DEF Now, Ends
  <2>2. ASSUME NEW j \in 2..n PROVE ~Ends(queue[j], x)
    <3>1. j - 1 \in 1..(n - 1) /\ (j - 1) + 1 = j
      BY <1>1
    <3>2. QED
      BY <1>1, <2>1, <3>1
  <2>3. CASE axis'[x] = axis[x]
    <3>1. \A j \in 1..n : j = 1 \/ j \in 2..n
      BY <1>1
    <3>2. QED
      BY <1>1, <2>1, <2>2, <2>3, <3>1 DEF Now
  <2>4. CASE axis'[x] # axis[x]
    <3>1. 1 \in 1..n /\ 1 + 1 = 2
      BY <1>1
    <3>2. Starts(Head(queue), x) => Late(x)
      BY <1>1, <2>2, <3>1 DEF Late
    <3>3. QED
      BY <2>4, <3>2
  <2>5. QED
    BY <2>3, <2>4
<1>4. QED
  BY <1>2, <1>3

\* Where the last command sent is an abort, nothing goes on moving.
LEMMA EndedMotions ==
  ASSUME NEW q \in Seq(Commands), NEW c \in Commands, queue' = Append(q, c), c.prop = "abort",
         NEW x \in Axes
  PROVE  ~Late(x)' /\ ~Now(x)'
<1> DEFINE n == Len(q)
<1>1. n \in Nat /\ Len(queue') = n + 1 /\ queue'[n + 1] = c
  BY AppendProperties
<1>2. Ends(queue'[n + 1], x)
  BY <1>1 DEF Ends
<1>3. ~Starts(queue'[n + 1], x)
  BY <1>1 DEF Starts, Axes
<1>4. ~Now(x)'
  <2>1. n + 1 \in 1..(n + 1)
    BY <1>1
  <2>2. QED
    BY <1>1, <1>2, <2>1 DEF Now, Ends
<1>5. ~Late(x)'
  <2> SUFFICES ASSUME NEW i \in 1..(n + 1), Starts(queue'[i], x),
                      \A j \in (i + 1)..(n + 1) : ~Ends(queue'[j], x)
               PROVE  FALSE
    BY <1>1 DEF Late, Starts, Ends
  <2>1. i # n + 1
    BY <1>3
  <2>2. n + 1 \in (i + 1)..(n + 1)
    BY <1>1, <2>1
  <2>3. QED
    BY <1>2, <2>2
<1>6. QED
  BY <1>4, <1>5

----------------------------------------------------------------------------
(* What a step does to who sees to them *)

LEMMA AllWatched ==
  ASSUME \A x \in Axes : Late(x)' \/ Now(x)' => Watched(x)'
  PROVE  WatchInv'
BY DEF WatchInv, MovesWatched, ReleasesWatched

\* A step of one actor.
OnlyOf(a) ==
  /\ \A b \in Actors \ {a} : /\ call'[b] = call[b] /\ todo'[b] = todo[b]
                            /\ answer'[b] = answer[b] /\ pc'[b] = pc[b]
  /\ \A q \in Pads \ {a} : motion'[q] = motion[q] /\ (holder = q => holder' = q)
  /\ (orphan => orphan') /\ (warned => warned')

LEMMA CallsOnly ==
  ASSUME CallsInv, NEW a \in Actors, Drop(a) \/ \E commands : Issue(a, commands),
         NEW s, At(a, s)
  PROVE  /\ \A b \in Actors \ {a} : /\ call'[b] = call[b] /\ todo'[b] = todo[b]
                                   /\ answer'[b] = answer[b] /\ pc'[b] = pc[b]
         /\ pc'[a] = s
BY Parts DEF Calls, Drop, Issue, At

LEMMA IssuedCall ==
  ASSUME CallsInv, NEW a \in Actors, NEW commands, Issue(a, commands)
  PROVE  /\ call'[a] = Head(commands) /\ todo'[a] = Tail(commands)
         /\ answer'[a] = IF ready THEN "none" ELSE "bad"
         /\ queue' = IF ready THEN Append(queue, Head(commands)) ELSE queue
BY Parts DEF Calls, Issue

LEMMA OthersAttend ==
  ASSUME NEW a \in Actors, OnlyOf(a), NEW x \in Axes, Watched(x)
  PROVE  Watched(x)' \/ Attends(a, x)
<1>1. CASE orphan \/ warned
  BY <1>1 DEF OnlyOf, Watched
<1>2. ASSUME NEW b \in Actors \ {a}, Attends(b, x) PROVE Attends(b, x)'
  <2>1. /\ call'[b] = call[b] /\ todo'[b] = todo[b] /\ answer'[b] = answer[b] /\ pc'[b] = pc[b]
        /\ (b \in Pads => motion'[b] = motion[b] /\ (holder = b => holder' = b))
    BY DEF OnlyOf
  <2>2. b \in Pads /\ Active(b) => Active(b)'
    BY <2>1 DEF Active, Moving
  <2>3. Bad(b) => Bad(b)'
    BY <2>1 DEF Bad
  <2>4. QED
    BY <1>2, <2>1, <2>2, <2>3 DEF Attends, Upset, Stopping, Ends
<1>3. QED
  BY <1>1, <1>2 DEF Watched

\* Both axes are being stopped: one by the command just sent, the other by the next.
LEMMA StopsWatch ==
  ASSUME CallsInv, NEW a \in Actors, ready, Issue(a, StopCalls(a)), At(a, "stop"), axis' = axis,
         a \in Pads => Active(a)'
  PROVE  WatchInv'
<1> DEFINE ns == Command(a, "ns", Still)
           we == Command(a, "we", Still)
<1>1. ns \in Commands /\ Ends(ns, "ns") /\ Ends(we, "we")
  BY CommandTypes DEF Axes, Ends
<1>2. queue' = Append(queue, ns) /\ todo'[a] = <<we>> /\ pc'[a] = "stop"
  BY IssuedCall, CallsOnly, StopCallsAre
<1> HIDE DEF ns, we
<1>3. ~Late("ns")' /\ ~Now("ns")'
  BY <1>1, <1>2, SentMotions, Parts DEF Calls, Axes
<1>4. Watched("we")'
  <2>1. 1 \in 1..Len(todo'[a]) /\ todo'[a][1] = we
    BY <1>2
  <2>2. Stopping(a, "we")'
    BY <1>1, <1>2, <2>1 DEF Stopping, Ends
  <2>3. QED
    BY <2>2 DEF Watched, Attends
<1>5. QED
  BY <1>3, <1>4, AllWatched DEF Axes

\* A call that fails at once, for the mount is gone, leaves its sender to go on.
LEMMA RefusedWatch ==
  ASSUME CallsInv, CallsInv', NEW a \in Actors, NEW commands, Sendable(commands), ~ready,
         Issue(a, commands), NEW s \in {"rate stop", "stop", "abort", "move"}, At(a, s)
  PROVE  WatchInv'
<1>1. answer'[a] = "bad" /\ call'[a] = Head(commands) /\ pc'[a] = s
  BY IssuedCall, CallsOnly
<1>2. call'[a] # NoCall
  <2>1. Head(commands) \in Commands
    BY HeadTailProperties DEF Sendable
  <2>2. Head(commands).prop # "nothing"
    BY <2>1 DEF Commands, Axes
  <2>3. NoCall.prop = "nothing"
    BY DEF NoCall
  <2>4. Head(commands) # NoCall
    BY <2>2, <2>3
  <2>5. QED
    BY <1>1, <2>4
<1>3. ASSUME NEW x \in Axes PROVE Watched(x)'
  BY <1>1, <1>2 DEF Watched, Attends, Upset, Bad
<1>4. QED
  BY <1>3, AllWatched

\* An abort stops everything.
LEMMA AbortsWatch ==
  ASSUME CallsInv, CallsInv', NEW a \in Actors, Issue(a, <<Command(a, "abort", Still)>>),
         At(a, "abort")
  PROVE  WatchInv'
<1> DEFINE c == Command(a, "abort", Still)
<1>1. c \in Commands /\ c.prop = "abort" /\ Sendable(<<c>>) /\ Head(<<c>>) = c
  BY CommandTypes, OneCommand
<1>2. CASE ready
  <2>1. queue' = Append(queue, c) /\ queue \in Seq(Commands)
    BY <1>1, <1>2, IssuedCall, Parts DEF Calls
  <2>2. QED
    BY <1>1, <2>1, EndedMotions, AllWatched
<1>3. CASE ~ready
  BY <1>1, <1>3, RefusedWatch
<1>4. QED
  BY <1>2, <1>3

\* A pad ends its stop, or gives it up: what it still attended to is noted, or the mount is
\* gone and no other pad holds it.
LEMMA EndsWatch ==
  ASSUME CallsInv, WatchInv, NEW p \in Pads, OnlyOf(p), holder' = Released(p),
         UNCHANGED <<axis, queue, ready>>,
         \A x \in Axes : Attends(p, x) => orphan' \/ warned' \/ (~ready /\ holder \notin Pads \ {p}),
         holder = p => ~ready \/ pc[p] \in {"stop", "abort"}
  PROVE  WatchInv'
<1> USE NamesDiffer
<1>1. ASSUME NEW x \in Axes, Watched(x), ready \/ holder \in Pads \ {p} PROVE Watched(x)'
  BY <1>1, OthersAttend DEF Watched
<1>2. \A x \in Axes : (Late(x)' <=> Late(x)) /\ (Now(x)' <=> Now(x))
  BY SameMotions
<1>3. holder # p => holder' = holder
  BY DEF Released
<1>4. holder = p => holder' = "nobody"
  BY DEF Released
<1>5. pc'["ready"] = pc["ready"] /\ \A q \in Pads \ {p} : pc'[q] = pc[q]
  BY DEF OnlyOf
<1>6. MovesWatched'
  <2>1. CASE ~ready
    BY <2>1 DEF MovesWatched
  <2>2. CASE ready /\ holder = p
    <3>1. \A x \in Axes : Late(x) \/ Now(x) => Watched(x)
      BY <2>2 DEF WatchInv, ReleasesWatched, Held
    <3>2. QED
      BY <1>1, <1>2, <2>2, <3>1 DEF MovesWatched
  <2>3. CASE ready /\ holder # p
    <3>1. Held => Held'
      BY <1>3, <1>5, <2>3 DEF Held
    <3>2. QED
      BY <1>1, <1>2, <1>5, <2>3, <3>1 DEF WatchInv, MovesWatched
  <2>4. QED
    BY <2>1, <2>2, <2>3
<1>7. ReleasesWatched'
  <2> SUFFICES ASSUME holder' \in Pads, ~Held', NEW x \in Axes, Late(x)' \/ Now(x)'
               PROVE  Watched(x)'
    BY DEF ReleasesWatched
  <2>1. holder \in Pads \ {p} /\ holder' = holder
    BY <1>3, <1>4
  <2>2. ~Held
    BY <1>5, <2>1 DEF Held
  <2>3. QED
    BY <1>1, <1>2, <2>1, <2>2 DEF WatchInv, ReleasesWatched
<1>8. QED
  BY <1>6, <1>7 DEF WatchInv

\* A pad goes on with a motion, or rests holding the mount.
LEMMA GoesOnWatch ==
  ASSUME CallsInv, WatchInv, NEW p \in Pads, OnlyOf(p), UNCHANGED ready,
         holder' = holder \/ (holder' = p /\ holder = "nobody"), pc'[p] \notin {"stop", "abort"},
         \A x \in Axes : /\ Late(x)' => Late(x) \/ Watched(x)' \/ holder' = p
                         /\ Now(x)' => Now(x)
                         /\ Attends(p, x) => Watched(x)' \/ holder' = p
  PROVE  WatchInv'
<1> USE NamesDiffer
<1>1. CASE holder' = p
  <2>1. Held'
    BY <1>1 DEF Held
  <2>2. QED
    BY <1>1, <2>1 DEF WatchInv, MovesWatched, ReleasesWatched
<1>2. CASE holder' # p
  <2>1. holder' = holder /\ holder # p
    BY <1>2
  <2>2. ASSUME NEW x \in Axes, Watched(x) PROVE Watched(x)'
    BY <1>2, <2>2, OthersAttend
  <2>3. pc'["ready"] = pc["ready"] /\ (Held <=> Held')
    BY <2>1 DEF OnlyOf, Held
  <2>4. MovesWatched'
    BY <1>2, <2>2, <2>3 DEF WatchInv, MovesWatched
  <2>5. ReleasesWatched'
    BY <1>2, <2>1, <2>2, <2>3 DEF WatchInv, ReleasesWatched
  <2>6. QED
    BY <2>4, <2>5 DEF WatchInv
<1>3. QED
  BY <1>1, <1>2

\* An actor goes on with what it was doing, and leaves the mount to who has it.
LEMMA KeepsWatch ==
  ASSUME CallsInv, WatchInv, NEW a \in Actors, OnlyOf(a), UNCHANGED ready,
         holder \in Pads \/ holder' \in Pads => holder' = holder,
         a \in Pads => (pc'[a] \in {"stop", "abort"} <=> pc[a] \in {"stop", "abort"}),
         a = "ready" => pc[a] # "created",
         \A x \in Axes : /\ Late(x)' => Late(x)
                         /\ Now(x)' => Now(x)
                         /\ (Late(x)' \/ Now(x)') /\ Attends(a, x) => Watched(x)'
  PROVE  WatchInv'
<1> USE NamesDiffer
<1>1. ASSUME NEW x \in Axes, Watched(x), Late(x)' \/ Now(x)' PROVE Watched(x)'
  BY <1>1, OthersAttend
<1>2. Held <=> Held'
  BY DEF Held, OnlyOf
<1>3. pc["ready"] = "created" => pc'["ready"] = "created"
  BY DEF OnlyOf
<1>4. MovesWatched'
  BY <1>1, <1>2, <1>3 DEF WatchInv, MovesWatched
<1>5. ReleasesWatched'
  BY <1>1, <1>2 DEF WatchInv, ReleasesWatched
<1>6. QED
  BY <1>4, <1>5 DEF WatchInv

----------------------------------------------------------------------------
(* What comes back *)

LEMMA AnswersKeep ==
  ASSUME UNCHANGED <<call, todo, pc, holder, pads>>,
         \A a \in Actors : answer'[a] = answer[a] \/ answer[a] = "none",
         orphan => orphan', warned => warned',
         NEW x \in Axes, Watched(x)
  PROVE  Watched(x)'
<1>1. ASSUME NEW a \in Actors, Attends(a, x) PROVE Attends(a, x)'
  BY <1>1 DEF Attends, Upset, Bad, Stopping, Ends, Active, Moving, pads
<1>2. QED
  BY <1>1 DEF Watched

LEMMA AnswersWatch ==
  ASSUME CallsInv, WatchInv, UNCHANGED <<call, todo, pc, holder, ready, pads>>,
         \A a \in Actors : answer'[a] = answer[a] \/ answer[a] = "none",
         orphan => orphan', warned => warned',
         \A x \in Axes : (Late(x)' => Late(x)) /\ (Now(x)' => Now(x) \/ Late(x) \/ Watched(x)')
  PROVE  WatchInv'
<1>1. ASSUME NEW x \in Axes, Watched(x) PROVE Watched(x)'
  BY <1>1, AnswersKeep
<1>2. Held <=> Held'
  BY DEF Held
<1>3. MovesWatched'
  BY <1>1, <1>2 DEF WatchInv, MovesWatched
<1>4. ReleasesWatched'
  BY <1>1, <1>2 DEF WatchInv, ReleasesWatched
<1>5. QED
  BY <1>3, <1>4 DEF WatchInv

\* Who waits for a stop and hears that it failed goes on to an abort, or says so.
LEMMA HeardWatch ==
  ASSUME CallsInv, NEW c \in Commands, NEW x \in Axes, Ends(c, x), c.by # "abort",
         call[c.by] = c, UNCHANGED <<call, pc>>, answer'[c.by] = "bad"
  PROVE  Watched(x)'
<1>1. c.by \in Actors /\ c.prop # "nothing" /\ c.prop \in Axes \cup {"abort"}
  BY DEF Commands, Axes, Ends
<1>2. c # NoCall
  <2>1. NoCall.prop = "nothing"
    BY DEF NoCall
  <2>2. QED
    BY <1>1, <2>1
<1>3. PhaseOf(c.by) /\ pc[c.by] \in Places
  BY <1>1, Parts DEF Calls
<1>4. pc[c.by] \in {"rate stop", "stop", "move", "abort"}
  BY <1>1, <1>2, <1>3 DEF PhaseOf, Places, Axes
<1>5. Attends(c.by, x)'
  BY <1>2, <1>4 DEF Attends, Upset, Bad
<1>6. QED
  BY <1>1, <1>5 DEF Watched

LEMMA AnswerAllKeeps ==
  ASSUME NEW prop, NEW val, NEW refused, AnswerAll(prop, val, refused), NEW a \in Actors
  PROVE  answer'[a] = answer[a] \/ answer[a] = "none"
BY DEF AnswerAll

LEMMA DriverActsWatch == ASSUME CallsInv, WatchInv, DriverActs PROVE WatchInv'
<1> DEFINE c == Head(queue)
<1>1. /\ queue \in Seq(Commands) /\ queue # <<>> /\ queue' = Tail(queue) /\ c \in Commands
      /\ axis \in [Axes -> Dirs \cup {Still}]
  BY HeadTailProperties, Parts DEF DriverActs, Calls, Rest, Motions
<1>2. UNCHANGED <<call, todo, pc, holder, ready, pads, orphan, warned>>
  BY DEF DriverActs, ghosts
<1>3. \A a \in Actors : answer'[a] = answer[a] \/ answer[a] = "none"
  BY AnswerAllKeeps DEF DriverActs
<1>4. ASSUME NEW x \in Axes, Now(x)' PROVE Now(x) \/ Late(x)
  <2>1. axis'[x] # Still
    BY <1>4 DEF Now
  <2>2. CASE c.prop \in Axes /\ axis' = [axis EXCEPT ![c.prop] = c.val]
    <3>1. CASE c.prop = x
      <4>1. axis'[x] = c.val
        BY <1>1, <2>2, <3>1
      <4>2. Starts(c, x) /\ ~Ends(c, x)
        BY <2>1, <3>1, <4>1 DEF Starts, Ends, Axes
      <4>3. QED
        BY <1>1, <1>4, <4>2, TakenMotions
    <3>2. CASE c.prop # x
      <4>1. axis'[x] = axis[x] /\ ~Ends(c, x)
        BY <1>1, <2>2, <3>2 DEF Ends, Axes
      <4>2. QED
        BY <1>1, <1>4, <4>1, TakenMotions
    <3>3. QED
      BY <3>1, <3>2
  <2>3. CASE c.prop \in {"rate", "slew"} /\ axis' = axis
    <3>1. ~Ends(c, x)
      BY <2>3 DEF Ends, Axes
    <3>2. QED
      BY <1>1, <1>4, <2>3, <3>1, TakenMotions
  <2>4. CASE axis' = STOPPED
    BY <2>1, <2>4 DEF STOPPED
  <2>5. QED
    BY <2>2, <2>3, <2>4 DEF DriverActs
<1>5. QED
  BY <1>1, <1>2, <1>3, <1>4, TakenMotions, AnswersWatch

LEMMA DriverRefusesWatch == ASSUME CallsInv, WatchInv, DriverRefuses PROVE WatchInv'
<1> DEFINE c == Head(queue)
<1>1. /\ queue \in Seq(Commands) /\ queue # <<>> /\ queue' = Tail(queue) /\ c \in Commands
      /\ axis' = axis
  BY HeadTailProperties, Parts DEF DriverRefuses, Calls
<1>2. /\ UNCHANGED <<call, todo, pc, holder, ready, pads>>
      /\ warned' = (warned \/ c.by = "abort") /\ orphan' = (orphan \/ Unheeded(c))
  BY DEF DriverRefuses
<1>3. \A a \in Actors : answer'[a] = answer[a] \/ answer[a] = "none"
  BY AnswerAllKeeps DEF DriverRefuses
<1>4. ASSUME NEW x \in Axes, axis[x] # Still, Ends(c, x) PROVE Watched(x)'
  <2>1. CASE c.by = "abort" \/ Unheeded(c)
    BY <1>2, <2>1 DEF Watched
  <2>2. CASE c.by # "abort" /\ ~Unheeded(c)
    <3>1. call[c.by] = c /\ answer[c.by] = "none"
      BY <1>4, <2>2 DEF Unheeded
    <3>2. c.by \in Actors
      BY <1>1, <2>2 DEF Commands
    <3>3. answer'[c.by] = "bad"
      BY <3>1, <3>2 DEF DriverRefuses, AnswerAll
    <3>4. QED
      BY <1>1, <1>2, <1>4, <2>2, <3>1, <3>3, HeardWatch
  <2>3. QED
    BY <2>1, <2>2
<1>5. ASSUME NEW x \in Axes PROVE (Late(x)' => Late(x)) /\ (Now(x)' => Now(x) \/ Watched(x)')
  BY <1>1, <1>4, TakenMotions
<1>6. QED
  BY <1>2, <1>3, <1>5, AnswersWatch

LEMMA WaitsWatch ==
  ASSUME CallsInv, WatchInv, SlewEnds \/ SlewTimesOut \/ \E a \in Actors : TimesOut(a)
  PROVE  WatchInv'
<1>1. UNCHANGED <<axis, queue, call, todo, pc, holder, ready, pads, orphan, warned>>
  BY DEF SlewEnds, SlewTimesOut, TimesOut, driver, ghosts
<1>2. \A a \in Actors : answer'[a] = answer[a] \/ answer[a] = "none"
  <2>1. CASE SlewEnds
    BY <2>1, AnswerAllKeeps DEF SlewEnds
  <2>2. CASE SlewTimesOut \/ \E a \in Actors : TimesOut(a)
    BY <2>2, Parts DEF SlewTimesOut, TimesOut, Calls
  <2>3. QED
    BY <2>1, <2>2
<1>3. QED
  BY <1>1, <1>2, SameMotions, AnswersWatch

LEMMA LostWatch == ASSUME CallsInv, WatchInv, Lost PROVE WatchInv'
<1>1. /\ UNCHANGED <<axis, call, todo, pc, holder, pads>> /\ ready' = FALSE
      /\ (orphan => orphan') /\ (warned => warned')
  <2>1. orphan => orphan'
    <3>1. CASE UNCHANGED orphan
      BY <3>1
    <3>2. CASE orphan' = (orphan \/ \E i \in 1..Len(queue) : Unheeded(queue[i]))
      BY <3>2, Zenon
    <3>3. QED
      BY <3>1, <3>2 DEF Lost
  <2>2. warned' = (warned \/ \E i \in 1..Len(queue) : queue[i].by = "abort")
    BY DEF Lost
  <2>3. warned => warned'
    BY <2>2, Zenon
  <2>4. QED
    BY <2>1, <2>3 DEF Lost
<1>2. /\ \A a \in Actors : answer'[a] = answer[a] \/ answer[a] = "none"
      /\ \A a \in Actors : call[a] # NoCall /\ answer[a] = "none" => answer'[a] = "bad"
  BY DEF Lost
<1>3. ASSUME NEW x \in Axes, Watched(x) PROVE Watched(x)'
  BY <1>1, <1>2, <1>3, AnswersKeep
<1>4. MovesWatched'
  BY <1>1 DEF MovesWatched
<1>5. ASSUME queue' = <<>>, orphan' = (orphan \/ \E i \in 1..Len(queue) : Unheeded(queue[i])),
             NEW x \in Axes, Now(x)', ~Now(x)
      PROVE  Watched(x)'
  <2>1. axis[x] # Still
    BY <1>1, <1>5 DEF Now
  <2>2. PICK j \in 1..Len(queue) : Ends(queue[j], x)
    BY <1>5, <2>1 DEF Now
  <2> DEFINE c == queue[j]
  <2>3. c \in Commands /\ Ends(c, x) /\ (c.by = "abort" => warned') /\ (Unheeded(c) => orphan')
    <3>1. c \in Commands /\ Ends(c, x)
      BY <2>2, Parts DEF Calls
    <3>2. warned' = (warned \/ \E i \in 1..Len(queue) : queue[i].by = "abort")
      BY DEF Lost
    <3>3. c.by = "abort" => warned'
      BY <3>2, Zenon
    <3>4. Unheeded(c) => orphan'
      BY <1>5, Zenon
    <3>5. QED
      BY <3>1, <3>3, <3>4
  <2> HIDE DEF c
  <2>4. CASE c.by = "abort" \/ Unheeded(c)
    BY <2>3, <2>4 DEF Watched
  <2>5. CASE c.by # "abort" /\ ~Unheeded(c)
    <3>1. call[c.by] = c /\ answer[c.by] = "none" /\ c.by \in Actors
      BY <2>1, <2>3, <2>5 DEF Unheeded, Commands
    <3>2. c.prop # "nothing" /\ NoCall.prop = "nothing"
      BY <2>3 DEF Commands, Axes, NoCall
    <3>3. answer'[c.by] = "bad"
      BY <1>2, <3>1, <3>2
    <3>4. QED
      BY <1>1, <2>3, <2>5, <3>1, <3>3, HeardWatch
  <2>6. QED
    BY <2>4, <2>5
<1>6. ReleasesWatched'
  <2> SUFFICES ASSUME holder' \in Pads, ~Held', NEW x \in Axes, Late(x)' \/ Now(x)'
               PROVE  Watched(x)'
    BY DEF ReleasesWatched
  <2>1. Late(x) \/ Now(x) => Watched(x)
    BY <1>1 DEF WatchInv, ReleasesWatched, Held
  <2>2. CASE UNCHANGED <<queue, orphan>>
    BY <1>1, <1>3, <2>1, <2>2, SameMotions
  <2>3. CASE queue' = <<>> /\ orphan' = (orphan \/ \E i \in 1..Len(queue) : Unheeded(queue[i]))
    <3>1. ~Late(x)'
      BY <2>3 DEF Late
    <3>2. QED
      BY <1>3, <1>5, <2>1, <2>3, <3>1
  <2>4. QED
    BY <2>2, <2>3 DEF Lost
<1>7. QED
  BY <1>4, <1>6 DEF WatchInv

----------------------------------------------------------------------------
(* The pads *)

LEMMA StopWatch ==
  ASSUME CallsInv, WatchInv, NEW p \in Pads, NEW latch, Stop(p, latch), UNCHANGED <<axis, ready>>,
         orphan => orphan', warned => warned',
         \A x \in Axes : Attends(p, x) /\ ~(Active(p) /\ ready) =>
           orphan' \/ warned' \/ (~ready /\ holder \notin Pads \ {p})
  PROVE  WatchInv'
<1> USE NamesDiffer
<1>1. CASE Active(p) /\ ready
  <2>1. Issue(p, StopCalls(p)) /\ At(p, "stop") /\ UNCHANGED <<motion, holder>>
    BY <1>1 DEF Stop
  <2>2. Active(p)'
    BY <1>1, <2>1 DEF Active, Moving
  <2>3. QED
    BY <1>1, <2>1, <2>2, StopsWatch
<1>2. CASE ~(Active(p) /\ ready)
  <2>1. Stopped(p, latch)
    BY <1>2 DEF Stop
  <2>2. OnlyOf(p)
    <3>1. \A q \in Pads \ {p} : motion'[q] = motion[q] /\ (holder = q => holder' = q)
      BY <2>1, Parts DEF Stopped, Released, PadsInv, PadTypes
    <3>2. \A b \in Actors \ {p} : /\ call'[b] = call[b] /\ todo'[b] = todo[b]
                                  /\ answer'[b] = answer[b] /\ pc'[b] = pc[b]
      BY <2>1, CallsOnly DEF Stopped
    <3>3. QED
      BY <3>1, <3>2 DEF OnlyOf
  <2>3. UNCHANGED queue /\ holder' = Released(p)
    BY <2>1 DEF Stopped, Drop
  <2>4. holder = p => ~ready
    BY <1>2 DEF Active
  <2>5. QED
    BY <1>2, <2>2, <2>3, <2>4, EndsWatch
<1>3. QED
  BY <1>1, <1>2

LEMMA NobodyAttends ==
  ASSUME NEW a \in Actors, pc[a] \in {"rest", "closed", "created", "rate", "slew"}, NEW x \in Axes
  PROVE  ~Attends(a, x)
BY DEF Attends, Upset, Stopping

LEMMA SentOrNot ==
  ASSUME CallsInv, NEW a \in Actors, NEW commands, Sendable(commands), Issue(a, commands),
         UNCHANGED axis, NEW x \in Axes
  PROVE  /\ Late(x)' => Late(x) \/ Starts(Head(commands), x)
         /\ Now(x)' => Now(x)
         /\ ready /\ Ends(Head(commands), x) => ~Late(x)' /\ ~Now(x)'
<1>1. Head(commands) \in Commands /\ queue \in Seq(Commands)
  BY HeadTailProperties, Parts DEF Sendable, Calls
<1>2. CASE ready
  <2>1. queue' = Append(queue, Head(commands))
    BY <1>2, IssuedCall
  <2>2. QED
    BY <1>1, <2>1, SentMotions
<1>3. CASE ~ready
  <2>1. queue' = queue
    BY <1>3, IssuedCall
  <2>2. QED
    BY <1>3, <2>1, SameMotions
<1>4. QED
  BY <1>2, <1>3

LEMMA HoldWatch ==
  ASSUME CallsInv, WatchInv, NEW p \in Pads, NEW m \in Wanted, NEW rate \in BOOLEAN, Hold(p, m, rate)
  PROVE  WatchInv'
<1> USE NamesDiffer
<1>1. pc[p] = "rest" /\ UNCHANGED <<axis, ready, orphan, warned>> /\ m \in Motions
  BY MotionAssumption DEF Hold, ghosts
<1>2. CASE ~ready \/ holder \notin {"nobody", p}
  <2>1. Stop(p, TRUE)
    BY <1>2 DEF Hold
  <2>2. QED
    BY <1>1, <2>1, NobodyAttends, StopWatch
<1>3. CASE ready /\ holder \in {"nobody", p}
  <2> DEFINE stopFirst == rate /\ Moving(motion[p])
             calls0 == MoveCalls(p, IF stopFirst THEN STOPPED ELSE m)
  <2>1. holder' = p
    BY <1>3 DEF Hold
  <2>2. \/ /\ calls0 # <<>> /\ Issue(p, calls0) /\ UNCHANGED motion
           /\ At(p, IF rate THEN "rate stop" ELSE "move")
        \/ /\ Issue(p, <<Command(p, "rate", Still)>>) /\ At(p, "rate")
           /\ motion' = [motion EXCEPT ![p] = STOPPED]
        \/ motion' = [motion EXCEPT ![p] = m] /\ UNCHANGED <<calls, queue, pc>>
    BY <1>3 DEF Hold
  <2>3. Sendable(<<Command(p, "rate", Still)>>)
    BY CommandTypes, OneCommand
  <2>4. calls0 # <<>> => Sendable(calls0)
    <3>1. (IF stopFirst THEN STOPPED ELSE m) \in Motions
      BY <1>1, StillMotion
    <3>2. calls0 \in Seq(Commands)
      BY <3>1, MoveCallsAre DEF MovesOnly
    <3>3. QED
      BY <3>2 DEF Sendable
  <2> HIDE DEF calls0
  <2>5. ASSUME NEW x \in Axes, Now(x)' PROVE Now(x)
    <3>1. CASE UNCHANGED queue
      BY <1>1, <2>5, <3>1, SameMotions
    <3>2. CASE \E commands : Sendable(commands) /\ Issue(p, commands)
      BY <1>1, <2>5, <3>2, SentOrNot
    <3>3. QED
      BY <2>2, <2>3, <2>4, <3>1, <3>2
  <2>6. OnlyOf(p) /\ pc'[p] \notin {"stop", "abort"}
    <3>1. \A q \in Pads \ {p} : motion'[q] = motion[q] /\ (holder = q => holder' = q)
      BY <1>3, <2>2, Parts DEF PadsInv, PadTypes
    <3>2. CASE \E commands : \E s \in {"rate stop", "move", "rate"} : Issue(p, commands) /\ At(p, s)
      <4>1. PICK commands : \E s \in {"rate stop", "move", "rate"} : Issue(p, commands) /\ At(p, s)
        BY <3>2
      <4>2. PICK s \in {"rate stop", "move", "rate"} : Issue(p, commands) /\ At(p, s)
        BY <4>1
      <4>3. /\ \A b \in Actors \ {p} : /\ call'[b] = call[b] /\ todo'[b] = todo[b]
                                       /\ answer'[b] = answer[b] /\ pc'[b] = pc[b]
            /\ pc'[p] = s
        BY <4>2, CallsOnly
      <4>4. QED
        BY <1>1, <3>1, <4>3 DEF OnlyOf
    <3>3. CASE UNCHANGED <<calls, pc>>
      BY <1>1, <3>1, <3>3 DEF OnlyOf, calls
    <3>4. (IF rate THEN "rate stop" ELSE "move") \in {"rate stop", "move", "rate"}
      OBVIOUS
    <3>5. CASE Issue(p, calls0) /\ At(p, IF rate THEN "rate stop" ELSE "move")
      BY <3>2, <3>4, <3>5
    <3>6. CASE Issue(p, <<Command(p, "rate", Still)>>) /\ At(p, "rate")
      BY <3>2, <3>6
    <3>7. QED
      BY <2>2, <3>3, <3>5, <3>6
  <2>7. QED
    BY <1>1, <1>3, <2>1, <2>5, <2>6, GoesOnWatch
<1>4. QED
  BY <1>2, <1>3

LEMMA LetGoWatch == ASSUME CallsInv, WatchInv, NEW p \in Pads, LetGo(p) PROVE WatchInv'
<1> USE NamesDiffer
<1>1. pc[p] = "rest" /\ UNCHANGED <<axis, ready, orphan, warned>>
  BY DEF LetGo, ghosts
<1>2. CASE Active(p) /\ ready
  <2>1. Issue(p, StopCalls(p)) /\ At(p, "stop") /\ UNCHANGED <<motion, holder>>
    BY <1>2 DEF LetGo
  <2>2. Active(p)'
    BY <1>2, <2>1 DEF Active, Moving
  <2>3. QED
    BY <1>1, <1>2, <2>1, <2>2, StopsWatch
<1>3. CASE ~(Active(p) /\ ready)
  <2>1. /\ Drop(p) /\ UNCHANGED pc /\ motion' = [motion EXCEPT ![p] = STOPPED]
        /\ holder' = Released(p)
    BY <1>3 DEF LetGo
  <2>2. OnlyOf(p)
    <3>1. \A q \in Pads \ {p} : motion'[q] = motion[q] /\ (holder = q => holder' = q)
      BY <2>1, Parts DEF Released, PadsInv, PadTypes
    <3>2. QED
      BY <1>1, <2>1, <3>1, Parts DEF OnlyOf, Drop, Calls
  <2>3. UNCHANGED queue
    BY <2>1 DEF Drop
  <2>4. holder = p => ~ready
    BY <1>3 DEF Active
  <2>5. QED
    BY <1>1, <2>1, <2>2, <2>3, <2>4, NobodyAttends, EndsWatch
<1>4. QED
  BY <1>2, <1>3

LEMMA SilenceWatch == ASSUME CallsInv, WatchInv, NEW p \in Pads, Silence(p) PROVE WatchInv'
<1>1. pc[p] = "rest" /\ Stop(p, TRUE) /\ UNCHANGED <<axis, ready, orphan, warned>>
  BY DEF Silence, ghosts
<1>2. QED
  BY <1>1, NamesDiffer, NobodyAttends, StopWatch

LEMMA MoveFailsWatch == ASSUME CallsInv, WatchInv, NEW p \in Pads, MoveFails(p) PROVE WatchInv'
<1>1. /\ pc[p] \in {"rate stop", "rate", "move"} /\ Bad(p) /\ Stop(p, TRUE)
      /\ UNCHANGED <<axis, ready, warned>> /\ orphan' = (orphan \/ Leaves(p))
  BY DEF MoveFails
<1>2. ASSUME NEW x \in Axes, Attends(p, x), ~(Active(p) /\ ready)
      PROVE  orphan' \/ (~ready /\ holder \notin Pads \ {p})
  <2>1. pc[p] # "rate"
    BY <1>2, NamesDiffer, NobodyAttends
  <2>2. CASE ~Active(p)
    BY <1>1, <2>1, <2>2 DEF Leaves
  <2>3. CASE Active(p)
    <3>1. holder = p
      BY <1>1, <2>3, Parts DEF PadsInv, PadOf, Active, Moving
    <3>2. QED
      BY <1>2, <2>3, <3>1
  <2>4. QED
    BY <2>2, <2>3
<1>3. orphan => orphan'
  BY <1>1
<1>4. QED
  BY <1>1, <1>2, <1>3, StopWatch

LEMMA GoneWatch == ASSUME CallsInv, WatchInv, NEW p \in Pads, Gone(p) PROVE WatchInv'
<1>1. /\ Stop(p, TRUE) /\ UNCHANGED <<axis, ready, warned>> /\ orphan' = (orphan \/ Leaves(p))
  BY DEF Gone
<1>2. ASSUME NEW x \in Axes, Attends(p, x), ~(Active(p) /\ ready)
      PROVE  orphan' \/ (~ready /\ holder \notin Pads \ {p})
  <2>1. pc[p] = "move" \/ (pc[p] \in {"rate stop", "stop", "abort"} /\ Bad(p)) \/ (pc[p] = "stop" /\ Active(p))
    BY <1>2 DEF Attends, Upset, Stopping
  <2>2. CASE ~Active(p)
    BY <1>1, <2>1, <2>2 DEF Leaves
  <2>3. CASE Active(p) /\ pc[p] \in {"rate stop", "move"}
    <3>1. holder = p
      BY <2>3, Parts DEF PadsInv, PadOf, Active, Moving
    <3>2. QED
      BY <1>2, <2>3, <3>1
  <2>4. CASE Active(p) /\ pc[p] \in {"stop", "abort"}
    BY <1>1, <1>2, <2>4 DEF Leaves
  <2>5. QED
    BY <2>1, <2>2, <2>3, <2>4
<1>3. orphan => orphan'
  BY <1>1
<1>4. QED
  BY <1>1, <1>2, <1>3, StopWatch

LEMMA StopEndsWatch == ASSUME CallsInv, WatchInv, NEW p \in Pads, StopEnds(p) PROVE WatchInv'
<1> USE NamesDiffer
<1>1. /\ (pc[p] = "stop" /\ Ok(p)) \/ (pc[p] = "abort" /\ Answered(p))
      /\ warned' = (warned \/ Bad(p)) /\ Stopped(p, latching[p] \/ Bad(p))
      /\ UNCHANGED <<axis, ready, orphan>>
  BY DEF StopEnds
<1>2. warned => warned'
  BY <1>1
<1>3. OnlyOf(p)
  <2>1. \A q \in Pads \ {p} : motion'[q] = motion[q] /\ (holder = q => holder' = q)
    BY <1>1, Parts DEF Stopped, Released, PadsInv, PadTypes
  <2>2. \A b \in Actors \ {p} : /\ call'[b] = call[b] /\ todo'[b] = todo[b]
                                /\ answer'[b] = answer[b] /\ pc'[b] = pc[b]
    BY <1>1, CallsOnly DEF Stopped
  <2>3. QED
    BY <1>1, <1>2, <2>1, <2>2 DEF OnlyOf
<1>4. ASSUME NEW x \in Axes, Attends(p, x) PROVE warned'
  <2>1. CASE pc[p] = "stop" /\ Ok(p)
    BY <1>4, <2>1 DEF Attends, Upset, Stopping, Ok, Bad
  <2>2. CASE pc[p] = "abort"
    BY <1>1, <1>4, <2>2 DEF Attends, Upset, Stopping
  <2>3. QED
    BY <1>1, <2>1, <2>2
<1>5. UNCHANGED queue /\ holder' = Released(p) /\ pc[p] \in {"stop", "abort"}
  BY <1>1 DEF Stopped, Drop
<1>6. QED
  BY <1>1, <1>3, <1>4, <1>5, EndsWatch

LEMMA SetRateWatch == ASSUME CallsInv, WatchInv, NEW p \in Pads, SetRate(p) PROVE WatchInv'
<1> USE NamesDiffer
<1> DEFINE rates == <<Command(p, "rate", Still)>>
<1>1. /\ pc[p] = "rate stop" /\ Ok(p) /\ Issue(p, rates) /\ At(p, "rate")
      /\ motion' = [motion EXCEPT ![p] = STOPPED]
      /\ UNCHANGED <<axis, ready, holder, orphan, warned>>
  BY DEF SetRate, ghosts
<1>2. Sendable(rates) /\ Head(rates).prop = "rate"
  BY CommandTypes, OneCommand
<1> HIDE DEF rates
<1>3. OnlyOf(p) /\ pc'[p] = "rate"
  <2>1. \A q \in Pads \ {p} : motion'[q] = motion[q] /\ (holder = q => holder' = q)
    BY <1>1, Parts DEF PadsInv, PadTypes
  <2>2. QED
    BY <1>1, <2>1, CallsOnly DEF OnlyOf
<1>4. ASSUME NEW x \in Axes PROVE (Late(x)' => Late(x)) /\ (Now(x)' => Now(x)) /\ ~Attends(p, x)
  <2>1. ~Starts(Head(rates), x)
    BY <1>2 DEF Starts, Axes
  <2>2. ~Attends(p, x)
    BY <1>1 DEF Attends, Upset, Stopping, Ok, Bad
  <2>3. QED
    BY <1>1, <1>2, <2>1, <2>2, SentOrNot
<1>5. QED
  BY <1>1, <1>3, <1>4, GoesOnWatch

\* The end of a move: the pad rests holding the mount, or stops, for it was interrupted.
LEMMA MovedWatch ==
  ASSUME CallsInv, CallsInv', WatchInv, NEW p \in Pads, pc[p] \in {"rate", "move"}, Moved(p),
         UNCHANGED <<axis, ready, orphan, warned>>
  PROVE  WatchInv'
<1> USE NamesDiffer
<1>1. want[p] # STOPPED /\ (holder = p \/ latched[p]) /\ motion' = [motion EXCEPT ![p] = want[p]]
  BY Parts DEF PadsInv, PadOf, Moved
<1>2. CASE latched[p]
  <2>1. Issue(p, StopCalls(p)) /\ At(p, "stop")
    BY <1>2 DEF Moved
  <2>2. CASE ready
    <3>1. Active(p)'
      BY <1>1, Parts DEF PadsInv, PadTypes, Active, Moving
    <3>2. QED
      BY <2>1, <2>2, <3>1, StopsWatch
  <2>3. CASE ~ready
    BY <2>1, <2>3, StopCallsAre, RefusedWatch
  <2>4. QED
    BY <2>2, <2>3
<1>3. CASE ~latched[p]
  <2>1. Drop(p) /\ At(p, "rest") /\ UNCHANGED holder /\ holder = p
    BY <1>1, <1>3 DEF Moved
  <2>2. OnlyOf(p) /\ pc'[p] = "rest"
    <3>1. \A q \in Pads \ {p} : motion'[q] = motion[q] /\ (holder = q => holder' = q)
      BY <1>1, <2>1, Parts DEF PadsInv, PadTypes
    <3>2. QED
      BY <2>1, <3>1, CallsOnly DEF OnlyOf
  <2>3. UNCHANGED queue
    BY <2>1 DEF Drop
  <2>4. QED
    BY <2>1, <2>2, <2>3, SameMotions, GoesOnWatch
<1>4. QED
  BY <1>2, <1>3

LEMMA RateSetWatch ==
  ASSUME CallsInv, CallsInv', WatchInv, NEW p \in Pads, RateSet(p) PROVE WatchInv'
<1> USE NamesDiffer
<1> DEFINE moves == MoveCalls(p, want[p])
<1>1. pc[p] = "rate" /\ Ok(p) /\ UNCHANGED <<axis, ready, orphan, warned>>
  BY DEF RateSet, ghosts
<1>2. CASE moves # <<>> /\ Issue(p, moves) /\ At(p, "move") /\ UNCHANGED <<motion, holder>>
  <2>1. Sendable(moves)
    <3>1. want[p] \in Motions
      BY Parts DEF PadsInv, PadTypes
    <3>2. QED
      BY <1>2, <3>1, MoveCallsAre DEF MovesOnly, Sendable
  <2> HIDE DEF moves
  <2>2. OnlyOf(p) /\ pc'[p] = "move"
    BY <1>1, <1>2, CallsOnly DEF OnlyOf
  <2>3. ASSUME NEW x \in Axes PROVE Watched(x)' /\ (Now(x)' => Now(x))
    BY <1>1, <1>2, <2>1, <2>2, SentOrNot DEF Watched, Attends
  <2>4. QED
    BY <2>3, AllWatched
<1>3. CASE Moved(p)
  BY <1>1, <1>3, MovedWatch
<1>4. QED
  BY <1>2, <1>3 DEF RateSet

LEMMA MoveEndsWatch ==
  ASSUME CallsInv, CallsInv', WatchInv, NEW p \in Pads, MoveEnds(p) PROVE WatchInv'
BY MovedWatch DEF MoveEnds, ghosts

LEMMA StopFailsWatch ==
  ASSUME CallsInv, CallsInv', WatchInv, NEW p \in Pads, StopFails(p) PROVE WatchInv'
BY NamesDiffer, AbortsWatch DEF StopFails

LEMMA OverrunWatch == ASSUME CallsInv, WatchInv, NEW p \in Pads, Overrun(p) PROVE WatchInv'
<1> USE NamesDiffer
<1>1. /\ Drop(p) /\ At(p, "closed") /\ motion' = [motion EXCEPT ![p] = STOPPED]
      /\ orphan' = (orphan \/ holder # p) /\ UNCHANGED <<axis, ready, holder, warned>>
  BY DEF Overrun
<1>2. (orphan => orphan') /\ (holder # p => orphan')
  BY <1>1
<1>3. OnlyOf(p) /\ pc'[p] = "closed"
  <2>1. \A q \in Pads \ {p} : motion'[q] = motion[q] /\ (holder = q => holder' = q)
    BY <1>1, Parts DEF PadsInv, PadTypes
  <2>2. QED
    BY <1>1, <1>2, <2>1, CallsOnly DEF OnlyOf
<1>4. UNCHANGED queue
  BY <1>1 DEF Drop
<1>5. \A x \in Axes : Watched(x)' \/ holder' = p
  BY <1>1, <1>2 DEF Watched
<1>6. QED
  BY <1>1, <1>3, <1>4, <1>5, SameMotions, GoesOnWatch

LEMMA OpensWatch == ASSUME CallsInv, WatchInv, NEW p \in Pads, Opens(p) PROVE WatchInv'
<1> USE NamesDiffer
<1>1. /\ pc[p] = "closed" /\ At(p, "rest") /\ motion' = [motion EXCEPT ![p] = STOPPED]
      /\ UNCHANGED <<axis, queue, ready, holder, call, todo, answer, orphan, warned>>
  BY DEF Opens, driver, calls, ghosts
<1>2. OnlyOf(p) /\ pc'[p] = "rest"
  BY <1>1, Parts DEF OnlyOf, At, Calls, PadsInv, PadTypes
<1>3. \A x \in Axes : ~Attends(p, x)
  BY <1>1, NobodyAttends
<1>4. QED
  BY <1>1, <1>2, <1>3, SameMotions, GoesOnWatch

LEMMA SameWatch ==
  ASSUME WatchInv, UNCHANGED <<axis, queue, ready, holder, calls, pc, motion, ghosts>>
  PROVE  WatchInv'
BY DEF WatchInv, MovesWatched, ReleasesWatched, Held, Now, Late, Starts, Ends, Watched, Attends,
   Upset, Bad, Stopping, Active, Moving, calls, ghosts

----------------------------------------------------------------------------
(* The calls, the job and the mount role *)

LEMMA NextCommandWatch ==
  ASSUME CallsInv, CallsInv', WatchInv, NEW a \in Actors, NextCommand(a) PROVE WatchInv'
<1> USE NamesDiffer
<1> DEFINE c == Head(todo[a])
<1>1. /\ call[a] # NoCall /\ answer[a] = "ok" /\ todo[a] # <<>> /\ Issue(a, todo[a])
      /\ UNCHANGED <<axis, ready, holder, pc, motion, orphan, warned>>
  BY DEF NextCommand, pads, ghosts
<1>2. /\ Sendable(todo[a]) /\ pc[a] \in {"rate stop", "stop", "move"} /\ At(a, pc[a])
      /\ pc[a] = "stop" \/ pc[a] = "rate stop" => IsStop(c)
  <2>1. PhaseOf(a) /\ pc[a] \in Places /\ todo[a] \in Seq(Commands) /\ pc \in [Actors -> Places]
    BY Parts DEF Calls
  <2>2. c = todo[a][1] /\ 1 \in 1..Len(todo[a])
    BY <1>1, <2>1, HeadAndTail
  <2>3. QED
    BY <1>1, <2>1, <2>2 DEF Sendable, PhaseOf, Places, At
<1>3. CASE ~ready
  BY <1>1, <1>2, <1>3, RefusedWatch
<1>4. CASE pc[a] = "move"
  <2>1. \A x \in Axes : Watched(x)'
    BY <1>1, <1>4 DEF Watched, Attends
  <2>2. QED
    BY <2>1, AllWatched
<1>5. CASE ready /\ pc[a] \in {"rate stop", "stop"}
  <2>1. OnlyOf(a)
    BY <1>1, <1>2, CallsOnly DEF OnlyOf
  <2>2. ASSUME NEW x \in Axes
        PROVE  /\ (Late(x)' => Late(x)) /\ (Now(x)' => Now(x))
               /\ (Late(x)' \/ Now(x)') /\ Attends(a, x) => Watched(x)'
    <3>1. ~Starts(c, x)
      BY <1>2, <1>5 DEF IsStop, Starts
    <3>2. ASSUME Late(x)' \/ Now(x)', Attends(a, x) PROVE Stopping(a, x)'
      <4>1. Stopping(a, x) /\ pc[a] = "stop"
        BY <1>1, <1>5, <3>2 DEF Attends, Upset, Bad, Stopping
      <4>2. PICK i \in 1..Len(todo[a]) : Ends(todo[a][i], x)
        BY <4>1 DEF Stopping
      <4>3. ~Ends(c, x)
        BY <1>1, <1>2, <1>5, <3>2, SentOrNot
      <4>4. /\ todo[a] \in Seq(Commands) /\ Len(todo[a]) \in Nat /\ c = todo[a][1]
            /\ Len(Tail(todo[a])) = Len(todo[a]) - 1
            /\ \A j \in 1..Len(Tail(todo[a])) : Tail(todo[a])[j] = todo[a][j + 1]
        <5>1. todo[a] \in Seq(Commands)
          BY <1>2 DEF Sendable
        <5>2. c = todo[a][1]
          BY <1>1, <5>1, HeadAndTail
        <5>3. /\ Len(Tail(todo[a])) = Len(todo[a]) - 1
              /\ \A j \in 1..Len(Tail(todo[a])) : Tail(todo[a])[j] = todo[a][j + 1]
          BY <1>1, <5>1, HeadTailProperties
        <5>4. QED
          BY <5>1, <5>2, <5>3
      <4>5. i # 1
        BY <4>2, <4>3, <4>4
      <4>6. i - 1 \in 1..Len(Tail(todo[a])) /\ (i - 1) + 1 = i
        BY <4>2, <4>4, <4>5
      <4>7. Ends(Tail(todo[a])[i - 1], x)
        BY <4>2, <4>4, <4>6
      <4>8. todo'[a] = Tail(todo[a]) /\ pc'[a] = "stop"
        BY <1>1, <4>1, IssuedCall
      <4>9. a \in Pads => Active(a)'
        BY <1>1, <4>1 DEF Stopping, Active, Moving
      <4>10. \E j \in 1..Len(todo'[a]) : Ends(todo'[a][j], x)
        BY <4>6, <4>7, <4>8
      <4>11. QED
        BY <4>8, <4>9, <4>10 DEF Stopping, Ends
    <3>3. QED
      BY <1>1, <1>2, <3>1, <3>2, SentOrNot DEF Watched, Attends
  <2>3. QED
    BY <1>1, <1>5, <2>1, <2>2, KeepsWatch
<1>6. QED
  BY <1>2, <1>3, <1>4, <1>5

LEMMA JobWatch ==
  ASSUME CallsInv, CallsInv', WatchInv, JobStarts \/ JobEnds \/ JobCancelled PROVE WatchInv'
<1> USE NamesDiffer
<1>1. CASE JobStarts
  <2> DEFINE slews == <<Command("job", "slew", Still)>>
  <2>1. /\ pc["job"] = "rest" /\ holder = "nobody" /\ holder' = "job"
        /\ Issue("job", slews) /\ At("job", "slew")
        /\ UNCHANGED <<axis, ready, motion, orphan, warned>>
    BY <1>1 DEF JobStarts, pads, ghosts
  <2>2. Sendable(slews) /\ Head(slews).prop = "slew"
    BY CommandTypes, OneCommand
  <2> HIDE DEF slews
  <2>3. OnlyOf("job")
    BY <2>1, CallsOnly DEF OnlyOf
  <2>4. ASSUME NEW x \in Axes PROVE (Late(x)' => Late(x)) /\ (Now(x)' => Now(x)) /\ ~Attends("job", x)
    <3>1. ~Starts(Head(slews), x)
      BY <2>2 DEF Starts, Axes
    <3>2. QED
      BY <2>1, <2>2, <3>1, SentOrNot, NobodyAttends
  <2>5. QED
    BY <2>1, <2>3, <2>4, KeepsWatch
<1>2. ASSUME Drop("job"), At("job", "rest"), holder' = "nobody", holder = "job",
             UNCHANGED <<axis, ready, motion>>, orphan => orphan', warned => warned',
             pc["job"] = "abort" /\ Bad("job") => orphan' \/ warned', pc["job"] \in {"slew", "abort"}
      PROVE  WatchInv'
  <2>1. OnlyOf("job")
    BY <1>2, CallsOnly DEF OnlyOf
  <2>2. ASSUME NEW x \in Axes, Attends("job", x) PROVE Watched(x)'
    BY <1>2, <2>2 DEF Attends, Upset, Stopping, Watched
  <2>3. UNCHANGED queue
    BY <1>2 DEF Drop
  <2>4. QED
    BY <1>2, <2>1, <2>2, <2>3, SameMotions, KeepsWatch
<1>3. CASE JobEnds
  <2>1. /\ Drop("job") /\ At("job", "rest") /\ holder' = "nobody" /\ pc["job"] \in {"slew", "abort"}
        /\ UNCHANGED <<axis, ready, motion, orphan>>
        /\ warned' = (warned \/ (pc["job"] = "abort" /\ Bad("job")))
    BY <1>3 DEF JobEnds, pads
  <2>2. (warned => warned') /\ (pc["job"] = "abort" /\ Bad("job") => warned')
    BY <2>1
  <2>3. holder = "job"
    BY <2>1, Parts DEF PadsInv, JobHolds
  <2>4. QED
    BY <1>2, <2>1, <2>2, <2>3
<1>4. CASE JobCancelled
  <2>1. holder = "job" /\ UNCHANGED <<axis, ready, motion, warned>>
    BY <1>4 DEF JobCancelled, pads
  <2>2. CASE Issue("job", <<Command("job", "abort", Still)>>) /\ At("job", "abort")
    BY <2>2, AbortsWatch
  <2>3. CASE /\ pc["job"] = "abort" /\ Drop("job") /\ At("job", "rest") /\ holder' = "nobody"
             /\ orphan' = (orphan \/ Bad("job"))
    <3>1. (orphan => orphan') /\ (Bad("job") => orphan')
      BY <2>3
    <3>2. QED
      BY <1>2, <2>1, <2>3, <3>1
  <2>4. QED
    BY <1>4, <2>2, <2>3 DEF JobCancelled
<1>5. QED
  BY <1>1, <1>3, <1>4

LEMMA AbortWatch == ASSUME CallsInv, Abort PROVE WatchInv'
<1> DEFINE e == Command("abort", "abort", Still)
           j == Command("job", "abort", Still)
<1>1. /\ e \in Commands /\ e.prop = "abort" /\ j \in Commands /\ j.prop = "abort"
      /\ queue \in Seq(Commands)
  <2>1. "abort" \in Actors \cup {"abort"} /\ "job" \in Actors \cup {"abort"}
    BY NamesDiffer
  <2>2. e \in Commands /\ e.prop = "abort" /\ j \in Commands /\ j.prop = "abort"
    BY <2>1 DEF Command, Commands
  <2>3. QED
    BY <2>2, Parts DEF Calls
<1>2. queue' = queue \o <<e, j>> \/ queue' = Append(queue, e)
  BY DEF Abort
<1> HIDE DEF e, j
<1>3. queue \o <<e, j>> = Append(Append(queue, e), j) /\ Append(queue, e) \in Seq(Commands)
  BY <1>1
<1>4. \A x \in Axes : ~Late(x)' /\ ~Now(x)'
  BY <1>1, <1>2, <1>3, EndedMotions
<1>5. QED
  BY <1>4, AllWatched

LEMMA ReadyWatch == ASSUME CallsInv, WatchInv, Ready PROVE WatchInv'
<1> USE NamesDiffer
<1>1. /\ pc["ready"] = "rest" /\ queue = <<>> /\ At("ready", "created")
      /\ UNCHANGED <<axis, queue, holder, call, todo, answer, motion, orphan, warned>>
  BY DEF Ready, driver, calls, pads, ghosts
<1>2. OnlyOf("ready") /\ pc'["ready"] = "created"
  BY <1>1, Parts DEF OnlyOf, At, Calls
<1>3. ASSUME NEW x \in Axes, Watched(x) PROVE Watched(x)'
  BY <1>1, <1>2, <1>3, OthersAttend, NobodyAttends
<1>4. \A x \in Axes : ~Late(x)'
  BY <1>1 DEF Late
<1>5. MovesWatched'
  BY <1>2, <1>4 DEF MovesWatched
<1>6. ReleasesWatched'
  <2>1. Held <=> Held'
    BY <1>1, <1>2 DEF Held, OnlyOf
  <2>2. QED
    BY <1>1, <1>3, <2>1, SameMotions DEF WatchInv, ReleasesWatched
<1>7. QED
  BY <1>5, <1>6 DEF WatchInv

LEMMA OnReadyWatch == ASSUME CallsInv, WatchInv, OnReady PROVE WatchInv'
<1> USE NamesDiffer
<1>1. pc["ready"] = "created" /\ UNCHANGED <<axis, ready, holder, motion, orphan, warned>>
  BY DEF OnReady, pads, ghosts
<1>2. CASE ready /\ Moving(axis) /\ holder \notin Pads
  <2>1. Issue("ready", StopCalls("ready")) /\ At("ready", "stop")
    BY <1>2 DEF OnReady
  <2>2. QED
    BY <1>1, <1>2, <2>1, StopsWatch
<1>3. CASE ~(ready /\ Moving(axis) /\ holder \notin Pads)
  <2>1. Drop("ready") /\ At("ready", "rest") /\ UNCHANGED queue
    BY <1>3 DEF OnReady, Drop
  <2>2. OnlyOf("ready")
    BY <1>1, <2>1, CallsOnly DEF OnlyOf
  <2>3. ASSUME NEW x \in Axes, Watched(x) PROVE Watched(x)'
    BY <1>1, <2>2, <2>3, OthersAttend, NobodyAttends
  <2>4. \A x \in Axes : (Late(x)' <=> Late(x)) /\ (Now(x)' <=> Now(x))
    BY <1>1, <2>1, SameMotions
  <2>5. Held <=> Held'
    BY <1>1, <2>2 DEF Held, OnlyOf
  <2>6. ReleasesWatched'
    BY <1>1, <2>3, <2>4, <2>5 DEF WatchInv, ReleasesWatched
  <2>7. MovesWatched'
    <3>1. CASE ~ready
      BY <1>1, <3>1 DEF MovesWatched
    <3>2. CASE ready /\ ~Moving(axis)
      <4>1. \A x \in Axes : ~Now(x)
        BY <3>2 DEF Moving, STOPPED, Now
      <4>2. QED
        BY <1>1, <2>3, <2>4, <2>5, <3>2, <4>1 DEF WatchInv, MovesWatched
    <3>3. CASE holder \in Pads
      BY <1>1, <2>3, <2>4, <2>5, <3>3 DEF WatchInv, ReleasesWatched, MovesWatched
    <3>4. QED
      BY <1>3, <3>1, <3>2, <3>3
  <2>8. QED
    BY <2>6, <2>7 DEF WatchInv
<1>4. QED
  BY <1>2, <1>3

LEMMA OnReadyStopsWatch == ASSUME CallsInv, CallsInv', WatchInv, OnReadyStops PROVE WatchInv'
<1> USE NamesDiffer
<1>1. UNCHANGED <<axis, ready, holder, motion, orphan>>
  BY DEF OnReadyStops, pads
<1>2. CASE Issue("ready", <<Command("ready", "abort", Still)>>) /\ At("ready", "abort")
  BY <1>1, <1>2, AbortsWatch
<1>3. CASE /\ \/ pc["ready"] = "stop" /\ Ok("ready")
              \/ pc["ready"] = "abort" /\ Answered("ready")
           /\ Drop("ready") /\ At("ready", "rest")
           /\ warned' = (warned \/ Bad("ready"))
  <2>1. (warned => warned') /\ (Bad("ready") => warned')
    BY <1>3
  <2>2. OnlyOf("ready")
    BY <1>1, <1>3, <2>1, CallsOnly DEF OnlyOf
  <2>3. ASSUME NEW x \in Axes, Attends("ready", x) PROVE Watched(x)'
    <3>1. CASE pc["ready"] = "stop" /\ Ok("ready")
      BY <2>3, <3>1 DEF Attends, Upset, Stopping, Ok, Bad
    <3>2. CASE pc["ready"] = "abort"
      BY <2>1, <2>3, <3>2 DEF Attends, Upset, Stopping, Watched
    <3>3. QED
      BY <1>3, <3>1, <3>2
  <2>4. UNCHANGED queue /\ pc["ready"] # "created"
    BY <1>3 DEF Drop
  <2>5. QED
    BY <1>1, <2>2, <2>3, <2>4, SameMotions, KeepsWatch
<1>4. QED
  BY <1>2, <1>3 DEF OnReadyStops

LEMMA WatchInit == Init => WatchInv
BY NamesDiffer DEF Init, WatchInv, MovesWatched, ReleasesWatched

LEMMA WatchStep == CallsInv /\ CallsInv' /\ WatchInv /\ [Next]_vars => WatchInv'
<1> SUFFICES ASSUME CallsInv, CallsInv', WatchInv, [Next]_vars PROVE WatchInv'
  OBVIOUS
<1>1. ASSUME NEW p \in Pads, NEW m \in Wanted, NEW rate \in BOOLEAN, Hold(p, m, rate) PROVE WatchInv'
  BY <1>1, HoldWatch
<1>2. ASSUME NEW p \in Pads, LetGo(p) \/ Silence(p) \/ Handles(p) PROVE WatchInv'
  BY <1>2, LetGoWatch, SilenceWatch, SetRateWatch, RateSetWatch, MoveEndsWatch, MoveFailsWatch,
     StopEndsWatch, StopFailsWatch DEF Handles
<1>3. ASSUME NEW p \in Pads, Gone(p) \/ Overrun(p) \/ Opens(p) PROVE WatchInv'
  BY <1>3, GoneWatch, OverrunWatch, OpensWatch
<1>4. ASSUME NEW p \in Pads, Vanishes(p) PROVE WatchInv'
  BY <1>4, SameWatch DEF Vanishes, driver
<1>5. ASSUME NEW a \in Actors, NextCommand(a) \/ TimesOut(a) PROVE WatchInv'
  BY <1>5, NextCommandWatch, WaitsWatch
<1>6. CASE DriverActs \/ DriverRefuses \/ SlewEnds \/ SlewTimesOut
  BY <1>6, DriverActsWatch, DriverRefusesWatch, WaitsWatch
<1>7. CASE JobStarts \/ JobCancelled \/ Abort \/ Service \/ Lost \/ Ready
  BY <1>7, JobWatch, AbortWatch, OnReadyWatch, OnReadyStopsWatch, LostWatch, ReadyWatch DEF Service
<1>8. CASE UNCHANGED vars
  BY <1>8, SameWatch DEF vars, driver, pads
<1>9. QED
  BY <1>1, <1>2, <1>3, <1>4, <1>5, <1>6, <1>7, <1>8 DEF Next

\* A mount that moves by hand, with nothing on its way to it and all of nocsd at rest, is held
\* by a pad, or somebody was told, or it is one of the ways out that the model marks (orphan):
\* an interrupted pad whose own command then failed, a stop without effect whose sender no
\* longer waited, a mount nocsd has not come to yet.  Whatever the order of moves, stops,
\* aborts, answers and losses.
THEOREM NothingLeftMoving == Spec => []NeverLeftMoving
<1>1. CallsInv /\ WatchInv => NeverLeftMoving
  <2> SUFFICES ASSUME CallsInv, WatchInv, Moving(axis), queue = <<>>, ready,
                      \A a \in Actors : AtRest(a)
               PROVE  holder \in Pads \/ orphan \/ warned
    BY DEF NeverLeftMoving
  <2>1. PICK x \in Axes : axis[x] # Still
    <3>1. axis \in [Axes -> Dirs \cup {Still}]
      BY Parts DEF Rest, Motions
    <3>2. QED
      BY <3>1 DEF Moving, STOPPED
  <2>2. Now(x)
    BY <2>1 DEF Now
  <2>3. \A a \in Actors : ~Attends(a, x)
    BY DEF AtRest, Attends, Upset, Stopping
  <2>4. pc["ready"] # "created"
    BY NamesDiffer DEF AtRest
  <2>5. QED
    BY <2>2, <2>3, <2>4 DEF WatchInv, MovesWatched, Watched, Held
<1>2. Spec => []WatchInv
  <2>1. CallsInv /\ CallsInv' /\ WatchInv /\ [Next]_vars => WatchInv'
    BY WatchStep
  <2>2. QED
    BY CallsAlways, WatchInit, <2>1, PTL DEF Spec
<1>3. QED
  BY <1>1, <1>2, CallsAlways, PTL
=============================================================================
