-------------------------- MODULE StateSync_proofs --------------------------
(***************************************************************************)
(* Theorems about StateSync, for any keys, values and changes, any sizes of *)
(* the history, the queue and the wire, and any number of commits, restarts *)
(* and broken connections.                                                  *)
(*                                                                          *)
(* The proof is in two layers.  Right: what a patch sets, the server had at *)
(* the version it names or has had since, and what it leaves alone did not  *)
(* change with that version, whatever the order patches come in.  Order: what is    *)
(* under way starts where the client is and leads to the present.           *)
(***************************************************************************)
EXTENDS StateSync, SequenceTheorems, TLAPS

----------------------------------------------------------------------------
(* The inductive invariant: the values *)

\* The key k had the value x at the version v or after it.
Had(v, k, x) == \E u \in v..version : past[u + 1][k] = x

\* A patch that waits may have been written by later commits: what it sets, the server had
\* from its version on; what it does not, its version did not change.
RightPatches ==
  {m \in PatchMessages :
     /\ m.version <= version
     /\ \A k \in Keys : IF k \in DOMAIN m.body
                       THEN Had(m.version, k, m.body[k])
                       ELSE past[m.version + 1][k] = past[m.version][k]}

RightSnapshots ==
  {m \in Snapshots : /\ m.epoch = epoch /\ m.version <= version
                     /\ m.body = past[m.version + 1]}

\* Every message is right about the version it names, in that sense; a snapshot exactly.
Right ==
  /\ history \in Seq(RightPatches)
  /\ missed \in Seq(RightPatches)
  /\ queue \in Seq(RightPatches \cup {Resync})
  /\ wire \in Seq(RightPatches \cup RightSnapshots)

\* The client has heard of no later server than this one.
KnownEpoch == cepoch = None \/ cepoch \in 0..epoch

ValuesRight == TypeOK /\ Right /\ KnownEpoch /\ ShowsBetween

----------------------------------------------------------------------------
(* The inductive invariant: the versions *)

\* The history and the queue end with the present version, and skip none; only the
\* head of the queue may say that patches are gone.
Consecutive ==
  /\ \A i \in 1..Len(history) : history[i].version = version - (Len(history) - i)
  /\ \A i \in 1..Len(queue) :
       \/ queue[i].version = version - (Len(queue) - i) /\ queue[i].kind = "patch"
       \/ i = 1 /\ queue[i] = Resync

\* The version sent last is the client's once the wire is empty.
WireLeadsToLast ==
  /\ wire # <<>> => Expected(wire[1]) /\ last = wire[Len(wire)].version
  /\ \A i \in 2..Len(wire) :
       wire[i].kind = "snapshot" \/ wire[i].version = wire[i - 1].version + 1
  /\ conn = "streaming" /\ wire = <<>> => last = cversion

\* From there the missed patches and the queue lead to the present.
RestLeadsToPresent ==
  /\ \A i \in 1..Len(missed) : missed[i].version = last + i
  /\ last + Len(missed) <= version
  /\ conn = "streaming" =>
       \/ queue # <<>> /\ queue[1] = Resync
       \/ version - Len(queue) <= last + Len(missed)

\* The client's state is of this server, or a snapshot is under way.
SameServer ==
  /\ conn \in {"subscribed", "streaming"} /\ resume => cepoch = epoch
  /\ conn = "streaming" =>
       cepoch = epoch \/ \E i \in 1..Len(wire) : wire[i].kind = "snapshot"

Idle ==
  /\ conn # "streaming" => wire = <<>> /\ missed = <<>> /\ last = 0
  /\ conn \in {"off", "hello"} => queue = <<>>

Order ==
  Consecutive /\ WireLeadsToLast /\ RestLeadsToPresent /\ SameServer /\ Idle

----------------------------------------------------------------------------
(* Lemmas *)

\* The last n of a sequence: how many there are, and which.
LEMMA LastOfFacts ==
  ASSUME NEW S, NEW s \in Seq(S), NEW n \in Nat
  PROVE  /\ LastOf(s, n) \in Seq(S)
         /\ Len(LastOf(s, n)) = IF Len(s) <= n THEN Len(s) ELSE n
         /\ \A i \in 1..Len(LastOf(s, n)) :
              LastOf(s, n)[i] = s[Len(s) - Len(LastOf(s, n)) + i]
<1>1. Len(s) \in Nat /\ \A i \in 1..Len(s) : s[i] \in S
  BY ElementOfSeq, LenProperties
<1>2. CASE Len(s) <= n
  BY <1>1, <1>2 DEF LastOf
<1>3. CASE Len(s) > n
  <2>1. LastOf(s, n) = SubSeq(s, Len(s) - n + 1, Len(s))
    BY <1>1, <1>3 DEF LastOf
  <2> QED BY <2>1, <1>1, <1>3, SubSeqProperties
<1> QED BY <1>1, <1>2, <1>3

\* A change makes a state of a state.
LEMMA ApplyType ==
  ASSUME NEW s \in States, NEW c \in Changes
  PROVE  Apply(s, c) \in States
<1>1. PICK K \in SUBSET Keys : c \in [K -> Optional]
  BY DEF Changes
<1> QED BY <1>1 DEF Apply, States

LEMMA VersionFacts ==
  ASSUME TypeOK
  PROVE  /\ version \in Versions /\ state \in States
         /\ Len(past) = version + 1
         /\ \A v \in 0..version : past[v + 1] \in States
<1>1. past \in Seq(States) /\ Len(past) \in 1..(MaxVersion + 1) /\ MaxVersion \in Nat
  BY StateSyncAssumption DEF TypeOK
<1>2. version = Len(past) - 1
  BY DEF version
<1> QED BY <1>1, <1>2, ElementOfSeq DEF Versions, state

\* What the messages are.
LEMMA MessageFacts ==
  /\ \A m \in PatchMessages :
       m.kind = "patch" /\ m.version \in Versions \ {0} /\ m.body \in Changes
  /\ \A m \in Snapshots :
       /\ m.kind = "snapshot" /\ m.version \in Versions
       /\ m.epoch \in Epochs /\ m.body \in States
<1>1. ASSUME NEW m \in PatchMessages
      PROVE  m.kind = "patch" /\ m.version \in Versions \ {0} /\ m.body \in Changes
  <2>1. PICK v \in Versions \ {0}, p \in Changes : m = Patch(v, p)
    BY DEF PatchMessages
  <2> QED BY <2>1 DEF Patch
<1>2. ASSUME NEW m \in Snapshots
      PROVE  /\ m.kind = "snapshot" /\ m.version \in Versions
             /\ m.epoch \in Epochs /\ m.body \in States
  <2>1. PICK e \in Epochs, v \in Versions, s \in States : m = Snapshot(e, v, s)
    BY DEF Snapshots
  <2> QED BY <2>1 DEF Snapshot
<1> QED BY <1>1, <1>2

\* Sequences of no and of one element.
LEMMA ShortSequences ==
  ASSUME NEW S
  PROVE  /\ <<>> \in Seq(S) /\ Len(<<>>) = 0
         /\ \A e \in S : <<e>> \in Seq(S) /\ Len(<<e>>) = 1 /\ <<e>>[1] = e
BY EmptySeq

\* What a subscription holds after it was offered a patch.
LEMMA OfferFacts ==
  ASSUME NEW S, NEW q \in Seq(S \cup {Resync}), NEW m \in S, Len(q) <= QueueSize
  PROVE  Offer(q, m) \in Seq(S \cup {Resync}) /\ Len(Offer(q, m)) <= QueueSize
<1>1. QueueSize \in Nat \ {0} /\ Len(q) \in Nat
  BY StateSyncAssumption, LenProperties
<1>2. <<Resync>> \in Seq(S \cup {Resync}) /\ Len(<<Resync>>) = 1
  BY ShortSequences
<1>3. m \in S \cup {Resync}
  OBVIOUS
<1>4. CASE Len(q) < QueueSize
  BY <1>1, <1>3, <1>4, AppendProperties DEF Offer
<1>5. CASE ~(Len(q) < QueueSize)
  BY <1>1, <1>2, <1>5 DEF Offer
<1> QED BY <1>4, <1>5

\* Writing in a patch leaves it a patch of the same version that sets the same keys.
LEMMA WrittenFacts ==
  ASSUME NEW p \in Patches, NEW m \in PatchMessages
  PROVE  /\ Written(m, p) \in PatchMessages
         /\ Written(m, p).version = m.version
         /\ DOMAIN Written(m, p).body = DOMAIN m.body
         /\ \A k \in DOMAIN m.body :
              /\ k \in Keys
              /\ \/ Written(m, p).body[k] = m.body[k]
                 \/ k \in DOMAIN p.body /\ Written(m, p).body[k] = p.body[k]
<1> DEFINE c == [k \in DOMAIN m.body |->
                   IF WritesIn(p, k, m.version) THEN p.body[k] ELSE m.body[k]]
<1>1. m.kind = "patch" /\ m.version \in Versions \ {0} /\ m.body \in Changes
  BY MessageFacts
<1>2. Written(m, p) = Patch(m.version, c)
  BY <1>1 DEF Written
<1>3. PICK K \in (SUBSET Keys) \ {{}} : m.body \in [K -> Optional]
  BY <1>1 DEF Changes
<1>4. PICK L \in SUBSET Keys : p.body \in [L -> Optional]
  BY StateSyncAssumption DEF Changes
<1>5. /\ DOMAIN m.body = K /\ DOMAIN p.body = L
      /\ \A k \in K : c[k] = m.body[k] \/ (k \in L /\ c[k] = p.body[k])
  BY <1>3, <1>4 DEF WritesIn
<1>6. c \in [K -> Optional]
  BY <1>3, <1>4, <1>5
<1>7. c \in Changes
  BY <1>3, <1>6 DEF Changes
<1> HIDE DEF c
<1>8. Patch(m.version, c) \in PatchMessages
  BY <1>1, <1>7 DEF PatchMessages
<1>9. Patch(m.version, c).version = m.version /\ Patch(m.version, c).body = c
  BY DEF Patch
<1>10. DOMAIN c = K
  BY <1>6
<1> QED BY <1>2, <1>3, <1>5, <1>8, <1>9, <1>10

\* ... and so for all that wait: as many, in the same order, the same ones telling of
\* patches gone.
LEMMA AllWrittenFacts ==
  ASSUME NEW p \in Patches, NEW s \in Seq(PatchMessages \cup {Resync})
  PROVE  /\ AllWritten(s, p) \in Seq(PatchMessages \cup {Resync})
         /\ s \in Seq(PatchMessages) => AllWritten(s, p) \in Seq(PatchMessages)
         /\ Len(AllWritten(s, p)) = Len(s)
         /\ \A i \in 1..Len(s) :
              /\ AllWritten(s, p)[i].version = s[i].version
              /\ AllWritten(s, p)[i].kind = s[i].kind
              /\ s[i] = Resync => AllWritten(s, p)[i] = Resync
<1> DEFINE S == PatchMessages \cup {Resync}
<1>1. Len(s) \in Nat /\ \A i \in 1..Len(s) : s[i] \in S
  BY ElementOfSeq, LenProperties
<1>2. ASSUME NEW m \in S
      PROVE  /\ Written(m, p) \in S /\ (m \in PatchMessages => Written(m, p) \in PatchMessages)
             /\ Written(m, p).version = m.version /\ Written(m, p).kind = m.kind
             /\ (m = Resync => Written(m, p) = Resync)
  <2>1. CASE m \in PatchMessages
    <3>1. Written(m, p) \in PatchMessages /\ Written(m, p).version = m.version
      BY <2>1, WrittenFacts
    <3>2. Written(m, p).kind = "patch" /\ m.kind = "patch"
      BY <2>1, <3>1, MessageFacts
    <3>3. m # Resync
      BY <3>2 DEF Resync
    <3> QED BY <3>1, <3>2, <3>3
  <2>2. CASE m = Resync
    <3>1. Written(m, p) = Resync
      BY <2>2 DEF Written, Resync
    <3>2. m \notin PatchMessages
      BY <2>2, MessageFacts DEF Resync
    <3> QED BY <2>2, <3>1, <3>2
  <2> QED BY <2>1, <2>2
<1>3. /\ DOMAIN AllWritten(s, p) = 1..Len(s)
      /\ \A i \in 1..Len(s) : AllWritten(s, p)[i] = Written(s[i], p)
  BY DEF AllWritten
<1>4. AllWritten(s, p) \in [1..Len(s) -> S]
  BY <1>1, <1>2 DEF AllWritten
<1>5. AllWritten(s, p) \in Seq(S)
  BY <1>1, <1>4, SeqDef
<1>6. Len(AllWritten(s, p)) = Len(s)
  <2>1. DOMAIN AllWritten(s, p) = 1..Len(AllWritten(s, p)) /\ Len(AllWritten(s, p)) \in Nat
    BY <1>5, LenProperties
  <2> QED BY <1>1, <1>3, <2>1
<1>7. ASSUME s \in Seq(PatchMessages) PROVE AllWritten(s, p) \in Seq(PatchMessages)
  <2>1. \A i \in 1..Len(s) : s[i] \in PatchMessages
    BY <1>7, ElementOfSeq
  <2>2. AllWritten(s, p) \in [1..Len(s) -> PatchMessages]
    BY <1>2, <2>1 DEF AllWritten
  <2> QED BY <1>1, <2>2, SeqDef
<1> QED BY <1>1, <1>2, <1>3, <1>5, <1>6, <1>7

----------------------------------------------------------------------------
(* Types *)

LEMMA InitType == Init => TypeOK
<1> SUFFICES ASSUME Init PROVE TypeOK
  OBVIOUS
<1>1. Nothing \in States
  BY DEF Nothing, States, Optional
<1>2. <<Nothing>> \in Seq(States) /\ Len(<<Nothing>>) = 1
  BY <1>1, ShortSequences
<1>3. /\ <<>> \in Seq(PatchMessages) /\ <<>> \in Seq(PatchMessages \cup {Resync})
      /\ <<>> \in Seq(PatchMessages \cup Snapshots) /\ Len(<<>>) = 0
  BY ShortSequences
<1>4. /\ 0 \in Epochs /\ 0 \in Versions /\ 0 \in 0..MaxBreaks
      /\ 0 <= History /\ 0 <= QueueSize /\ 0 <= WireSize /\ 1 \in 1..(MaxVersion + 1)
  BY StateSyncAssumption DEF Epochs, Versions
<1>5. conn \in {"off", "hello", "subscribed", "streaming"} /\ resume \in BOOLEAN
  BY DEF Init
<1> QED BY <1>1, <1>2, <1>3, <1>4, <1>5 DEF Init, TypeOK

LEMMA UnsubscribedType ==
  ASSUME Unsubscribed
  PROVE  /\ conn' = "off" /\ resume' \in BOOLEAN
         /\ queue' \in Seq(PatchMessages \cup {Resync}) /\ Len(queue') <= QueueSize
         /\ missed' \in Seq(PatchMessages) /\ last' \in Versions
         /\ wire' \in Seq(PatchMessages \cup Snapshots) /\ Len(wire') <= WireSize
<1>1. /\ <<>> \in Seq(PatchMessages) /\ <<>> \in Seq(PatchMessages \cup {Resync})
      /\ <<>> \in Seq(PatchMessages \cup Snapshots) /\ Len(<<>>) = 0
  BY ShortSequences
<1>2. 0 \in Versions /\ 0 <= QueueSize /\ 0 <= WireSize
  BY StateSyncAssumption DEF Versions
<1> QED BY <1>1, <1>2 DEF Unsubscribed

LEMMA StepType == TypeOK /\ [Next]_vars => TypeOK'
<1> SUFFICES ASSUME TypeOK, [Next]_vars PROVE TypeOK'
  OBVIOUS
<1> USE StateSyncAssumption
<1>1. ASSUME NEW p \in Patches, Commit(p) PROVE TypeOK'
  <2> DEFINE m == Patch(version + 1, p.body)
  <2>1. /\ version \in Versions /\ version < MaxVersion
        /\ state \in States /\ Len(past) = version + 1
        /\ p.body \in Changes /\ p.whole \subseteq Branches
    BY <1>1, VersionFacts DEF Commit
  <2>2. m \in PatchMessages
    BY <2>1 DEF PatchMessages, Versions
  <2> DEFINE h == AllWritten(history, p)
             q == AllWritten(queue, p)
  <2>6. /\ h \in Seq(PatchMessages)
        /\ q \in Seq(PatchMessages \cup {Resync}) /\ Len(q) = Len(queue)
        /\ AllWritten(missed, p) \in Seq(PatchMessages)
    <3>1. /\ history \in Seq(PatchMessages) /\ missed \in Seq(PatchMessages)
          /\ queue \in Seq(PatchMessages \cup {Resync})
      BY DEF TypeOK
    <3>2. /\ history \in Seq(PatchMessages \cup {Resync})
          /\ missed \in Seq(PatchMessages \cup {Resync})
      BY <3>1, SeqMonotonic
    <3> QED BY <3>1, <3>2, AllWrittenFacts
  <2> HIDE DEF h, q
  <2>7. holder' \in [Branches -> Versions]
    <3>1. 0 \in Versions /\ version + 1 \in Versions
      BY <2>1 DEF Versions
    <3> QED BY <1>1, <3>1 DEF Commit, TypeOK
  <2>3. past' \in Seq(States) /\ Len(past') \in 1..(MaxVersion + 1)
    <3>1. Apply(state, p.body) \in States /\ past' = Append(past, Apply(state, p.body))
      BY <1>1, <2>1, ApplyType DEF Commit
    <3>2. past \in Seq(States)
      BY DEF TypeOK
    <3>3. past' \in Seq(States) /\ Len(past') = Len(past) + 1
      BY <3>1, <3>2, AppendProperties
    <3> QED BY <3>3, <2>1 DEF Versions
  <2>4. history' \in Seq(PatchMessages) /\ Len(history') <= History
    <3>1. Append(h, m) \in Seq(PatchMessages)
      BY <2>2, <2>6, AppendProperties
    <3>2. history' = LastOf(Append(h, m), History)
      BY <1>1 DEF Commit, h
    <3>3. History \in Nat /\ Len(Append(h, m)) \in Nat
      BY <3>1, LenProperties
    <3> DEFINE kept == LastOf(Append(h, m), History)
    <3>4. /\ kept \in Seq(PatchMessages)
          /\ Len(kept) = IF Len(Append(h, m)) <= History
                         THEN Len(Append(h, m)) ELSE History
      BY <3>1, <3>3, LastOfFacts
    <3> HIDE DEF kept
    <3> QED BY <3>2, <3>3, <3>4 DEF kept
  <2>5. queue' \in Seq(PatchMessages \cup {Resync}) /\ Len(queue') <= QueueSize
    <3>1. queue' \in {queue, Offer(q, m)}
      BY <1>1 DEF Commit, q
    <3>2. queue \in Seq(PatchMessages \cup {Resync}) /\ Len(queue) <= QueueSize
      BY DEF TypeOK
    <3>3. /\ Offer(q, m) \in Seq(PatchMessages \cup {Resync})
          /\ Len(Offer(q, m)) <= QueueSize
      BY <2>2, <2>6, <3>2, OfferFacts
    <3> QED BY <3>1, <3>2, <3>3
  <2> QED BY <1>1, <2>3, <2>4, <2>5, <2>6, <2>7 DEF Commit, TypeOK, client
<1>2. CASE Connect
  BY <1>2 DEF Connect, TypeOK, store, client
<1>3. CASE Subscribe
  <2>1. resume' \in BOOLEAN
    BY <1>3 DEF Subscribe
  <2> QED BY <1>3, <2>1 DEF Subscribe, TypeOK, store, client
<1> DEFINE Sendable == PatchMessages \cup Snapshots
<1>4. ASSUME NEW m \in Sendable, Send(m)
      PROVE  wire' \in Seq(Sendable) /\ Len(wire') <= WireSize
  <2>1. wire \in Seq(Sendable) /\ wire' = Append(wire, m) /\ Len(wire) < WireSize
    BY <1>4 DEF Send, TypeOK
  <2> QED BY <2>1, AppendProperties
<1>5. ASSUME SendSnapshot
      PROVE  wire' \in Seq(Sendable) /\ Len(wire') <= WireSize /\ last' \in Versions
  <2>1. Snapshot(epoch, version, state) \in Sendable
    BY VersionFacts DEF Snapshots, TypeOK
  <2> QED BY <2>1, <1>4, <1>5, VersionFacts DEF SendSnapshot
<1>6. CASE BeginStream
  <2>1. CASE resume /\ HasSince(cversion)
    <3>1. missed' = Since(cversion) /\ last' = cversion /\ wire' = wire
      BY <1>6, <2>1 DEF BeginStream
    <3>2. version - cversion \in Nat
      BY <2>1, VersionFacts DEF HasSince, TypeOK, Versions
    <3>3. missed' \in Seq(PatchMessages)
      BY <3>1, <3>2, LastOfFacts DEF Since, TypeOK
    <3> QED BY <1>6, <3>1, <3>3 DEF BeginStream, TypeOK, store, client
  <2>2. CASE ~(resume /\ HasSince(cversion))
    <3>1. SendSnapshot /\ missed' = missed
      BY <1>6, <2>2 DEF BeginStream
    <3> QED BY <1>5, <1>6, <3>1 DEF BeginStream, TypeOK, store, client
  <2> QED BY <2>1, <2>2
<1>7. CASE SendMissed
  <2>1. Head(missed) \in PatchMessages /\ missed' \in Seq(PatchMessages)
    BY <1>7, HeadTailProperties DEF SendMissed, TypeOK
  <2>2. wire' \in Seq(Sendable) /\ Len(wire') <= WireSize
    BY <1>4, <1>7, <2>1 DEF SendMissed
  <2>3. last' \in Versions
    BY <1>7, <2>1, MessageFacts DEF SendMissed
  <2> QED BY <1>7, <2>1, <2>2, <2>3 DEF SendMissed, TypeOK, store, client
<1>8. CASE SendNext
  <2>1. /\ Head(queue) \in PatchMessages \cup {Resync}
        /\ queue' \in Seq(PatchMessages \cup {Resync}) /\ Len(queue') <= QueueSize
    BY <1>8, HeadTailProperties DEF SendNext, TypeOK
  <2>2. wire' \in Seq(Sendable) /\ Len(wire') <= WireSize /\ last' \in Versions
    <3>1. CASE Head(queue) = Resync
      BY <1>5, <1>8, <3>1 DEF SendNext
    <3>2. CASE Head(queue) # Resync /\ Head(queue).version > last
      <4>1. Head(queue) \in PatchMessages /\ Send(Head(queue))
            /\ last' = Head(queue).version
        BY <1>8, <2>1, <3>2 DEF SendNext
      <4>2. last' \in Versions
        BY <4>1, MessageFacts
      <4> QED BY <4>1, <4>2, <1>4
    <3>3. CASE Head(queue) # Resync /\ ~(Head(queue).version > last)
      BY <1>8, <3>3 DEF SendNext, TypeOK
    <3> QED BY <3>1, <3>2, <3>3
  <2> QED BY <1>8, <2>1, <2>2 DEF SendNext, TypeOK, store, client
<1>9. CASE Receive
  <2>1. CASE Expected(Head(wire))
    <3> DEFINE m == Head(wire)
    <3>1. m \in Sendable /\ wire' \in Seq(Sendable) /\ Len(wire') <= WireSize
      <4>1. wire \in Seq(Sendable) /\ wire # <<>> /\ wire' = Tail(wire) /\ Len(wire) <= WireSize
        BY <1>9, <2>1 DEF Receive, TypeOK
      <4>2. m \in Sendable /\ Tail(wire) \in Seq(Sendable) /\ Len(Tail(wire)) = Len(wire) - 1
        BY <4>1, HeadTailProperties
      <4> QED BY <4>1, <4>2, LenProperties
    <3>2. cversion' \in Versions /\ cstate' \in States /\ cepoch' \in Epochs \cup {None}
      <4>1. CASE m \in PatchMessages
        <5>1. m.kind = "patch" /\ m.version \in Versions /\ m.body \in Changes
          BY <4>1, MessageFacts
        <5>2. cversion' = m.version /\ cstate' = Apply(cstate, m.body) /\ cepoch' = cepoch
          BY <1>9, <2>1, <5>1 DEF Receive, Take
        <5> QED BY <5>1, <5>2, ApplyType DEF TypeOK
      <4>2. CASE m \in Snapshots
        <5>1. /\ m.kind = "snapshot" /\ m.version \in Versions
              /\ m.body \in States /\ m.epoch \in Epochs
          BY <4>2, MessageFacts
        <5>2. cversion' = m.version /\ cstate' = m.body /\ cepoch' = m.epoch
          BY <1>9, <2>1, <5>1 DEF Receive, Take
        <5> QED BY <5>1, <5>2
      <4> QED BY <3>1, <4>1, <4>2
    <3> QED BY <1>9, <2>1, <3>1, <3>2 DEF Receive, TypeOK, store
  <2>2. CASE ~Expected(Head(wire))
    BY <1>9, <2>2, UnsubscribedType DEF Receive, TypeOK, store, client
  <2> QED BY <2>1, <2>2
<1>10. CASE Break
  BY <1>10, UnsubscribedType DEF Break, TypeOK, store, client
<1>11. CASE Restart
  <2>1. Nothing \in States
    BY DEF Nothing, States, Optional
  <2>2. /\ past' = <<Nothing>> /\ past' \in Seq(States) /\ Len(past') = 1
        /\ history' \in Seq(PatchMessages) /\ Len(history') = 0 /\ epoch' \in Epochs
    BY <1>11, <2>1 DEF Restart, TypeOK, Epochs
  <2>3. holder' \in [Branches -> Versions]
    BY <1>11 DEF Restart, Versions
  <2> QED BY <1>11, <2>2, <2>3, UnsubscribedType DEF Restart, TypeOK, client
<1>12. CASE UNCHANGED vars
  BY <1>12 DEF vars, store, stream, client, TypeOK
<1> QED
  BY <1>1, <1>2, <1>3, <1>6, <1>7, <1>8, <1>9, <1>10, <1>11, <1>12
     DEF Next, Streaming, Sender

\* Every variable keeps its type: the queue, the history and the wire stay within
\* their sizes, and no version goes beyond the commits made.
THEOREM TypeCorrect == Spec => []TypeOK
<1> QED BY InitType, StepType, PTL DEF Spec

----------------------------------------------------------------------------
(* Values *)

\* A commit adds a version and leaves the earlier ones as they are.
LEMMA CommitFacts ==
  ASSUME TypeOK, NEW p \in Patches, Commit(p)
  PROVE  /\ version' = version + 1 /\ version \in Nat /\ version < MaxVersion
         /\ p.body \in Changes
         /\ past'[version + 2] = Apply(past[version + 1], p.body)
         /\ \A v \in 0..version : past'[v + 1] = past[v + 1]
<1>1. version \in Versions /\ state \in States /\ Len(past) = version + 1
  BY VersionFacts
<1>2. p.body \in Changes /\ Apply(state, p.body) \in States
  BY <1>1, ApplyType, StateSyncAssumption
<1>3. past' = Append(past, Apply(state, p.body)) /\ version < MaxVersion
  BY DEF Commit
<1>4. /\ Len(past') = Len(past) + 1
      /\ \A i \in 1..Len(past) : past'[i] = past[i]
      /\ past'[Len(past) + 1] = Apply(state, p.body)
  BY <1>2, <1>3, AppendProperties DEF TypeOK
<1>5. version' = version + 1 /\ version \in Nat
  BY <1>1, <1>4, StateSyncAssumption DEF version, Versions
<1>6. state = past[version + 1]
  BY <1>1 DEF state
<1> QED BY <1>1, <1>2, <1>3, <1>4, <1>5, <1>6

\* What the server had, it still had.
LEMMA HadGrows ==
  ASSUME TypeOK, NEW p \in Patches, Commit(p), NEW v \in Nat, NEW k, NEW x, Had(v, k, x)
  PROVE  Had(v, k, x)'
<1>1. /\ version' = version + 1 /\ version \in Nat
      /\ \A u \in 0..version : past'[u + 1] = past[u + 1]
  BY CommitFacts
<1>2. PICK u \in v..version : past[u + 1][k] = x
  BY DEF Had
<1>3. u \in v..version' /\ past'[u + 1][k] = x
  BY <1>1, <1>2
<1> QED BY <1>3 DEF Had

\* A message that was right stays right, be it written by the commit or not.
LEMMA RightGrows ==
  ASSUME TypeOK, NEW p \in Patches, Commit(p)
  PROVE  /\ \A m \in RightPatches : m \in RightPatches' /\ Written(m, p) \in RightPatches'
         /\ RightSnapshots \subseteq RightSnapshots'
         /\ Patch(version + 1, p.body) \in RightPatches'
<1>1. /\ version' = version + 1 /\ version \in Nat /\ version < MaxVersion
      /\ past'[version + 2] = Apply(past[version + 1], p.body)
      /\ \A v \in 0..version : past'[v + 1] = past[v + 1]
      /\ p.body \in Changes
  BY CommitFacts
<1>2. epoch' = epoch
  BY DEF Commit
\* What the commit sets, the server has at the new version.
<1>3. ASSUME NEW v \in 0..version', NEW k \in Keys, k \in DOMAIN p.body
      PROVE  Had(v, k, p.body[k])'
  <2>1. past'[version' + 1][k] = p.body[k]
    <3>1. past'[version + 2][k] = p.body[k]
      BY <1>1, <1>3 DEF Apply
    <3> QED BY <1>1, <3>1
  <2>2. version' \in v..version'
    BY <1>1
  <2> QED BY <2>1, <2>2 DEF Had
<1>4. ASSUME NEW m \in RightPatches, NEW n \in PatchMessages, n.version = m.version,
             DOMAIN n.body = DOMAIN m.body,
             \A k \in DOMAIN m.body :
               n.body[k] = m.body[k] \/ (k \in DOMAIN p.body /\ n.body[k] = p.body[k])
      PROVE  n \in RightPatches'
  <2>1. /\ m \in PatchMessages /\ m.version \in Versions \ {0} /\ m.version <= version
        /\ \A k \in Keys : IF k \in DOMAIN m.body
                          THEN Had(m.version, k, m.body[k])
                          ELSE past[m.version + 1][k] = past[m.version][k]
    BY MessageFacts DEF RightPatches
  <2>2. /\ m.version \in 0..version /\ m.version - 1 \in 0..version
        /\ m.version <= version' /\ m.version \in 0..version' /\ m.version \in Nat
    BY <1>1, <2>1, StateSyncAssumption DEF Versions
  <2>3. past'[m.version + 1] = past[m.version + 1] /\ past'[m.version] = past[m.version]
    <3>1. past'[(m.version - 1) + 1] = past[(m.version - 1) + 1]
      BY <1>1, <2>2
    <3>2. (m.version - 1) + 1 = m.version
      BY <2>2
    <3> QED BY <1>1, <2>2, <3>1, <3>2
  <2>4. ASSUME NEW k \in Keys, k \in DOMAIN n.body PROVE Had(n.version, k, n.body[k])'
    <3>1. CASE n.body[k] = m.body[k]
      <4>1. Had(m.version, k, m.body[k])
        BY <1>4, <2>1, <2>4
      <4>2. Had(m.version, k, m.body[k])'
        BY <2>2, <4>1, HadGrows
      <4> QED BY <1>4, <3>1, <4>2
    <3>2. CASE k \in DOMAIN p.body /\ n.body[k] = p.body[k]
      <4>1. Had(m.version, k, p.body[k])'
        BY <1>3, <2>2, <3>2
      <4> QED BY <1>4, <3>2, <4>1
    <3> QED BY <1>4, <2>4, <3>1, <3>2
  <2>5. ASSUME NEW k \in Keys, k \notin DOMAIN n.body
        PROVE  past'[n.version + 1][k] = past'[n.version][k]
    BY <1>4, <2>1, <2>3, <2>5
  <2> QED BY <1>4, <2>2, <2>4, <2>5 DEF RightPatches
<1>5. ASSUME NEW m \in RightPatches PROVE m \in RightPatches' /\ Written(m, p) \in RightPatches'
  <2>1. m \in PatchMessages
    BY DEF RightPatches
  <2>2. m \in RightPatches'
    BY <1>4, <2>1
  <2>3. /\ Written(m, p) \in PatchMessages /\ Written(m, p).version = m.version
        /\ DOMAIN Written(m, p).body = DOMAIN m.body
        /\ \A k \in DOMAIN m.body :
             \/ Written(m, p).body[k] = m.body[k]
             \/ k \in DOMAIN p.body /\ Written(m, p).body[k] = p.body[k]
    BY <2>1, WrittenFacts
  <2> QED BY <1>4, <2>2, <2>3
<1>6. ASSUME NEW m \in RightSnapshots PROVE m \in RightSnapshots'
  <2>1. /\ m \in Snapshots /\ m.version \in Versions /\ m.version <= version
        /\ m.epoch = epoch /\ m.body = past[m.version + 1]
    BY MessageFacts DEF RightSnapshots
  <2>2. m.version \in 0..version /\ m.version <= version'
    BY <1>1, <2>1, StateSyncAssumption DEF Versions
  <2> QED BY <1>1, <1>2, <2>1, <2>2 DEF RightSnapshots
<1>7. Patch(version + 1, p.body) \in RightPatches'
  <2> SUFFICES ASSUME NEW m, m = Patch(version + 1, p.body) PROVE m \in RightPatches'
    OBVIOUS
  <2>1. m.version = version + 1 /\ m.body = p.body
    BY DEF Patch
  <2>2. m \in PatchMessages
    <3>1. version + 1 \in Versions \ {0}
      BY <1>1, StateSyncAssumption DEF Versions
    <3> QED BY <1>1, <3>1 DEF PatchMessages
  <2>3. ASSUME NEW k \in Keys, k \in DOMAIN m.body PROVE Had(m.version, k, m.body[k])'
    <3>1. m.version \in 0..version' /\ k \in DOMAIN p.body
      BY <1>1, <2>1, <2>3
    <3>2. Had(m.version, k, p.body[k])'
      BY <1>3, <3>1
    <3> QED BY <2>1, <3>2
  <2>4. ASSUME NEW k \in Keys, k \notin DOMAIN m.body
        PROVE  past'[m.version + 1][k] = past'[m.version][k]
    <3>1. past'[version + 2][k] = past[version + 1][k]
      BY <1>1, <2>1, <2>4 DEF Apply
    <3>2. past'[version + 1] = past[version + 1]
      BY <1>1
    <3>3. m.version + 1 = version + 2
      BY <1>1, <2>1
    <3> QED BY <2>1, <3>1, <3>2, <3>3
  <2>5. m.version <= version'
    BY <1>1, <2>1
  <2> QED BY <2>2, <2>3, <2>4, <2>5 DEF RightPatches
<1> QED BY <1>5, <1>6, <1>7

\* Nothing is under way after a connection ended.
LEMMA UnsubscribedRight ==
  ASSUME Unsubscribed, NEW P, NEW S
  PROVE  /\ missed' \in Seq(P) /\ queue' \in Seq(P \cup {Resync}) /\ wire' \in Seq(P \cup S)
BY ShortSequences DEF Unsubscribed

\* Messages stay right in a step that leaves the store alone.
LEMMA RightSame ==
  ASSUME UNCHANGED store
  PROVE  RightPatches' = RightPatches /\ RightSnapshots' = RightSnapshots
         /\ version' = version /\ state' = state
BY DEF store, RightPatches, RightSnapshots, Had, version, state

\* A snapshot taken now is right.
LEMMA SnapshotRight ==
  ASSUME TypeOK PROVE Snapshot(epoch, version, state) \in RightSnapshots
<1> DEFINE m == Snapshot(epoch, version, state)
<1>1. version \in Versions /\ state \in States /\ epoch \in Epochs /\ state = past[version + 1]
  BY VersionFacts DEF TypeOK, state
<1>2. m \in Snapshots
  BY <1>1 DEF Snapshots
<1>3. m.version = version /\ m.epoch = epoch /\ m.body = state
  BY DEF Snapshot
<1> HIDE DEF m
<1>4. m.version <= version
  BY <1>1, <1>3, StateSyncAssumption DEF Versions
<1>5. m \in RightSnapshots
  BY <1>1, <1>2, <1>3, <1>4 DEF RightSnapshots
<1> QED BY <1>5 DEF m

LEMMA InitValues == Init => Right /\ KnownEpoch /\ ShowsBetween
<1> SUFFICES ASSUME Init PROVE Right /\ KnownEpoch /\ ShowsBetween
  OBVIOUS
<1>1. Right
  BY ShortSequences DEF Init, Right
<1>2. KnownEpoch
  BY DEF Init, KnownEpoch
<1>3. ShowsBetween
  <2>1. cepoch # epoch
    BY StateSyncAssumption DEF Init, Epochs
  <2> QED BY <2>1 DEF ShowsBetween
<1> QED BY <1>1, <1>2, <1>3

LEMMA StepValues == ValuesRight /\ [Next]_vars => Right' /\ KnownEpoch' /\ ShowsBetween'
<1> SUFFICES ASSUME TypeOK, Right, KnownEpoch, ShowsBetween, [Next]_vars
             PROVE  Right' /\ KnownEpoch' /\ ShowsBetween'
  BY DEF ValuesRight
<1> DEFINE Sendable == RightPatches \cup RightSnapshots
<1> DEFINE Queued == RightPatches \cup {Resync}
<1>1. /\ history \in Seq(RightPatches) /\ missed \in Seq(RightPatches)
      /\ queue \in Seq(Queued) /\ wire \in Seq(Sendable)
  BY DEF Right
<1> HIDE DEF Sendable, Queued
\* A step of the sender or the client leaves the store alone ...
<1>2. ASSUME UNCHANGED store, missed' \in Seq(RightPatches), queue' \in Seq(Queued),
             wire' \in Seq(Sendable)
      PROVE  Right'
  <2>1. history' = history /\ RightPatches' = RightPatches /\ RightSnapshots' = RightSnapshots
    BY <1>2, RightSame DEF store
  <2> QED BY <1>1, <1>2, <2>1 DEF Right, Sendable, Queued, Resync
\* ... and the sender what the client shows.
<1>3. ASSUME UNCHANGED store, UNCHANGED client PROVE KnownEpoch' /\ ShowsBetween'
  BY <1>3, RightSame DEF KnownEpoch, ShowsBetween, store, client
<1>4. ASSUME NEW p \in Patches, Commit(p) PROVE Right' /\ KnownEpoch' /\ ShowsBetween'
  <2> DEFINE m == Patch(version + 1, p.body)
             RP == RightPatches'
             h == AllWritten(history, p)
             q == AllWritten(queue, p)
  <2>1. /\ \A n \in RightPatches : n \in RP /\ Written(n, p) \in RP
        /\ RightSnapshots \subseteq RightSnapshots' /\ m \in RP
    BY <1>4, RightGrows
  <2>2. queue \in Seq(RP \cup {Resync}) /\ wire \in Seq(RP \cup RightSnapshots')
    BY <1>1, <2>1, SeqMonotonic DEF Sendable, Queued
  <2> HIDE DEF RP, m
  \* What waits is written, and stays right.
  <2>3. ASSUME NEW s \in Seq(RightPatches) PROVE AllWritten(s, p) \in Seq(RP)
    <3>1. Len(s) \in Nat /\ \A i \in 1..Len(s) : s[i] \in RightPatches
      BY ElementOfSeq, LenProperties
    <3>2. AllWritten(s, p) \in [1..Len(s) -> RP]
      BY <2>1, <3>1 DEF AllWritten
    <3> QED BY <3>1, <3>2, SeqDef
  <2>4. q \in Seq(RP \cup {Resync}) /\ Len(q) = Len(queue)
    <3>1. Len(queue) \in Nat /\ \A i \in 1..Len(queue) : queue[i] \in RightPatches \cup {Resync}
      BY <1>1, ElementOfSeq, LenProperties DEF Queued
    <3>2. Written(Resync, p) = Resync
      BY DEF Written, Resync
    <3>3. q \in [1..Len(queue) -> RP \cup {Resync}]
      BY <2>1, <3>1, <3>2 DEF AllWritten
    <3>4. q \in Seq(RP \cup {Resync})
      BY <3>1, <3>3, SeqDef
    <3>5. queue \in Seq(PatchMessages \cup {Resync})
      BY DEF TypeOK
    <3> QED BY <1>4, <3>4, <3>5, AllWrittenFacts
  <2>5. h \in Seq(RP) /\ AllWritten(missed, p) \in Seq(RP)
    BY <1>1, <2>3
  <2> HIDE DEF h, q
  <2>6. history' \in Seq(RP)
    <3>1. Append(h, m) \in Seq(RP)
      BY <2>1, <2>5, AppendProperties
    <3>2. history' = LastOf(Append(h, m), History) /\ History \in Nat
      BY <1>4, StateSyncAssumption DEF Commit, h, m
    <3> QED BY <3>1, <3>2, LastOfFacts
  <2>7. queue' \in Seq(RP \cup {Resync})
    <3>1. queue' \in {queue, Offer(q, m)} /\ Len(queue) <= QueueSize
      BY <1>4 DEF Commit, TypeOK, q, m
    <3>2. Offer(q, m) \in Seq(RP \cup {Resync})
      BY <2>1, <2>4, <3>1, OfferFacts
    <3> QED BY <2>2, <3>1, <3>2
  <2>8. Right'
    <3>1. missed' = AllWritten(missed, p) /\ wire' = wire
      BY <1>4 DEF Commit
    <3> QED BY <2>2, <2>5, <2>6, <2>7, <3>1 DEF Right, Resync, RP
  <2>9. KnownEpoch' /\ ShowsBetween'
    <3>1. /\ epoch' = epoch /\ cepoch' = cepoch /\ cversion' = cversion /\ cstate' = cstate
      BY <1>4 DEF Commit, client
    <3>2. /\ version' = version + 1 /\ version \in Nat
          /\ \A v \in 0..version : past'[v + 1] = past[v + 1]
      BY <1>4, CommitFacts
    <3>3. cversion \in Nat
      BY StateSyncAssumption DEF TypeOK, Versions
    <3>4. KnownEpoch'
      BY <3>1 DEF KnownEpoch
    <3>5. ASSUME cepoch = epoch, NEW k \in Keys
          PROVE  \E v \in cversion..version' : cstate[k] = past'[v + 1][k]
      <4>1. PICK v \in cversion..version : cstate[k] = past[v + 1][k]
        BY <3>5 DEF ShowsBetween
      <4>2. v \in cversion..version' /\ v \in 0..version
        BY <3>2, <3>3
      <4> QED BY <3>2, <4>1, <4>2
    <3>6. cepoch = epoch => cversion <= version'
      BY <3>2, <3>3 DEF ShowsBetween
    <3> QED BY <3>1, <3>4, <3>5, <3>6 DEF ShowsBetween
  <2> QED BY <2>8, <2>9
<1>5. CASE Connect
  <2>1. UNCHANGED <<store, client, missed, queue, wire>>
    BY <1>5 DEF Connect
  <2> QED BY <1>1, <1>2, <1>3, <2>1
<1>6. CASE Subscribe
  <2>1. UNCHANGED <<store, client, missed, queue, wire>>
    BY <1>6 DEF Subscribe
  <2> QED BY <1>1, <1>2, <1>3, <2>1
<1>7. ASSUME NEW m \in Sendable, Send(m) PROVE wire' \in Seq(Sendable)
  BY <1>1, <1>7, AppendProperties DEF Send
<1>8. ASSUME SendSnapshot PROVE wire' \in Seq(Sendable)
  BY <1>7, <1>8, SnapshotRight DEF SendSnapshot, Sendable
<1>9. CASE BeginStream
  <2>1. UNCHANGED <<store, client, queue>>
    BY <1>9 DEF BeginStream
  <2>2. missed' \in Seq(RightPatches) /\ wire' \in Seq(Sendable)
    <3>1. CASE resume /\ HasSince(cversion)
      <4>1. missed' = LastOf(history, version - cversion) /\ wire' = wire
        BY <1>9, <3>1 DEF BeginStream, Since
      <4>2. version - cversion \in Nat
        BY <3>1, VersionFacts, StateSyncAssumption DEF HasSince, TypeOK, Versions
      <4> QED BY <1>1, <4>1, <4>2, LastOfFacts
    <3>2. CASE ~(resume /\ HasSince(cversion))
      <4>1. SendSnapshot /\ missed' = missed
        BY <1>9, <3>2 DEF BeginStream
      <4> QED BY <1>1, <1>8, <4>1
    <3> QED BY <3>1, <3>2
  <2> QED BY <1>1, <1>2, <1>3, <2>1, <2>2
<1>10. CASE SendMissed
  <2>1. UNCHANGED <<store, client, queue>> /\ missed # <<>>
        /\ Send(Head(missed)) /\ missed' = Tail(missed)
    BY <1>10 DEF SendMissed
  <2>2. Head(missed) \in RightPatches /\ missed' \in Seq(RightPatches)
    BY <1>1, <2>1, HeadTailProperties
  <2>3. wire' \in Seq(Sendable)
    BY <1>7, <2>1, <2>2 DEF Sendable
  <2> QED BY <1>1, <1>2, <1>3, <2>1, <2>2, <2>3
<1>11. CASE SendNext
  <2>1. UNCHANGED <<store, client, missed>> /\ queue # <<>> /\ queue' = Tail(queue)
    BY <1>11 DEF SendNext
  <2>2. Head(queue) \in Queued /\ queue' \in Seq(Queued)
    BY <1>1, <2>1, HeadTailProperties
  <2>3. \/ SendSnapshot
        \/ Head(queue) # Resync /\ Send(Head(queue))
        \/ wire' = wire
    BY <1>11 DEF SendNext
  <2>4. wire' \in Seq(Sendable)
    BY <1>1, <1>7, <1>8, <2>2, <2>3 DEF Sendable, Queued
  <2> QED BY <1>1, <1>2, <1>3, <2>1, <2>2, <2>4
<1>12. CASE Receive
  <2>1. UNCHANGED store /\ wire # <<>>
    BY <1>12 DEF Receive
  <2>2. CASE Expected(Head(wire))
    <3> DEFINE m == Head(wire)
    <3>1. m \in Sendable /\ wire' \in Seq(Sendable)
      <4>1. wire' = Tail(wire)
        BY <1>12, <2>2 DEF Receive
      <4> QED BY <1>1, <2>1, <4>1, HeadTailProperties
    <3>2. Right'
      <4>1. missed' = missed /\ queue' = queue
        BY <1>12, <2>2 DEF Receive
      <4> QED BY <1>1, <1>2, <2>1, <3>1, <4>1
    <3>3. Take(m)
      BY <1>12, <2>2 DEF Receive
    <3>4. epoch' = epoch /\ past' = past /\ version' = version /\ epoch \in 0..epoch
      BY <2>1, RightSame, StateSyncAssumption DEF store, TypeOK, Epochs
    <3> HIDE DEF m
    <3>5. CASE m \in RightPatches
      <4>1. /\ m.kind = "patch" /\ m.version \in Versions \ {0} /\ m.version <= version
            /\ \A k \in Keys : IF k \in DOMAIN m.body
                              THEN Had(m.version, k, m.body[k])
                              ELSE past[m.version + 1][k] = past[m.version][k]
        BY <3>5, MessageFacts DEF RightPatches
      <4>2. /\ cversion' = m.version /\ cepoch' = cepoch
            /\ cstate' = Apply(cstate, m.body)
        BY <3>3, <4>1 DEF Take
      <4>3. m.version = cversion + 1
        BY <2>2, <4>1 DEF Expected, m
      <4>4. ASSUME NEW k \in Keys, cepoch = epoch
            PROVE  \E u \in m.version..version : Apply(cstate, m.body)[k] = past[u + 1][k]
        <5>1. m.version \in Nat /\ cversion \in Nat /\ version \in Nat
          BY <4>1, VersionFacts, StateSyncAssumption DEF TypeOK, Versions
        <5>2. CASE k \in DOMAIN m.body
          <6>1. Had(m.version, k, m.body[k]) /\ Apply(cstate, m.body)[k] = m.body[k]
            BY <4>1, <4>4, <5>2 DEF Apply
          <6> QED BY <6>1 DEF Had
        <5>3. CASE k \notin DOMAIN m.body
          <6>1. /\ past[m.version + 1][k] = past[m.version][k]
                /\ Apply(cstate, m.body)[k] = cstate[k]
            BY <4>1, <4>4, <5>3 DEF Apply
          <6>2. PICK u \in cversion..version : cstate[k] = past[u + 1][k]
            BY <4>4 DEF ShowsBetween
          <6>3. CASE u = cversion
            <7>1. cstate[k] = past[m.version + 1][k] /\ m.version \in m.version..version
              BY <4>1, <4>3, <5>1, <6>1, <6>2, <6>3
            <7> QED BY <6>1, <7>1
          <6>4. CASE u # cversion
            <7>1. u \in m.version..version
              BY <4>3, <5>1, <6>2, <6>4
            <7> QED BY <6>1, <6>2, <7>1
          <6> QED BY <6>3, <6>4
        <5> QED BY <5>2, <5>3
      <4>5. ShowsBetween'
        BY <3>4, <4>1, <4>2, <4>4 DEF ShowsBetween
      <4> QED BY <3>2, <3>4, <4>2, <4>5 DEF KnownEpoch
    <3>6. CASE m \in RightSnapshots
      <4>1. /\ m.kind = "snapshot" /\ m.version <= version
            /\ m.epoch = epoch /\ m.body = past[m.version + 1]
        BY <3>6, MessageFacts DEF RightSnapshots
      <4>2. cversion' = m.version /\ cepoch' = m.epoch /\ cstate' = m.body
        BY <3>3, <4>1 DEF Take
      <4>3. ShowsBetween'
        <5>1. m.version \in m.version..version
          BY <4>1, <3>6, VersionFacts, MessageFacts, StateSyncAssumption
             DEF RightSnapshots, Versions
        <5> QED BY <3>4, <4>1, <4>2, <5>1 DEF ShowsBetween
      <4> QED BY <3>2, <3>4, <4>1, <4>2, <4>3 DEF KnownEpoch
    <3> QED BY <3>1, <3>5, <3>6 DEF Sendable
  <2>3. CASE ~Expected(Head(wire))
    <3>1. Unsubscribed /\ UNCHANGED client
      BY <1>12, <2>3 DEF Receive
    <3> QED BY <1>2, <1>3, <2>1, <3>1, UnsubscribedRight DEF Sendable, Queued
  <2> QED BY <2>2, <2>3
<1>13. CASE Break
  <2>1. Unsubscribed /\ UNCHANGED store /\ UNCHANGED client
    BY <1>13 DEF Break
  <2> QED BY <1>2, <1>3, <2>1, UnsubscribedRight DEF Sendable, Queued
<1>14. CASE Restart
  <2>1. Unsubscribed /\ history' = <<>> /\ epoch' = epoch + 1 /\ cepoch' = cepoch
    BY <1>14 DEF Restart, client
  <2>2. Right'
    <3>1. history' \in Seq(RightPatches')
      BY <2>1, ShortSequences
    <3>2. /\ missed' \in Seq(RightPatches') /\ queue' \in Seq(RightPatches' \cup {Resync})
          /\ wire' \in Seq(RightPatches' \cup RightSnapshots')
      BY <2>1, UnsubscribedRight
    <3> QED BY <3>1, <3>2 DEF Right, Resync
  <2>3. epoch \in Nat /\ (cepoch = None \/ cepoch \in 0..epoch) /\ None # epoch'
    <3>1. epoch' \in Epochs /\ None \notin Epochs
      BY <1>14, <2>1, StateSyncAssumption DEF Restart, TypeOK, Epochs
    <3> QED BY <3>1, StateSyncAssumption DEF TypeOK, Epochs, KnownEpoch
  <2> QED BY <2>1, <2>2, <2>3 DEF KnownEpoch, ShowsBetween
<1>15. CASE UNCHANGED vars
  BY <1>1, <1>2, <1>3, <1>15 DEF vars, stream
<1> QED
  BY <1>4, <1>5, <1>6, <1>9, <1>10, <1>11, <1>12, <1>13, <1>14, <1>15
     DEF Next, Streaming, Sender

\* What a client shows at each key, the server had there at the version the client names
\* or has had since, whatever was lost, resent, restarted or written while it waited: no
\* change is skipped or undone, and no value is another server's.
THEOREM ClientShowsBetween == Spec => []ShowsBetween
<1>1. Init => ValuesRight
  BY InitType, InitValues DEF ValuesRight
<1>2. ValuesRight /\ [Next]_vars => ValuesRight'
  BY StepType, StepValues DEF ValuesRight
<1>3. ValuesRight => ShowsBetween
  BY DEF ValuesRight
<1> QED BY <1>1, <1>2, <1>3, PTL DEF Spec

----------------------------------------------------------------------------
(* Versions *)

\* What stands where, and that it can be counted with.
LEMMA Elements ==
  ASSUME TypeOK
  PROVE  /\ version \in Nat /\ last \in Nat /\ cversion \in Nat
         /\ Len(history) \in Nat /\ Len(missed) \in Nat
         /\ Len(queue) \in Nat /\ Len(wire) \in Nat
         /\ \A i \in 1..Len(history) : history[i].version \in Nat
         /\ \A i \in 1..Len(missed) :
              missed[i].kind = "patch" /\ missed[i].version \in Nat
         /\ \A i \in 1..Len(queue) :
              /\ queue[i].version \in Nat /\ queue[i].kind \in {"patch", "resync"}
              /\ queue[i].kind = "resync" <=> queue[i] = Resync
         /\ \A i \in 1..Len(wire) : wire[i].version \in Nat
<1>1. /\ history \in Seq(PatchMessages) /\ missed \in Seq(PatchMessages)
      /\ queue \in Seq(PatchMessages \cup {Resync})
      /\ wire \in Seq(PatchMessages \cup Snapshots)
  BY DEF TypeOK
<1>2. /\ \A i \in 1..Len(history) : history[i] \in PatchMessages
      /\ \A i \in 1..Len(missed) : missed[i] \in PatchMessages
      /\ \A i \in 1..Len(queue) : queue[i] \in PatchMessages \cup {Resync}
      /\ \A i \in 1..Len(wire) : wire[i] \in PatchMessages \cup Snapshots
  BY <1>1, ElementOfSeq
<1>3. Versions \subseteq Nat /\ version \in Versions /\ last \in Versions /\ cversion \in Versions
  BY VersionFacts, StateSyncAssumption DEF Versions, TypeOK
<1>4. Resync.kind = "resync" /\ Resync.version = 0
  BY DEF Resync
<1>5. /\ Len(history) \in Nat /\ Len(missed) \in Nat
      /\ Len(queue) \in Nat /\ Len(wire) \in Nat
  BY <1>1, LenProperties
<1>6. /\ \A m \in PatchMessages : m.kind = "patch" /\ m.version \in Nat
      /\ \A m \in Snapshots : m.version \in Nat
  BY <1>3, MessageFacts
<1> QED BY <1>2, <1>3, <1>4, <1>5, <1>6

LEMMA InitOrder == Init => Order
<1> SUFFICES ASSUME Init PROVE Order
  OBVIOUS
<1>1. Len(<<>>) = 0
  OBVIOUS
<1>2. version = 0
  BY ShortSequences DEF Init, version
<1> QED BY <1>1, <1>2
  DEF Init, Order, Consecutive, WireLeadsToLast, RestLeadsToPresent, SameServer, Idle

\* A connection that ended leaves nothing to order.
LEMMA UnsubscribedOrder ==
  ASSUME Unsubscribed, version' \in Nat,
         \A i \in 1..Len(history') : history'[i].version = version' - (Len(history') - i)
  PROVE  Order'
<1>1. /\ conn' = "off" /\ resume' = FALSE /\ last' = 0 /\ queue' = <<>>
      /\ missed' = <<>> /\ wire' = <<>> /\ Len(<<>>) = 0
  BY DEF Unsubscribed
<1> QED BY <1>1
  DEF Order, Consecutive, WireLeadsToLast, RestLeadsToPresent, SameServer, Idle

LEMMA CommitOrder ==
  ASSUME TypeOK, Order, NEW p \in Patches, Commit(p)
  PROVE  Order'
<1> DEFINE m == Patch(version + 1, p.body)
           h == AllWritten(history, p)
           q == AllWritten(queue, p)
           w == AllWritten(missed, p)
<1>1. version' = version + 1 /\ version \in Nat
  BY CommitFacts
<1>2. /\ conn' = conn /\ resume' = resume /\ missed' = w /\ last' = last
      /\ wire' = wire /\ cversion' = cversion /\ cepoch' = cepoch /\ epoch' = epoch
  BY DEF Commit, client
<1>3. m.version = version + 1 /\ m.kind = "patch"
  BY DEF Patch
\* What is written keeps its place, its version and its kind.
<1>7. /\ h \in Seq(PatchMessages) /\ Len(h) = Len(history)
      /\ \A i \in 1..Len(history) : h[i].version = history[i].version
      /\ q \in Seq(PatchMessages \cup {Resync}) /\ Len(q) = Len(queue)
      /\ \A i \in 1..Len(queue) :
           /\ q[i].version = queue[i].version /\ q[i].kind = queue[i].kind
           /\ queue[i] = Resync => q[i] = Resync
      /\ Len(w) = Len(missed)
      /\ \A i \in 1..Len(missed) : w[i].version = missed[i].version
  <2>1. /\ history \in Seq(PatchMessages) /\ missed \in Seq(PatchMessages)
        /\ queue \in Seq(PatchMessages \cup {Resync})
    BY DEF TypeOK
  <2>2. /\ history \in Seq(PatchMessages \cup {Resync})
        /\ missed \in Seq(PatchMessages \cup {Resync})
    BY <2>1, SeqMonotonic
  <2> QED BY <2>1, <2>2, AllWrittenFacts
<1>8. history' = LastOf(Append(h, m), History) /\ History \in Nat
  BY StateSyncAssumption DEF Commit
<1>9. queue' = IF conn \in {"subscribed", "streaming"} THEN Offer(q, m) ELSE queue
  BY DEF Commit
<1>11. missed = <<>> => missed' = <<>>
  BY <1>2 DEF w, AllWritten
<1> HIDE DEF h, q, w
\* The missed patches lead as far as before.
<1>10. /\ \A i \in 1..Len(missed') : missed'[i].version = last' + i
       /\ last' + Len(missed') <= version'
  BY <1>1, <1>2, <1>7, Elements DEF Order, RestLeadsToPresent
<1>4. \A i \in 1..Len(history') : history'[i].version = version' - (Len(history') - i)
  <2> DEFINE all == Append(h, m)
  <2>1. /\ all \in Seq(PatchMessages \cup {m}) /\ Len(all) = Len(history) + 1
        /\ \A i \in 1..Len(history) : all[i] = h[i]
        /\ all[Len(history) + 1] = m
    <3>1. h \in Seq(PatchMessages \cup {m})
      BY <1>7, SeqMonotonic
    <3> QED BY <1>7, <3>1, AppendProperties
  <2>2. \A i \in 1..Len(all) : all[i].version = version' - (Len(all) - i)
    <3> TAKE i \in 1..Len(all)
    <3> HIDE DEF all, m
    <3>1. Len(history) \in Nat /\ Len(all) = Len(history) + 1
      BY <2>1, Elements
    <3>2. CASE i \in 1..Len(history)
      <4>1. all[i].version = history[i].version
        BY <1>7, <2>1, <3>2
      <4>2. history[i].version = version - (Len(history) - i)
        BY <3>2 DEF Order, Consecutive
      <4> QED BY <1>1, <3>1, <3>2, <4>1, <4>2
    <3>3. CASE i = Len(history) + 1
      BY <1>1, <1>3, <2>1, <3>1, <3>3
    <3> QED BY <3>1, <3>2, <3>3
  <2>3. history' = LastOf(all, History) /\ History \in Nat
    BY <1>8
  <2> HIDE DEF all, m
  <2>4. /\ Len(history') = IF Len(all) <= History THEN Len(all) ELSE History
        /\ \A i \in 1..Len(history') : history'[i] = all[Len(all) - Len(history') + i]
    <3> DEFINE kept == LastOf(all, History)
               S == PatchMessages \cup {m}
    <3>3. all \in Seq(S)
      BY <2>1
    <3> HIDE DEF S
    <3>1. /\ Len(kept) = IF Len(all) <= History THEN Len(all) ELSE History
          /\ \A i \in 1..Len(kept) : kept[i] = all[Len(all) - Len(kept) + i]
      BY <2>3, <3>3, LastOfFacts
    <3> HIDE DEF kept
    <3>2. history' = kept
      BY <2>3 DEF kept
    <3> QED BY <3>1, <3>2
  <2>5. Len(all) \in Nat /\ Len(history') \in Nat /\ Len(history') <= Len(all)
    BY <1>7, <2>1, <2>3, <2>4, Elements
  <2> TAKE i \in 1..Len(history')
  <2> DEFINE j == Len(all) - Len(history') + i
  <2>6. j \in 1..Len(all) /\ Len(all) - j = Len(history') - i
    BY <2>5
  <2>7. all[j].version = version' - (Len(all) - j)
    BY <2>2, <2>6
  <2> QED BY <2>4, <2>6, <2>7
<1>5. CASE conn \notin {"subscribed", "streaming"}
  <2>1. queue' = queue /\ conn \in {"off", "hello"} /\ queue = <<>> /\ Len(<<>>) = 0
    BY <1>5, <1>9 DEF TypeOK, Order, Idle
  <2>2. missed' = <<>> /\ wire' = <<>>
    <3>1. missed = <<>> /\ wire = <<>>
      BY <1>5 DEF Order, Idle
    <3> QED BY <1>2, <1>11, <3>1
  <2> QED BY <1>1, <1>2, <1>4, <1>5, <1>10, <2>1, <2>2, Elements
    DEF Order, Consecutive, WireLeadsToLast, RestLeadsToPresent, SameServer, Idle, Expected
<1>6. CASE conn \in {"subscribed", "streaming"}
  <2>1. queue' = Offer(q, m) /\ q \in Seq(PatchMessages \cup {Resync, m})
    BY <1>6, <1>7, <1>9, SeqMonotonic
  <2>2. CASE Len(queue) < QueueSize
    <3>1. queue' = Append(q, m)
      BY <1>7, <2>1, <2>2 DEF Offer
    <3>2. /\ Len(queue') = Len(queue) + 1 /\ queue' # <<>>
          /\ \A i \in 1..Len(queue) : queue'[i] = q[i]
          /\ queue'[Len(queue) + 1] = m
      <4> HIDE DEF m
      <4>1. m \in PatchMessages \cup {Resync, m}
        OBVIOUS
      <4>2. /\ Len(queue') = Len(q) + 1 /\ \A i \in 1..Len(q) : queue'[i] = q[i]
            /\ queue'[Len(q) + 1] = m
        BY <2>1, <3>1, <4>1, AppendProperties
      <4>3. queue' # <<>>
        BY <1>7, <4>2, Elements
      <4> QED BY <1>7, <4>2, <4>3
    <3> HIDE DEF m
    <3>3. Consecutive'
      <4>1. \A i \in 1..Len(queue') : i \in 1..Len(queue) \/ i = Len(queue) + 1
        BY <3>2, Elements
      <4>2. ASSUME NEW i \in 1..Len(queue')
            PROVE  \/ /\ queue'[i].version = version' - (Len(queue') - i)
                      /\ queue'[i].kind = "patch"
                   \/ i = 1 /\ queue'[i] = Resync
        <5>1. CASE i \in 1..Len(queue)
          <6>1. \/ queue[i].version = version - (Len(queue) - i) /\ queue[i].kind = "patch"
                \/ i = 1 /\ queue[i] = Resync
            BY <5>1 DEF Order, Consecutive
          <6>2. version' - (Len(queue') - i) = version - (Len(queue) - i)
            BY <1>1, <3>2, <5>1, Elements
          <6>3. queue'[i] = q[i]
            BY <3>2, <5>1
          <6>4. /\ q[i].version = queue[i].version /\ q[i].kind = queue[i].kind
                /\ queue[i] = Resync => q[i] = Resync
            BY <1>7, <5>1
          <6> QED BY <6>1, <6>2, <6>3, <6>4
        <5>2. CASE i = Len(queue) + 1
          <6>1. version' - (Len(queue') - i) = version + 1
            BY <1>1, <3>2, <5>2, Elements
          <6> QED BY <1>3, <3>2, <5>2, <6>1
        <5> QED BY <4>1, <5>1, <5>2
      <4> QED BY <1>4, <4>2 DEF Consecutive
    <3>4. RestLeadsToPresent'
      <4>1. ASSUME queue # <<>>, queue[1] = Resync PROVE queue'[1] = Resync
        <5>1. 1 \in 1..Len(queue)
          BY <4>1, Elements, EmptySeq DEF TypeOK
        <5>2. q[1] = Resync
          BY <1>7, <4>1, <5>1
        <5>3. queue'[1] = q[1]
          BY <3>2, <5>1
        <5> QED BY <5>2, <5>3
      <4> QED BY <1>1, <1>2, <1>7, <1>10, <3>2, <4>1, Elements DEF Order, RestLeadsToPresent
    <3> QED BY <1>2, <1>6, <1>11, <3>3, <3>4
      DEF Order, WireLeadsToLast, SameServer, Idle, Expected
  <2>3. CASE ~(Len(queue) < QueueSize)
    <3>1. queue' = <<Resync>> /\ Len(queue') = 1 /\ queue'[1] = Resync /\ queue' # <<>>
      BY <1>7, <2>1, <2>3 DEF Offer
    <3>2. Consecutive'
      BY <1>4, <3>1 DEF Consecutive
    <3>3. RestLeadsToPresent'
      BY <1>2, <1>10, <3>1 DEF RestLeadsToPresent
    <3> QED BY <1>2, <1>6, <1>11, <3>2, <3>3
      DEF Order, WireLeadsToLast, SameServer, Idle, Expected
  <2> QED BY <2>2, <2>3
<1> QED BY <1>5, <1>6

\* The sender resumes where the client stopped, or starts over with a snapshot.
LEMMA BeginOrder ==
  ASSUME TypeOK, Order, BeginStream
  PROVE  Order'
<1>1. /\ UNCHANGED store /\ UNCHANGED client /\ queue' = queue /\ resume' = resume
      /\ conn = "subscribed" /\ conn' = "streaming"
      /\ wire = <<>> /\ missed = <<>> /\ Len(<<>>) = 0
  BY DEF BeginStream, Order, Idle
<1>2. /\ version' = version /\ epoch' = epoch /\ history' = history
      /\ cversion' = cversion /\ cepoch' = cepoch
  BY <1>1, RightSame DEF store, client
<1>3. Consecutive' /\ Idle'
  BY <1>1, <1>2 DEF Order, Consecutive, Idle
<1>4. CASE resume /\ HasSince(cversion)
  <2> DEFINE n == version - cversion
  <2>1. missed' = LastOf(history, n) /\ last' = cversion /\ wire' = wire
    BY <1>4 DEF BeginStream, Since
  <2>2. n \in Nat /\ n <= Len(history)
    <3>1. CASE version = cversion
      BY <3>1, Elements
    <3>2. CASE cversion < version /\ history # <<>> /\ history[1].version <= cversion + 1
      <4>1. Len(history) \in Nat \ {0}
        BY <3>2, Elements, EmptySeq DEF TypeOK
      <4>2. history[1].version = version - (Len(history) - 1)
        BY <4>1 DEF Order, Consecutive
      <4> QED BY <3>2, <4>1, <4>2, Elements
    <3> QED BY <1>4, <3>1, <3>2 DEF HasSince
  <2>3. history \in Seq(PatchMessages) /\ Len(history) \in Nat
    BY Elements DEF TypeOK
  <2> HIDE DEF n
  <2>4. /\ Len(LastOf(history, n)) = IF Len(history) <= n THEN Len(history) ELSE n
        /\ \A i \in 1..Len(LastOf(history, n)) :
             LastOf(history, n)[i] = history[Len(history) - Len(LastOf(history, n)) + i]
    BY <2>2, <2>3, LastOfFacts
  <2>5. Len(missed') = n /\ \A i \in 1..n : missed'[i] = history[Len(history) - n + i]
    <3> DEFINE kept == LastOf(history, n)
    <3>1. missed' = kept
      BY <2>1
    <3>2. /\ Len(kept) = IF Len(history) <= n THEN Len(history) ELSE n
          /\ \A i \in 1..Len(kept) : kept[i] = history[Len(history) - Len(kept) + i]
      BY <2>4
    <3> HIDE DEF kept
    <3>3. Len(kept) = n
      BY <2>2, <2>3, <3>2
    <3> QED BY <3>1, <3>2, <3>3
  <2>6. \A i \in 1..Len(missed') : missed'[i].version = last' + i
    <3> TAKE i \in 1..Len(missed')
    <3> DEFINE j == Len(history) - n + i
    <3>1. j \in 1..Len(history) /\ Len(history) - j = n - i
      BY <2>2, <2>3, <2>5
    <3>2. history[j].version = version - (Len(history) - j)
      BY <3>1 DEF Order, Consecutive
    <3>3. version - (n - i) = cversion + i
      BY <2>2, <2>5, Elements DEF n
    <3> QED BY <2>1, <2>5, <3>1, <3>2, <3>3
  <2>7. last' + Len(missed') = version
    BY <2>1, <2>5, Elements DEF n
  <2>8. RestLeadsToPresent'
    BY <1>1, <1>2, <2>6, <2>7, Elements DEF RestLeadsToPresent
  <2>9. SameServer'
    BY <1>1, <1>2, <1>4 DEF Order, SameServer
  <2>10. WireLeadsToLast'
    BY <1>1, <1>2, <2>1 DEF WireLeadsToLast
  <2> QED BY <1>3, <2>8, <2>9, <2>10 DEF Order
<1>5. CASE ~(resume /\ HasSince(cversion))
  <2> DEFINE m == Snapshot(epoch, version, state)
  <2>1. wire' = Append(wire, m) /\ last' = version /\ missed' = missed
    BY <1>5 DEF BeginStream, SendSnapshot, Send
  <2>2. m.kind = "snapshot" /\ m.version = version
    BY DEF Snapshot
  <2>3. wire' = <<m>> /\ Len(wire') = 1 /\ wire'[1] = m /\ wire' # <<>>
    BY <1>1, <2>1
  <2> HIDE DEF m
  <2>4. WireLeadsToLast'
    BY <2>1, <2>2, <2>3 DEF WireLeadsToLast, Expected
  <2>5. RestLeadsToPresent'
    BY <1>1, <1>2, <2>1, Elements DEF RestLeadsToPresent
  <2>6. SameServer'
    BY <1>1, <1>2, <2>2, <2>3 DEF Order, SameServer
  <2> QED BY <1>3, <2>4, <2>5, <2>6 DEF Order
<1> QED BY <1>4, <1>5

\* A message that follows the last one may join the wire.
LEMMA SendOrder ==
  ASSUME TypeOK, Order, conn = "streaming", conn' = conn, resume' = resume,
         UNCHANGED store, UNCHANGED client,
         NEW m \in PatchMessages \cup Snapshots, wire' = Append(wire, m),
         last' = m.version, m.kind = "snapshot" \/ m.version = last + 1
  PROVE  WireLeadsToLast' /\ SameServer' /\ Idle'
<1>1. /\ Len(wire') = Len(wire) + 1 /\ wire' # <<>> /\ Len(wire) \in Nat
      /\ \A i \in 1..Len(wire) : wire'[i] = wire[i]
      /\ wire'[Len(wire) + 1] = m
  BY AppendProperties, Elements DEF TypeOK
<1>2. cversion' = cversion /\ cepoch' = cepoch /\ epoch' = epoch
  BY DEF store, client
<1>3. wire = <<>> => Len(wire) = 0 /\ last = cversion
  BY DEF Order, WireLeadsToLast
<1>4. wire # <<>> => Len(wire) > 0 /\ wire[Len(wire)].version = last
  BY <1>1, EmptySeq DEF Order, WireLeadsToLast, TypeOK
<1>5. wire'[1].kind = "snapshot" \/ wire'[1].version = cversion' + 1
  <2>1. CASE wire = <<>>
    BY <1>1, <1>2, <1>3, <2>1 DEF Expected
  <2>2. CASE wire # <<>>
    <3>1. wire'[1] = wire[1] /\ Expected(wire[1])
      BY <1>1, <1>4, <2>2 DEF Order, WireLeadsToLast
    <3> QED BY <1>2, <3>1 DEF Expected
  <2> QED BY <2>1, <2>2
<1>6. ASSUME NEW i \in 2..Len(wire')
      PROVE  wire'[i].kind = "snapshot" \/ wire'[i].version = wire'[i - 1].version + 1
  <2>1. CASE i \in 2..Len(wire)
    <3>1. wire'[i] = wire[i] /\ wire'[i - 1] = wire[i - 1]
      BY <1>1, <2>1
    <3> QED BY <2>1, <3>1 DEF Order, WireLeadsToLast
  <2>2. CASE i = Len(wire) + 1
    <3>1. Len(wire) > 0 /\ wire # <<>> /\ i - 1 = Len(wire)
      BY <1>1, <1>3, <2>2
    <3>2. wire'[i] = m
      BY <1>1, <2>2
    <3>3. wire'[i - 1] = wire[Len(wire)]
      BY <1>1, <3>1
    <3> QED BY <1>4, <3>1, <3>2, <3>3
  <2> QED BY <1>1, <2>1, <2>2
<1>7. WireLeadsToLast'
  BY <1>1, <1>5, <1>6 DEF WireLeadsToLast, Expected
<1>8. SameServer'
  BY <1>1, <1>2 DEF Order, SameServer
<1> QED BY <1>7, <1>8 DEF Idle

\* The next missed patch follows what was sent.
LEMMA MissedOrder ==
  ASSUME TypeOK, Order, SendMissed
  PROVE  Order'
<1> DEFINE m == Head(missed)
<1>1. /\ UNCHANGED store /\ UNCHANGED client /\ queue' = queue /\ resume' = resume
      /\ conn = "streaming" /\ conn' = conn /\ missed # <<>> /\ missed' = Tail(missed)
      /\ wire' = Append(wire, m) /\ last' = m.version
  BY DEF SendMissed, Send
<1>2. version' = version /\ history' = history
  BY <1>1, RightSame DEF store
<1>3. /\ m \in PatchMessages /\ m = missed[1] /\ Len(missed) \in Nat \ {0}
      /\ Len(missed') = Len(missed) - 1
      /\ \A i \in 1..Len(missed') : missed'[i] = missed[i + 1]
  BY <1>1, HeadTailProperties, Elements, EmptySeq DEF TypeOK
<1> HIDE DEF m
<1>4. m.version = last + 1
  BY <1>3 DEF Order, RestLeadsToPresent
<1>5. WireLeadsToLast' /\ SameServer' /\ Idle'
  BY <1>1, <1>3, <1>4, SendOrder
<1>6. Consecutive'
  BY <1>1, <1>2 DEF Order, Consecutive
<1>7. RestLeadsToPresent'
  <2>1. last' + Len(missed') = last + Len(missed)
    BY <1>1, <1>3, <1>4, Elements
  <2>2. \A i \in 1..Len(missed') : missed'[i].version = last' + i
    <3> TAKE i \in 1..Len(missed')
    <3>1. i + 1 \in 1..Len(missed) /\ missed'[i] = missed[i + 1]
      BY <1>3
    <3>2. missed[i + 1].version = last + (i + 1)
      BY <3>1 DEF Order, RestLeadsToPresent
    <3> QED BY <1>1, <1>4, <3>1, <3>2, Elements
  <2> QED BY <1>1, <1>2, <2>1, <2>2 DEF Order, RestLeadsToPresent
<1> QED BY <1>5, <1>6, <1>7 DEF Order

\* The head of the queue follows what was sent, is contained in it, or says that
\* patches are gone and is answered with a snapshot.
LEMMA NextOrder ==
  ASSUME TypeOK, Order, SendNext
  PROVE  Order'
<1> DEFINE m == Head(queue)
<1>1. /\ UNCHANGED store /\ UNCHANGED client /\ missed' = missed /\ resume' = resume
      /\ conn = "streaming" /\ conn' = conn /\ queue # <<>> /\ queue' = Tail(queue)
      /\ missed = <<>> /\ Len(<<>>) = 0
  BY DEF SendNext
<1>2. /\ version' = version /\ history' = history
      /\ cversion' = cversion /\ cepoch' = cepoch /\ epoch' = epoch
  BY <1>1, RightSame DEF store, client
<1>3. /\ m \in PatchMessages \cup {Resync} /\ m = queue[1] /\ Len(queue) \in Nat \ {0}
      /\ Len(queue') = Len(queue) - 1
      /\ \A i \in 1..Len(queue') : queue'[i] = queue[i + 1]
  BY <1>1, HeadTailProperties, Elements, EmptySeq DEF TypeOK
<1>4. /\ m = Resync => SendSnapshot
      /\ m # Resync /\ m.version > last => Send(m) /\ last' = m.version
      /\ m # Resync /\ ~(m.version > last) => UNCHANGED <<last, wire>>
  BY DEF SendNext
<1> HIDE DEF m
<1>5. \A i \in 1..Len(queue') :
        /\ queue'[i].version = version' - (Len(queue') - i) /\ queue'[i].kind = "patch"
  <2> TAKE i \in 1..Len(queue')
  <2>1. i + 1 \in 1..Len(queue) /\ i + 1 # 1 /\ queue'[i] = queue[i + 1]
    BY <1>3
  <2>2. /\ queue[i + 1].version = version - (Len(queue) - (i + 1))
        /\ queue[i + 1].kind = "patch"
    BY <2>1 DEF Order, Consecutive
  <2>3. version' - (Len(queue') - i) = version - (Len(queue) - (i + 1))
    BY <1>2, <1>3, Elements
  <2> QED BY <2>1, <2>2, <2>3
<1>6. Consecutive'
  BY <1>2, <1>5 DEF Order, Consecutive
<1>7. last <= version
  BY <1>1, Elements DEF Order, RestLeadsToPresent
\* What was sent reaches at least to the rest of the queue.
<1>8. ASSUME last' \in Nat, last' <= version, version - Len(queue') <= last'
      PROVE  RestLeadsToPresent'
  BY <1>1, <1>2, <1>8 DEF RestLeadsToPresent
<1>9. CASE m = Resync
  <2> DEFINE s == Snapshot(epoch, version, state)
  <2>1. wire' = Append(wire, s) /\ last' = version
    BY <1>4, <1>9 DEF SendSnapshot, Send
  <2>2. s \in PatchMessages \cup Snapshots /\ s.kind = "snapshot" /\ s.version = version
    BY SnapshotRight DEF RightSnapshots, Snapshot
  <2> HIDE DEF s
  <2>3. WireLeadsToLast' /\ SameServer' /\ Idle'
    BY <1>1, <2>1, <2>2, SendOrder
  <2>4. RestLeadsToPresent'
    BY <1>3, <1>8, <2>1, Elements
  <2> QED BY <1>6, <2>3, <2>4 DEF Order
<1>10. CASE m # Resync
  <2>1. m.version = version - (Len(queue) - 1) /\ m \in PatchMessages
    BY <1>3, <1>10 DEF Order, Consecutive
  <2>2. version - Len(queue) <= last
    BY <1>1, <1>3, <1>10, Elements DEF Order, RestLeadsToPresent
  <2>3. CASE m.version > last
    <3>1. wire' = Append(wire, m) /\ last' = m.version
      BY <1>4, <1>10, <2>3 DEF Send
    <3>2. m.version = last + 1 /\ m.version <= version
      BY <1>3, <2>1, <2>2, <2>3, Elements
    <3>3. WireLeadsToLast' /\ SameServer' /\ Idle'
      BY <1>1, <2>1, <3>1, <3>2, SendOrder
    <3>4. RestLeadsToPresent'
      BY <1>3, <1>8, <2>1, <3>1, <3>2, Elements
    <3> QED BY <1>6, <3>3, <3>4 DEF Order
  <2>4. CASE ~(m.version > last)
    <3>1. last' = last /\ wire' = wire
      BY <1>4, <1>10, <2>4
    <3>2. RestLeadsToPresent'
      BY <1>3, <1>7, <1>8, <2>1, <2>4, <3>1, Elements
    <3> QED BY <1>1, <1>2, <1>6, <3>1, <3>2
      DEF Order, WireLeadsToLast, SameServer, Idle, Expected
  <2> QED BY <2>3, <2>4
<1> QED BY <1>9, <1>10

\* The client takes what it expects, and the next message follows that.
LEMMA ReceiveOrder ==
  ASSUME TypeOK, Right, Order, Receive
  PROVE  Order'
<1> DEFINE m == Head(wire)
<1>1. /\ wire # <<>> /\ m = wire[1] /\ Len(wire) \in Nat \ {0}
      /\ Len(Tail(wire)) = Len(wire) - 1
      /\ \A i \in 1..Len(Tail(wire)) : Tail(wire)[i] = wire[i + 1]
      /\ Tail(wire) \in Seq(PatchMessages \cup Snapshots)
      /\ m \in RightPatches \cup RightSnapshots
  <2>1. wire # <<>>
    BY DEF Receive
  <2>2. /\ wire \in Seq(PatchMessages \cup Snapshots)
        /\ wire \in Seq(RightPatches \cup RightSnapshots)
    BY DEF TypeOK, Right
  <2> QED BY <2>1, <2>2, HeadTailProperties, Elements, EmptySeq
<1>2. Expected(m) /\ conn = "streaming" /\ last = wire[Len(wire)].version
  BY <1>1 DEF Order, WireLeadsToLast, Idle, TypeOK
<1>3. /\ Take(m) /\ wire' = Tail(wire) /\ UNCHANGED store
      /\ conn' = conn /\ resume' = resume /\ queue' = queue /\ missed' = missed /\ last' = last
  BY <1>2 DEF Receive
<1> HIDE DEF m
<1>4. version' = version /\ history' = history /\ epoch' = epoch
  BY <1>3, RightSame DEF store
<1>5. cversion' = m.version
  BY <1>3 DEF Take
<1>6. Consecutive' /\ RestLeadsToPresent' /\ Idle'
  BY <1>2, <1>3, <1>4 DEF Order, Consecutive, RestLeadsToPresent, Idle
<1>7. WireLeadsToLast'
  <2>1. CASE Len(wire) = 1
    <3>1. wire' = <<>> /\ Len(wire') = 0 /\ last = m.version
      BY <1>1, <1>2, <1>3, <2>1, EmptySeq
    <3> QED BY <1>3, <1>5, <3>1 DEF WireLeadsToLast
  <2>2. CASE Len(wire) > 1
    <3>1. /\ Len(wire') = Len(wire) - 1 /\ 2 \in 2..Len(wire)
          /\ wire'[1] = wire[2] /\ wire'[Len(wire')] = wire[Len(wire)] /\ wire' # <<>>
      <4>1. /\ Len(wire') = Len(wire) - 1 /\ 2 \in 2..Len(wire) /\ wire' = Tail(wire)
            /\ 1 \in 1..Len(Tail(wire)) /\ Len(wire') \in 1..Len(Tail(wire))
        BY <1>1, <1>3, <2>2
      <4>2. wire'[1] = wire[1 + 1] /\ wire'[Len(wire')] = wire[Len(wire') + 1]
        BY <1>1, <4>1
      <4>3. 1 + 1 = 2 /\ Len(wire') + 1 = Len(wire)
        BY <1>1, <4>1
      <4>4. wire' # <<>>
        BY <4>1, EmptySeq
      <4> QED BY <4>1, <4>2, <4>3, <4>4
    <3>2. wire[2].kind = "snapshot" \/ wire[2].version = wire[1].version + 1
      <4>1. wire[2].kind = "snapshot" \/ wire[2].version = wire[2 - 1].version + 1
        BY <3>1 DEF Order, WireLeadsToLast
      <4> QED BY <4>1
    <3>3. wire'[1].kind = "snapshot" \/ wire'[1].version = cversion' + 1
      BY <1>1, <1>5, <3>1, <3>2
    <3>4. ASSUME NEW i \in 2..Len(wire')
          PROVE  wire'[i].kind = "snapshot" \/ wire'[i].version = wire'[i - 1].version + 1
      <4>1. /\ i + 1 \in 2..Len(wire) /\ (i + 1) - 1 = i
            /\ wire'[i] = wire[i + 1] /\ wire'[i - 1] = wire[i]
        BY <1>1, <1>3, <3>1
      <4>2. \/ wire[i + 1].kind = "snapshot"
            \/ wire[i + 1].version = wire[(i + 1) - 1].version + 1
        BY <4>1 DEF Order, WireLeadsToLast
      <4> QED BY <4>1, <4>2
    <3> QED BY <1>2, <1>3, <3>1, <3>3, <3>4 DEF WireLeadsToLast, Expected
  <2> QED BY <1>1, <2>1, <2>2
<1>8. SameServer'
  <2>1. CASE m.kind = "snapshot"
    <3>1. cepoch' = m.epoch
      BY <1>3, <2>1 DEF Take
    <3>2. m.epoch = epoch
      BY <1>1, <2>1, MessageFacts DEF RightPatches, RightSnapshots
    <3> QED BY <1>4, <3>1, <3>2 DEF SameServer
  <2>2. CASE m.kind # "snapshot"
    <3>1. cepoch' = cepoch
      BY <1>3, <2>2 DEF Take
    <3>2. ASSUME cepoch # epoch PROVE \E i \in 1..Len(wire') : wire'[i].kind = "snapshot"
      <4>1. PICK i \in 1..Len(wire) : wire[i].kind = "snapshot"
        BY <1>2, <3>2 DEF Order, SameServer
      <4>2. i # 1
        BY <1>1, <2>2, <4>1
      <4>3. i - 1 \in 1..Len(wire') /\ wire'[i - 1] = wire[i]
        BY <1>1, <1>3, <4>2
      <4> QED BY <4>1, <4>3
    <3> QED BY <1>2, <1>3, <1>4, <3>1, <3>2 DEF Order, SameServer
  <2> QED BY <2>1, <2>2
<1> QED BY <1>6, <1>7, <1>8 DEF Order

LEMMA StepOrder == ValuesRight /\ Order /\ [Next]_vars => Order'
<1> SUFFICES ASSUME TypeOK, Right, Order, [Next]_vars PROVE Order'
  BY DEF ValuesRight
<1>1. version \in Nat /\ \A i \in 1..Len(history) :
        history[i].version = version - (Len(history) - i)
  BY Elements DEF Order, Consecutive
\* A connection ends, whatever the reason, and the store is as it was.
<1>2. ASSUME Unsubscribed, UNCHANGED store PROVE Order'
  <2>1. version' = version /\ history' = history
    BY <1>2, RightSame DEF store
  <2> QED BY <1>1, <1>2, <2>1, UnsubscribedOrder
<1>3. ASSUME NEW p \in Patches, Commit(p) PROVE Order'
  BY <1>3, CommitOrder
<1>4. ASSUME UNCHANGED <<store, client, queue, missed, last, wire>>, conn # "streaming",
             conn' # "streaming", conn' = "subscribed" => resume' \in {cepoch = epoch, FALSE},
             conn' \in {"off", "hello"} => conn \in {"off", "hello"}
      PROVE  Order'
  <2>1. /\ version' = version /\ history' = history
        /\ cversion' = cversion /\ cepoch' = cepoch /\ epoch' = epoch
    BY <1>4, RightSame DEF store, client
  <2> QED BY <1>4, <2>1
    DEF Order, Consecutive, WireLeadsToLast, RestLeadsToPresent, SameServer, Idle, Expected
<1>5. CASE Connect
  BY <1>4, <1>5 DEF Connect
<1>6. CASE Subscribe
  BY <1>4, <1>6 DEF Subscribe
<1>7. CASE BeginStream
  BY <1>7, BeginOrder
<1>8. CASE SendMissed
  BY <1>8, MissedOrder
<1>9. CASE SendNext
  BY <1>9, NextOrder
<1>10. CASE Receive
  BY <1>10, ReceiveOrder
<1>11. CASE Break
  BY <1>2, <1>11 DEF Break
<1>12. CASE Restart
  <2>1. Unsubscribed /\ past' = <<Nothing>> /\ history' = <<>>
    BY <1>12 DEF Restart
  <2>2. version' \in Nat /\ Len(history') = 0
    BY <2>1 DEF version
  <2> QED BY <2>1, <2>2, UnsubscribedOrder
<1>13. CASE UNCHANGED vars
  <2>1. /\ UNCHANGED <<store, stream, client>> /\ version' = version
    BY <1>13, RightSame DEF vars
  <2> QED BY <2>1
    DEF store, stream, client, Order, Consecutive, WireLeadsToLast, RestLeadsToPresent,
        SameServer, Idle, Expected
<1> QED
  BY <1>3, <1>5, <1>6, <1>7, <1>8, <1>9, <1>10, <1>11, <1>12, <1>13
     DEF Next, Streaming, Sender

\* With nothing under way, what a client shows is the present.
LEMMA OrderShowsPresent == ValuesRight /\ Order => ShowsPresent
<1> SUFFICES ASSUME TypeOK, ShowsBetween, Order, Quiet PROVE cstate = state /\ cversion = version
  BY DEF ValuesRight, ShowsPresent
<1>1. conn = "streaming" /\ wire = <<>> /\ missed = <<>> /\ queue = <<>> /\ Len(<<>>) = 0
  BY DEF Quiet
<1>2. cepoch = epoch /\ last = cversion
  BY <1>1 DEF Order, SameServer, WireLeadsToLast
<1>3. cversion = version
  BY <1>1, <1>2, Elements DEF Order, RestLeadsToPresent
<1>4. state = past[version + 1]
  BY VersionFacts DEF state
<1>5. ASSUME NEW k \in Keys PROVE cstate[k] = state[k]
  <2>1. PICK v \in cversion..version : cstate[k] = past[v + 1][k]
    BY <1>2 DEF ShowsBetween
  <2>2. v = version
    BY <1>3, Elements
  <2> QED BY <1>4, <2>1, <2>2
<1>6. cstate = state
  BY <1>5, VersionFacts DEF TypeOK, States
<1> QED BY <1>3, <1>6

\* The client mirrors the server: what it shows at each key, the server had there at the
\* version the client names or has had since, and all of it is the present when nothing is
\* under way.
THEOREM ClientMirrors == Spec => []Mirror
<1>1. Init => ValuesRight /\ Order
  BY InitType, InitValues, InitOrder DEF ValuesRight
<1>2. ValuesRight /\ Order /\ [Next]_vars => (ValuesRight /\ Order)'
  BY StepType, StepValues, StepOrder DEF ValuesRight
<1>3. ValuesRight /\ Order => Mirror
  BY OrderShowsPresent DEF ValuesRight, Mirror
<1> QED BY <1>1, <1>2, <1>3, PTL DEF Spec

\* The server never streams a gap, so that the client's check for one never costs a
\* reconnection: neither a full queue nor a short history skips a version unnoticed.
THEOREM NeverAGap == Spec => []NoGap
<1>1. Init => ValuesRight /\ Order
  BY InitType, InitValues, InitOrder DEF ValuesRight
<1>2. ValuesRight /\ Order /\ [Next]_vars => (ValuesRight /\ Order)'
  BY StepType, StepValues, StepOrder DEF ValuesRight
<1>3. ValuesRight /\ Order => NoGap
  BY DEF Order, WireLeadsToLast, NoGap
<1> QED BY <1>1, <1>2, <1>3, PTL DEF Spec
=============================================================================
