------------------------------ MODULE StateSync ------------------------------
(***************************************************************************)
(* The state shared with a client: StateStore and its subscriptions         *)
(* (nocs.state.store), the WebSocket that streams them (_stream_state in    *)
(* nocs.api.app) and the client's mirror (web/src/lib/live.svelte.ts).      *)
(*                                                                          *)
(* One client is modelled: subscriptions do not affect each other.  A patch *)
(* is a function from the keys it touches to their values (None deletes)    *)
(* and the branches of the tree it sets as one value.  That value is not    *)
(* copied into the tree: it is the tree's node from then on, and later      *)
(* changes inside it change the patch as well, wherever it still waits.     *)
(* The order of the operations in one patch and branches inside branches    *)
(* are left out.  A server's handler that outlives its socket is too: what  *)
(* it sends reaches nobody.                                                 *)
(***************************************************************************)
EXTENDS Naturals, Sequences

CONSTANTS
  Keys, Values,
  None,         \* no value at a key, and no epoch yet
  Branches,     \* the sets of keys below one node of the tree
  Patches,      \* the changes commits make
  History,      \* patches kept for clients that reconnect
  QueueSize,    \* patches a subscription holds
  WireSize,     \* messages under way before sending blocks
  MaxVersion,   \* bound: commits of one server
  MaxRestarts,  \* bound: restarts of the server
  MaxBreaks     \* bound: connections broken by the network

Optional == Values \cup {None}
States == [Keys -> Optional]
Epochs == 0..MaxRestarts
Versions == 0..MaxVersion
Changes == UNION {[K -> Optional] : K \in (SUBSET Keys) \ {{}}}

ASSUME StateSyncAssumption ==
  /\ None \notin Values \cup Epochs
  /\ Branches \subseteq SUBSET Keys
  /\ Patches \subseteq [body : Changes, whole : SUBSET Branches]
  /\ \A p \in Patches : \A b \in p.whole : b \subseteq DOMAIN p.body
  /\ History \in Nat \ {0} /\ QueueSize \in Nat \ {0} /\ WireSize \in Nat \ {0}
  /\ MaxVersion \in Nat /\ MaxRestarts \in Nat /\ MaxBreaks \in Nat

VARIABLES
  epoch,     \* StateStore.epoch: which server this is
  past,      \* the state at each version so far: past[version + 1] is the present
  history,   \* StateStore._history
  holder,    \* the version whose patch holds the node of a branch, or 0
  conn,      \* the client's socket: "off", "hello" (open, its hello under way),
             \* "subscribed" (the server read the hello) or "streaming"
  resume,    \* the hello named this server's epoch
  queue,     \* Subscription._queue
  missed,    \* patches_since(since), those still to be sent
  last,      \* sender's last
  wire,      \* messages on their way to the client
  cstate, cversion, cepoch,  \* Live.state, version and #epoch
  breaks     \* connections broken so far

store == <<epoch, past, history, holder>>
stream == <<conn, resume, queue, missed, last, wire>>
client == <<cstate, cversion, cepoch>>
vars == <<store, stream, client, breaks>>

\* The messages: a patch, as the keys it sets now, and the version it makes; a snapshot;
\* and the marker that a subscription fell behind.
Patch(v, p) == [kind |-> "patch", version |-> v, epoch |-> None, body |-> p]
Snapshot(e, v, s) == [kind |-> "snapshot", version |-> v, epoch |-> e, body |-> s]
Resync == [kind |-> "resync", version |-> 0, epoch |-> None, body |-> None]

PatchMessages == {Patch(v, p) : v \in Versions \ {0}, p \in Changes}
Snapshots == {Snapshot(e, v, s) : e \in Epochs, v \in Versions, s \in States}

TypeOK ==
  /\ epoch \in Epochs
  /\ past \in Seq(States) /\ Len(past) \in 1..(MaxVersion + 1)
  /\ history \in Seq(PatchMessages) /\ Len(history) <= History
  /\ holder \in [Branches -> Versions]
  /\ conn \in {"off", "hello", "subscribed", "streaming"}
  /\ resume \in BOOLEAN
  /\ queue \in Seq(PatchMessages \cup {Resync}) /\ Len(queue) <= QueueSize
  /\ missed \in Seq(PatchMessages)
  /\ last \in Versions
  /\ wire \in Seq(PatchMessages \cup Snapshots) /\ Len(wire) <= WireSize
  /\ cstate \in States /\ cversion \in Versions /\ cepoch \in Epochs \cup {None}
  /\ breaks \in 0..MaxBreaks

Nothing == [k \in Keys |-> None]

Init ==
  /\ epoch = 0 /\ past = <<Nothing>> /\ history = <<>> /\ holder = [b \in Branches |-> 0]
  /\ conn = "off" /\ resume = FALSE
  /\ queue = <<>> /\ missed = <<>> /\ last = 0 /\ wire = <<>>
  /\ cstate = Nothing /\ cversion = 0 /\ cepoch = None
  /\ breaks = 0

----------------------------------------------------------------------------
(* StateStore *)

version == Len(past) - 1
state == past[Len(past)]

\* applyOp in the client and _apply in the store do the same.
Apply(s, p) == [k \in Keys |-> IF k \in DOMAIN p THEN p[k] ELSE s[k]]

\* The last n of a sequence, as a deque of that length keeps them.
LastOf(s, n) == IF Len(s) <= n THEN s ELSE SubSeq(s, Len(s) - n + 1, Len(s))

\* (Mutant) A full queue is emptied, and nobody told.
Offer_NoResync(q, m) == IF Len(q) < QueueSize THEN Append(q, m) ELSE <<>>

\* Subscription._offer: a full queue is emptied and says that it was.
Offer(q, m) == IF Len(q) < QueueSize THEN Append(q, m) ELSE <<Resync>>

\* Branches whose node goes with the change p: replaced as one value, or deleted.
Deleted(p) == {b \in Branches : b \subseteq DOMAIN p.body /\ \A k \in b : p.body[k] = None}
Replaced(p) == p.whole \cup Deleted(p)

\* _apply of p writes key k in the value that the patch of version v set: it is the node.
WritesIn(p, k, v) ==
  /\ k \in DOMAIN p.body
  /\ \E b \in Branches \ Replaced(p) : k \in b /\ holder[b] = v

\* A patch that waits, or is kept, once p was applied to the tree ...
Written(m, p) ==
  IF m.kind # "patch" THEN m
  ELSE Patch(m.version,
             [k \in DOMAIN m.body |->
                IF WritesIn(p, k, m.version) THEN p.body[k] ELSE m.body[k]])

\* ... and all of them: history, queues and patches_since share the patches.
AllWritten(s, p) == [i \in 1..Len(s) |-> Written(s[i], p)]

\* (Mutant) The change is applied to the tree once subscribers were offered the version
\* before it.
Commit_StalePatch(p) ==
  /\ version < MaxVersion
  /\ past' = Append(past, Apply(state, p.body))
  /\ history' = LastOf(Append(AllWritten(history, p), Patch(version + 1, p.body)), History)
  /\ holder' = [b \in Branches |->
                 IF b \in p.whole THEN version + 1 ELSE IF b \in Deleted(p) THEN 0 ELSE holder[b]]
  /\ queue' = IF conn \in {"subscribed", "streaming"}
              THEN Offer(AllWritten(queue, p),
                         Patch(version + 1, [k \in DOMAIN p.body |-> state[k]]))
              ELSE queue
  /\ missed' = AllWritten(missed, p)
  /\ UNCHANGED <<epoch, conn, resume, last, wire, client, breaks>>

\* StateStore._apply and _commit, of one change or of a transaction.
Commit(p) ==
  /\ version < MaxVersion
  /\ past' = Append(past, Apply(state, p.body))
  /\ history' = LastOf(Append(AllWritten(history, p), Patch(version + 1, p.body)), History)
  /\ holder' = [b \in Branches |->
                 IF b \in p.whole THEN version + 1 ELSE IF b \in Deleted(p) THEN 0 ELSE holder[b]]
  /\ queue' = IF conn \in {"subscribed", "streaming"}
              THEN Offer(AllWritten(queue, p), Patch(version + 1, p.body))
              ELSE queue
  /\ missed' = AllWritten(missed, p)
  /\ UNCHANGED <<epoch, conn, resume, last, wire, client, breaks>>

\* patches_since: are all the patches after version v still there?
HasSince(v) ==
  \/ v = version
  \/ v < version /\ history # <<>> /\ history[1].version <= v + 1

\* The patches after version v.  There is one for each version, in order: they are
\* the last ones.
Since(v) == LastOf(history, version - v)

----------------------------------------------------------------------------
(* The connection *)

Unsubscribed ==
  /\ conn' = "off" /\ resume' = FALSE
  /\ queue' = <<>> /\ missed' = <<>> /\ last' = 0 /\ wire' = <<>>

\* Live.#connect and onopen: the client says what it holds.
Connect ==
  /\ conn = "off"
  /\ conn' = "hello"
  /\ UNCHANGED <<store, resume, queue, missed, last, wire, client, breaks>>

\* (Mutant) The hello's epoch is not compared.
Subscribe_AnyEpoch ==
  /\ conn = "hello"
  /\ conn' = "subscribed"
  /\ resume' \in {cepoch # None, FALSE}
  /\ UNCHANGED <<store, queue, missed, last, wire, client, breaks>>

\* The server reads the hello, or has waited for it long enough, and subscribes.
Subscribe ==
  /\ conn = "hello"
  /\ conn' = "subscribed"
  /\ resume' \in {cepoch = epoch, FALSE}
  /\ UNCHANGED <<store, queue, missed, last, wire, client, breaks>>

Send(m) == Len(wire) < WireSize /\ wire' = Append(wire, m)
SendSnapshot == Send(Snapshot(epoch, version, state)) /\ last' = version

\* The sender begins: with the patches missed, or with a snapshot.
BeginStream ==
  /\ conn = "subscribed"
  /\ conn' = "streaming"
  /\ IF resume /\ HasSince(cversion)
     THEN missed' = Since(cversion) /\ last' = cversion /\ UNCHANGED wire
     ELSE SendSnapshot /\ UNCHANGED missed
  /\ UNCHANGED <<store, resume, queue, client, breaks>>

\* The sender goes on with the patches missed.
SendMissed ==
  /\ conn = "streaming" /\ missed # <<>>
  /\ Send(Head(missed))
  /\ last' = Head(missed).version
  /\ missed' = Tail(missed)
  /\ UNCHANGED <<store, conn, resume, queue, client, breaks>>

\* (Mutant) Patches that what was sent contains are sent again.
SendNext_Twice ==
  /\ conn = "streaming" /\ missed = <<>> /\ queue # <<>>
  /\ queue' = Tail(queue)
  /\ IF Head(queue) = Resync
     THEN SendSnapshot
     ELSE Send(Head(queue)) /\ last' = Head(queue).version
  /\ UNCHANGED <<store, conn, resume, missed, client, breaks>>

\* The sender takes the next of the subscription.
SendNext ==
  /\ conn = "streaming" /\ missed = <<>> /\ queue # <<>>
  /\ queue' = Tail(queue)
  /\ IF Head(queue) = Resync THEN SendSnapshot
     ELSE IF Head(queue).version > last
     THEN Send(Head(queue)) /\ last' = Head(queue).version
     ELSE UNCHANGED <<last, wire>>
  /\ UNCHANGED <<store, conn, resume, missed, client, breaks>>

----------------------------------------------------------------------------
(* The client *)

Expected(m) == m.kind = "snapshot" \/ m.version = cversion + 1

\* A snapshot replaces the state, the next patch changes it.
Take(m) ==
  /\ cversion' = m.version
  /\ IF m.kind = "snapshot" THEN cstate' = m.body /\ cepoch' = m.epoch
                            ELSE cstate' = Apply(cstate, m.body) /\ UNCHANGED cepoch

\* Live.#handle: any patch but the next tells of a gap, and the socket is closed
\* (NoGap says that the server gives no occasion).
Receive ==
  /\ wire # <<>>
  /\ IF Expected(Head(wire))
     THEN /\ Take(Head(wire))
          /\ wire' = Tail(wire)
          /\ UNCHANGED <<conn, resume, queue, missed, last>>
     ELSE Unsubscribed /\ UNCHANGED client
  /\ UNCHANGED <<store, breaks>>

----------------------------------------------------------------------------
(* Failures *)

\* The phone sleeps or the Wi-Fi drops; what was under way is lost.
Break ==
  /\ conn # "off" /\ breaks < MaxBreaks
  /\ breaks' = breaks + 1
  /\ Unsubscribed
  /\ UNCHANGED <<store, client>>

\* nocsd starts again: another epoch, an empty state.
Restart ==
  /\ epoch < MaxRestarts
  /\ epoch' = epoch + 1 /\ past' = <<Nothing>> /\ history' = <<>>
  /\ holder' = [b \in Branches |-> 0]
  /\ Unsubscribed
  /\ UNCHANGED <<client, breaks>>

----------------------------------------------------------------------------

Sender == BeginStream \/ SendMissed \/ SendNext
Streaming == Connect \/ Subscribe \/ Sender \/ Receive

Next == (\E p \in Patches : Commit(p)) \/ Streaming \/ Break \/ Restart

\* The event loop steps the sender, TCP delivers, and the client reconnects after
\* its backoff.  Nothing need be committed.
Fairness == WF_vars(Streaming)

Spec == Init /\ [][Next]_vars
FairSpec == Spec /\ Fairness

----------------------------------------------------------------------------
(* Properties *)

\* Everything the server had to say has reached the client.
Quiet == conn = "streaming" /\ wire = <<>> /\ missed = <<>> /\ queue = <<>>

\* What a client shows at a key, the server had there at the version the client names or
\* has had since ...
ShowsBetween ==
  cepoch = epoch =>
    /\ cversion <= version
    /\ \A k \in Keys : \E v \in cversion..version : cstate[k] = past[v + 1][k]

\* ... and it is the present when nothing is under way.
ShowsPresent == Quiet => cstate = state /\ cversion = version

\* The client mirrors the server: through any losses, resyncs, reconnections and
\* restarts no change is skipped, undone or mixed with another server's, and a patch whose
\* value was changed while it waited shows nothing but what the next ones bring.
Mirror == ShowsBetween /\ ShowsPresent

\* The server never streams a gap: the client's own check for one, which costs a
\* reconnection, does not fire.
NoGap == wire # <<>> => Expected(Head(wire))

\* A client shows the present once the server stops changing: the last change is
\* not lost to a full queue or in between a snapshot and the subscription.
CatchesUp == <>[](cepoch = epoch /\ cversion = version)

----------------------------------------------------------------------------
(* What the repository says and the code does not do *)

\* What a client shows was the server's state at the version it names: patches are
\* sequenced, each with the changes of its version.
ShowsPast == cepoch = epoch => cversion <= version /\ cstate = past[cversion + 1]
=============================================================================
