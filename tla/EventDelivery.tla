--------------------------- MODULE EventDelivery ---------------------------
(***************************************************************************)
(* How the events of a workspace daemon reach a renderer.                  *)
(*                                                                         *)
(* The daemon's hub numbers every event and keeps the last ones for        *)
(* replay. Each connection has a queue of bounded size, a pump, a channel  *)
(* and a forwarder that writes batches. The client's reader puts what      *)
(* arrives into a second bounded queue, from which one goroutine,          *)
(* supervise, delivers to the renderer. A queue that overflows is cleared  *)
(* and a resync marker takes its place; a resync is answered by a          *)
(* snapshot, which carries the number of the last event published before   *)
(* it was built. After a lost connection the client asks for what follows  *)
(* its cursor, and after a restart of the daemon, which starts a new epoch *)
(* and counts from 1 again, for a snapshot.                                *)
(*                                                                         *)
(* An event is its number; log holds the kinds. The socket itself delays   *)
(* nothing: what is on its way is in the batch before it or in the queue   *)
(* behind it. The pump's hand is one more place of the channel.            *)
(*                                                                         *)
(* Source: internal/desktopipc/event_hub.go, server.go, client.go and      *)
(* client_messages.go, internal/desktopclient/client.go.                   *)
(***************************************************************************)
EXTENDS Naturals, Sequences, FiniteSets

LOCAL INSTANCE SequencesExt
LOCAL INSTANCE FiniteSetsExt

CONSTANTS
  ReplayCap,  \* EventHub.maxReplayBytes, in events
  ClientCap,  \* clientEventQueue.maxBytes
  ChannelCap, \* places of the subscription's channel and the pump's hand
  BatchCap,   \* maxEventBatchCount
  QueueCaps,  \* values of clientMessageQueue.maxBytes, one per behaviour
  MaxEvents,  \* bound: events published, over all epochs
  MaxEpochs,  \* bound: starts of the daemon
  MaxFaults,  \* bound: lost connections and failed snapshots
  MaxSelects  \* bound: sessions selected and mutations refused

ASSUME DeliveryAssumption ==
  /\ {ReplayCap, ClientCap} \cup QueueCaps \subseteq Nat
  /\ {ChannelCap, BatchCap, MaxEpochs} \subseteq Nat \ {0}
  /\ {MaxEvents, MaxFaults, MaxSelects} \subseteq Nat

VARIABLES
  hub,      \* the daemon: its epoch, the kinds published, the replay's head
  conn,     \* the server's side of the connection
  queue,    \* the client's messages, oldest first
  client,   \* the WorkspaceClient
  pc,       \* where supervise and SelectSession are, and what supervise holds
  request,  \* the snapshot request in flight: applyMu admits one
  left,     \* the queue's limit and what remains of the bounds
  seen      \* history: what the renderer was given

vars == <<hub, conn, queue, client, pc, request, left, seen>>

-----------------------------------------------------------------------------
(* Events. Text deltas and the other incremental events are lossless; a    *)
(* state event replaces the queued one of the same key. Events have one    *)
(* size, so that the bounds in bytes are bounds on their number.           *)

Kinds == {"delta", "state"}

runtimeEventPolicy(kind) == kind # "state"

\* hub.sequence
Current(h) == Len(h.log)

-----------------------------------------------------------------------------
(* The hub: numbering, replay and the queue of a connection. *)

NewHub(epoch) == [epoch |-> epoch, log |-> <<>>, head |-> 1]

\* The oldest events leave until what is kept fits.
Evicted(h) ==
  [h EXCEPT !.head = Max({@, Current(h) + 1 - Min({ReplayCap, Current(h)})})]

\* Mutant: a gap of one event passes for none.
UnavailableOffByOne(after) == hub.head > after + 2

replayUnavailable(after) ==
  /\ after < Current(hub)
  /\ hub.head > after + 1

Ring(after) ==
  LET first == Max({hub.head, after + 1})
  IN [i \in 1 .. Current(hub) + 1 - first |-> first + i - 1]

NoConnection ==
  [up |-> FALSE, replay |-> <<>>, pending |-> <<>>, resync |-> FALSE,
   channel |-> <<>>, batch |-> <<>>]

\* replaceAt: the queued state that the new event replaces leaves its place.
Superseded(h, s, n) ==
  LET replaceAt == {i \in DOMAIN s : ~runtimeEventPolicy(h.log[s[i]])}
  IN IF runtimeEventPolicy(h.log[n]) \/ replaceAt = {} THEN s
     ELSE RemoveAt(s, CHOOSE i \in replaceAt : TRUE)

\* Mutant: the new state takes the place of the one it replaces.
EnqueueInPlace(h, c, n) ==
  LET old == {i \in DOMAIN c.pending : ~runtimeEventPolicy(h.log[c.pending[i]])}
  IN IF c.up /\ ~runtimeEventPolicy(h.log[n]) /\ old # {}
     THEN [c EXCEPT !.pending[Min(old)] = n]
     ELSE IF c.up /\ Len(c.pending) + 1 > ClientCap
          THEN [c EXCEPT !.pending = <<>>, !.resync = TRUE]
     ELSE IF c.up THEN [c EXCEPT !.pending = Append(@, n)] ELSE c

\* enqueue: the event is appended; one over the limit clears the queue, itself
\* included.
enqueue(h, c, n) ==
  LET kept == Superseded(h, c.pending, n)
  IN IF ~c.up THEN c
     ELSE IF Len(kept) + 1 > ClientCap
          THEN [c EXCEPT !.pending = <<>>, !.resync = TRUE]
          ELSE [c EXCEPT !.pending = Append(kept, n)]

Publish(kind) ==
  LET h == Evicted([hub EXCEPT !.log = Append(@, kind)])
  IN /\ left.events > 0
     /\ hub' = h
     /\ conn' = enqueue(h, conn, Current(h))
     /\ left' = [left EXCEPT !.events = @ - 1]
     /\ UNCHANGED <<queue, client, pc, request, seen>>

\* Mutant: the marker waits for the next event.
PumpMarkerWaits ==
  /\ conn.up
  /\ conn.pending # <<>>
  /\ Len(conn.channel) < ChannelCap
  /\ conn' = IF conn.resync
             THEN [conn EXCEPT !.resync = FALSE, !.channel = Append(@, 0)]
             ELSE [conn EXCEPT !.pending = Tail(@),
                               !.channel = Append(@, Head(conn.pending))]
  /\ UNCHANGED <<hub, queue, client, pc, request, left, seen>>

\* pump: the marker of an overflow, which has number 0, goes first.
Pump ==
  /\ conn.up
  /\ conn.resync \/ conn.pending # <<>>
  /\ Len(conn.channel) < ChannelCap
  /\ conn' = IF conn.resync
             THEN [conn EXCEPT !.resync = FALSE, !.channel = Append(@, 0)]
             ELSE [conn EXCEPT !.pending = Tail(@),
                               !.channel = Append(@, Head(conn.pending))]
  /\ UNCHANGED <<hub, queue, client, pc, request, left, seen>>

-----------------------------------------------------------------------------
(* The client's message queue. *)

EventMessage(n) == [kind |-> "event", sequence |-> n]

ResyncMessage(n) == [kind |-> "resync", sequence |-> n]

ReplayComplete(n) == [kind |-> "complete", sequence |-> n]

Disconnected == [kind |-> "disconnected", sequence |-> 0]

\* What serveConnection sends first to a client whose cursor is after.
Opening(after) ==
  IF replayUnavailable(after) THEN <<ResyncMessage(Current(hub))>>
  ELSE LET ring == Ring(after)
       IN IF ring = <<>> THEN <<>>
          ELSE [i \in DOMAIN ring |-> EventMessage(ring[i])]
                 \o <<ReplayComplete(Current(hub))>>

Connected(after) == [NoConnection EXCEPT !.up = TRUE, !.replay = Opening(after)]

resyncQueued(q) == \E i \in DOMAIN q : q[i].kind = "resync"

\* clientMessageSize: an event is the larger message.
Size(m) == IF m.kind = "event" THEN 2 ELSE 1

Bytes(q) == Len(q) + Cardinality({i \in DOMAIN q : q[i].kind = "event"})

Full(q, m) == Bytes(q) + Size(m) > left.queueCap

\* Whether push returns false: a second overflow before the marker of the
\* first was consumed. A newer marker only replaces the queued one.
Refused(q, m) == resyncQueued(q) /\ m.kind # "resync" /\ Full(q, m)

Pushed(q, m) ==
  IF resyncQueued(q)
  THEN IF m.kind = "resync"
       THEN [i \in DOMAIN q |-> IF q[i].kind = "resync" THEN m ELSE q[i]]
       ELSE q
  ELSE IF Full(q, m) THEN <<ResyncMessage(m.sequence)>> ELSE Append(q, m)

\* end: the queue closes behind what is in it, waiting requests fail.
Ended(q) == Append(q, Disconnected)

Abandon(r) == IF r.stage \in {"sent", "building"}
              THEN [r EXCEPT !.stage = "failed"] ELSE r

\* One frame leaves the server and the client's reader pushes it; c is the
\* server's side without the frame.
Receive(c, m) ==
  IF Refused(queue, m)
  THEN /\ conn' = NoConnection
       /\ queue' = Ended(queue)
       /\ request' = Abandon(request)
  ELSE /\ conn' = c
       /\ queue' = Pushed(queue, m)
       /\ UNCHANGED request

-----------------------------------------------------------------------------
(* The server's side of a connection. *)

\* What serveConnection writes before it starts the forwarder.
WriteReplay ==
  /\ conn.up /\ conn.replay # <<>>
  /\ Receive([conn EXCEPT !.replay = Tail(@)], Head(conn.replay))
  /\ UNCHANGED <<hub, client, pc, left, seen>>

\* forwardEvents takes an event into its batch.
Collect ==
  /\ conn.up /\ conn.replay = <<>>
  /\ conn.channel # <<>> /\ Head(conn.channel) # 0
  /\ Len(conn.batch) < BatchCap
  /\ conn' = [conn EXCEPT !.channel = Tail(@),
                          !.batch = Append(@, Head(conn.channel))]
  /\ UNCHANGED <<hub, queue, client, pc, request, left, seen>>

\* A marker overtakes the batch and carries the hub's number of now.
ForwardResync ==
  /\ conn.up /\ conn.replay = <<>>
  /\ conn.channel # <<>> /\ Head(conn.channel) = 0
  /\ Receive([conn EXCEPT !.channel = Tail(@)], ResyncMessage(Current(hub)))
  /\ UNCHANGED <<hub, client, pc, left, seen>>

\* The interval is over or the batch is full: it is written, event by event.
WriteBatch ==
  /\ conn.up /\ conn.batch # <<>>
  /\ Receive([conn EXCEPT !.batch = Tail(@)], EventMessage(Head(conn.batch)))
  /\ UNCHANGED <<hub, client, pc, left, seen>>

\* The sequencer reads the boundary before the snapshot is built ...
BeginSnapshot ==
  /\ request.stage = "sent"
  /\ request' = [request EXCEPT !.stage = "building", !.boundary = Current(hub),
                                !.epoch = hub.epoch]
  /\ UNCHANGED <<hub, conn, queue, client, pc, left, seen>>

\* ... and the response reaches the waiting request ...
FinishSnapshot ==
  /\ request.stage = "building"
  /\ request' = [request EXCEPT !.stage = "answered"]
  /\ UNCHANGED <<hub, conn, queue, client, pc, left, seen>>

\* ... or says that the snapshot could not be built.
FailSnapshot ==
  /\ request.stage = "building"
  /\ left.faults > 0
  /\ request' = [request EXCEPT !.stage = "failed"]
  /\ left' = [left EXCEPT !.faults = @ - 1]
  /\ UNCHANGED <<hub, conn, queue, client, pc, seen>>

-----------------------------------------------------------------------------
(* Faults. *)

LoseConnection ==
  /\ conn.up
  /\ left.faults > 0
  /\ conn' = NoConnection
  /\ queue' = Ended(queue)
  /\ request' = Abandon(request)
  /\ left' = [left EXCEPT !.faults = @ - 1]
  /\ UNCHANGED <<hub, client, pc, seen>>

RestartDaemon ==
  /\ hub.epoch < MaxEpochs
  /\ hub' = NewHub(hub.epoch + 1)
  /\ conn' = NoConnection
  /\ queue' = IF conn.up THEN Ended(queue) ELSE queue
  /\ request' = Abandon(request)
  /\ UNCHANGED <<client, pc, left, seen>>

-----------------------------------------------------------------------------
(* The client: snapshots. *)

NoRequest == [stage |-> "none", boundary |-> 0, epoch |-> 0]

\* A request on a connection that has ended fails at once.
Requested == [NoRequest EXCEPT !.stage = IF conn.up THEN "sent" ELSE "failed"]

\* The snapshot is of the daemon the client is connected to.
Matches(r) == r.epoch = client.ack

\* What a resync would have brought that supervise does without.
Nothing == [why |-> "nothing", epoch |-> 0, upTo |-> 0]

Forgone(why) == [why |-> why, epoch |-> client.epoch, upTo |-> Current(hub)]

\* applySnapshotLocked: cursor and epoch become the snapshot's. What was
\* published up to the boundary is in it.
applySnapshotLocked ==
  /\ client' = [client EXCEPT !.epoch = request.epoch, !.cursor = request.boundary,
                              !.state = "connected", !.applyMu = "free"]
  /\ request' = NoRequest
  /\ seen' = [epoch |-> request.epoch, base |-> request.boundary, got |-> {},
              forgone |-> IF request.epoch = seen.forgone.epoch
                            /\ request.boundary < seen.forgone.upTo
                          THEN seen.forgone ELSE Nothing]

\* NewWorkspaceClient connects without a cursor, InitialSnapshot requests.
Connect ==
  /\ pc.supervise = "connect"
  /\ conn' = Connected(0)
  /\ client' = [client EXCEPT !.epoch = hub.epoch, !.ack = hub.epoch,
                              !.applyMu = "supervise"]
  /\ request' = [NoRequest EXCEPT !.stage = "sent"]
  /\ pc' = [pc EXCEPT !.supervise = "initial"]
  /\ seen' = [seen EXCEPT !.epoch = hub.epoch]
  /\ UNCHANGED <<hub, queue, left>>

\* InitialSnapshot: the reader starts when it has been applied; an error ends
\* the program.
ApplyInitial ==
  /\ pc.supervise = "initial"
  /\ request.stage = "answered" /\ Matches(request)
  /\ applySnapshotLocked
  /\ pc' = [pc EXCEPT !.supervise = "next"]
  /\ UNCHANGED <<hub, conn, queue, left>>

FailInitial ==
  /\ pc.supervise = "initial"
  /\ request.stage = "failed"
  /\ pc' = [pc EXCEPT !.supervise = "exited"]
  /\ request' = NoRequest
  /\ client' = [client EXCEPT !.state = "offline", !.applyMu = "free"]
  /\ UNCHANGED <<hub, conn, queue, left, seen>>

\* SelectSession holds applyMu from its request to the end of its answer.
SelectSession ==
  /\ left.selects > 0
  /\ pc.select = "idle"
  /\ client.applyMu = "free"
  /\ client.state = "connected"
  /\ pc' = [pc EXCEPT !.select = "waiting"]
  /\ client' = [client EXCEPT !.applyMu = "select"]
  /\ request' = Requested
  /\ left' = [left EXCEPT !.selects = @ - 1]
  /\ UNCHANGED <<hub, conn, queue, seen>>

\* Request: the daemon refuses a mutation because of its revision.
MutationConflict ==
  /\ left.selects > 0
  /\ conn.up /\ client.state = "connected"
  /\ client' = [client EXCEPT !.state = "resyncing"]
  /\ left' = [left EXCEPT !.selects = @ - 1]
  /\ UNCHANGED <<hub, conn, queue, pc, request, seen>>

ApplySelection ==
  /\ pc.select = "waiting"
  /\ request.stage = "answered" /\ Matches(request)
  /\ applySnapshotLocked
  /\ pc' = [pc EXCEPT !.select = "idle"]
  /\ UNCHANGED <<hub, conn, queue, left>>

FailSelection ==
  /\ pc.select = "waiting"
  /\ \/ request.stage = "failed"
     \/ request.stage = "answered" /\ ~Matches(request)
  /\ pc' = [pc EXCEPT !.select = "idle"]
  /\ client' = [client EXCEPT !.applyMu = "free"]
  /\ request' = NoRequest
  /\ UNCHANGED <<hub, conn, queue, left, seen>>

-----------------------------------------------------------------------------
(* supervise. *)

Next1 == Head(queue)

Taken(kind) ==
  /\ pc.supervise = "next"
  /\ queue # <<>> /\ Next1.kind = kind
  /\ queue' = Tail(queue)
  /\ UNCHANGED <<hub, conn, request, left>>

TakeEvent ==
  /\ Taken("event")
  /\ pc' = [pc EXCEPT !.supervise = "deliver", !.hand = Next1.sequence]
  /\ UNCHANGED <<client, seen>>

TakeReplayComplete ==
  /\ Taken("complete")
  /\ client' = [client EXCEPT !.state = "connected"]
  /\ UNCHANGED <<pc, seen>>

covered(n) == n # 0 /\ n <= client.cursor

\* A marker the cursor has already passed needs no snapshot.
TakeCovered ==
  /\ Taken("resync") /\ covered(Next1.sequence)
  /\ seen' = [seen EXCEPT !.forgone = Forgone("skipped")]
  /\ UNCHANGED <<client, pc>>

TakeResync ==
  /\ Taken("resync") /\ ~covered(Next1.sequence)
  /\ client' = [client EXCEPT !.state = "resyncing"]
  /\ pc' = [pc EXCEPT !.supervise = "resync"]
  /\ UNCHANGED seen

TakeDisconnected ==
  /\ Taken("disconnected")
  /\ client' = [client EXCEPT !.state = "reconnecting"]
  /\ pc' = [pc EXCEPT !.supervise = "reconnect"]
  /\ UNCHANGED seen

\* Mutant: an event is delivered while a snapshot is on its way.
DeliverUnlocked ==
  /\ pc.supervise = "deliver"
  /\ IF pc.hand <= client.cursor THEN UNCHANGED <<client, seen>>
     ELSE /\ client' = [client EXCEPT !.cursor = pc.hand]
          /\ seen' = [seen EXCEPT !.got = @ \cup {pc.hand}]
  /\ pc' = [pc EXCEPT !.supervise = "next", !.hand = 0]
  /\ UNCHANGED <<hub, conn, queue, request, left>>

\* deliver: what the cursor has passed is dropped.
Deliver ==
  /\ pc.supervise = "deliver"
  /\ client.applyMu = "free"
  /\ IF pc.hand <= client.cursor THEN UNCHANGED <<client, seen>>
     ELSE /\ client' = [client EXCEPT !.cursor = pc.hand]
          /\ seen' = [seen EXCEPT !.got = @ \cup {pc.hand}]
  /\ pc' = [pc EXCEPT !.supervise = "next", !.hand = 0]
  /\ UNCHANGED <<hub, conn, queue, request, left>>

\* resync, from supervise itself or from reconnectOnce.
RequestResync ==
  /\ pc.supervise \in {"resync", "rehydrate"}
  /\ client.applyMu = "free"
  /\ client' = [client EXCEPT !.applyMu = "supervise"]
  /\ request' = Requested
  /\ UNCHANGED <<hub, conn, queue, pc, left, seen>>

ApplyResync ==
  /\ pc.supervise \in {"resync", "rehydrate"}
  /\ client.applyMu = "supervise"
  /\ request.stage = "answered" /\ Matches(request)
  /\ applySnapshotLocked
  /\ pc' = [pc EXCEPT !.supervise = "next"]
  /\ UNCHANGED <<hub, conn, queue, left>>

\* supervise reports that it is offline and goes on with the next message;
\* reconnect tries again.
FailResync ==
  /\ pc.supervise \in {"resync", "rehydrate"}
  /\ client.applyMu = "supervise"
  /\ request.stage = "failed"
  /\ IF pc.supervise = "resync"
     THEN /\ client' = [client EXCEPT !.applyMu = "free", !.state = "offline"]
          /\ pc' = [pc EXCEPT !.supervise = "next"]
          /\ seen' = [seen EXCEPT !.forgone = Forgone("failed")]
     ELSE /\ client' = [client EXCEPT !.applyMu = "free"]
          /\ pc' = [pc EXCEPT !.supervise = "reconnect"]
          /\ UNCHANGED seen
  /\ request' = NoRequest
  /\ UNCHANGED <<hub, conn, queue, left>>

\* reconnectOnce: the cursor counts only in the epoch it was reached in. A
\* reconnect ends when the replay is there, and asks for a snapshot otherwise.
\* The new epoch is adopted before the snapshot is there: a second attempt
\* replays after a cursor of the old one.
Reconnect ==
  LET sameEpoch == client.epoch = hub.epoch
      after == IF sameEpoch THEN client.cursor ELSE 0
      replayed == sameEpoch /\ ~replayUnavailable(after)
  IN /\ pc.supervise = "reconnect"
     /\ conn' = Connected(after)
     /\ queue' = <<>>
     /\ client' = [client EXCEPT !.epoch = hub.epoch, !.ack = hub.epoch,
                                 !.state = IF replayed THEN "connected"
                                           ELSE "resyncing"]
     /\ pc' = [pc EXCEPT !.supervise = IF replayed THEN "next" ELSE "rehydrate"]
     /\ seen' = IF sameEpoch /\ seen.epoch # client.epoch
                THEN [seen EXCEPT !.forgone = Forgone("stale cursor")] ELSE seen
     /\ UNCHANGED <<hub, request, left>>

-----------------------------------------------------------------------------
(* The specification. *)

Init ==
  /\ hub = NewHub(1)
  /\ conn = NoConnection
  /\ queue = <<>>
  /\ client = [epoch |-> 1, ack |-> 1, cursor |-> 0, state |-> "connecting",
               applyMu |-> "free"]
  /\ pc = [supervise |-> "connect", hand |-> 0, select |-> "idle"]
  /\ request = NoRequest
  /\ \E cap \in QueueCaps :
       left = [events |-> MaxEvents, faults |-> MaxFaults,
               selects |-> MaxSelects, queueCap |-> cap]
  /\ seen = [epoch |-> 1, base |-> 0, got |-> {}, forgone |-> Nothing]

Server ==
  \/ Pump \/ WriteReplay \/ Collect \/ ForwardResync \/ WriteBatch
  \/ BeginSnapshot \/ FinishSnapshot

Supervise ==
  \/ Connect \/ ApplyInitial \/ FailInitial
  \/ TakeEvent \/ TakeReplayComplete \/ TakeCovered \/ TakeResync
  \/ TakeDisconnected \/ Deliver
  \/ RequestResync \/ ApplyResync \/ FailResync \/ Reconnect

Selection == ApplySelection \/ FailSelection

Fault == LoseConnection \/ RestartDaemon \/ FailSnapshot

Next ==
  \/ \E kind \in Kinds : Publish(kind)
  \/ Server \/ Supervise \/ Selection \/ Fault
  \/ SelectSession \/ MutationConflict

Spec == Init /\ [][Next]_vars

\* Every goroutine of the daemon and of the client runs.
Fairness ==
  /\ WF_vars(Pump) /\ WF_vars(WriteReplay)
  /\ WF_vars(Collect \/ ForwardResync) /\ WF_vars(WriteBatch)
  /\ WF_vars(BeginSnapshot \/ FinishSnapshot)
  /\ WF_vars(Supervise) /\ WF_vars(Selection)

FairSpec == Spec /\ Fairness

-----------------------------------------------------------------------------
(* Properties. *)

Messages ==
  [kind : {"event", "resync", "complete", "disconnected"}, sequence : Nat]

HubType == [epoch : Nat, log : Seq(Kinds), head : Nat]

ConnType == [up : BOOLEAN, replay : Seq(Messages), pending : Seq(Nat),
             resync : BOOLEAN, channel : Seq(Nat), batch : Seq(Nat)]

ClientType ==
  [epoch : Nat, ack : Nat, cursor : Nat,
   state : {"connecting", "connected", "resyncing", "reconnecting", "offline"},
   applyMu : {"free", "supervise", "select"}]

PlaceType ==
  [supervise : {"connect", "initial", "next", "deliver", "resync", "rehydrate",
                "reconnect", "exited"},
   hand : Nat, select : {"idle", "waiting"}]

RequestType == [stage : {"none", "sent", "building", "answered", "failed"},
                boundary : Nat, epoch : Nat]

LeftType == [events : Nat, faults : Nat, selects : Nat, queueCap : Nat]

ForgoneType == [why : {"nothing", "skipped", "failed", "stale cursor"},
                epoch : Nat, upTo : Nat]

SeenType == [epoch : Nat, base : Nat, got : SUBSET Nat, forgone : ForgoneType]

\* The parts of the state have their types.
TypeOK ==
  /\ hub \in HubType /\ conn \in ConnType /\ queue \in Seq(Messages)
  /\ client \in ClientType /\ pc \in PlaceType /\ request \in RequestType
  /\ left \in LeftType /\ seen \in SeenType

\* A state event that a later one replaces.
Replaced(n) ==
  /\ ~runtimeEventPolicy(hub.log[n])
  /\ \E m \in n + 1 .. Current(hub) : ~runtimeEventPolicy(hub.log[m])

\* The renderer was given event n, a snapshot with it, or need not be.
Given(n) == n <= seen.base \/ n \in seen.got \/ Replaced(n)

\* The cursor is one of the running daemon's, and since the last snapshot no
\* resync was given up or skipped and no replay asked for with another's cursor.
Tracking ==
  /\ seen.epoch = client.epoch /\ client.epoch = hub.epoch
  /\ seen.forgone = Nothing

\* The cursor passes no event that the renderer was not given (deliver, the
\* queues' overflow, replay after the cursor and the snapshot's boundary).
NoGap == Tracking => \A n \in 1 .. client.cursor : Given(n)

OnTheWay ==
  ToSet(conn.pending) \cup ToSet(conn.channel) \cup ToSet(conn.batch)
    \cup {m.sequence : m \in {x \in ToSet(conn.replay \o queue) : x.kind = "event"}}
    \cup {pc.hand}

\* A resync is due: flagged, queued, or being answered.
Announced ==
  \/ conn.resync \/ 0 \in ToSet(conn.channel)
  \/ resyncQueued(conn.replay \o queue)
  \/ pc.supervise \in {"initial", "resync", "rehydrate"}

Delivered(n) == Given(n) \/ n \in OnTheWay \/ Announced

\* On a live connection every event that the renderer has not been given is
\* on its way to it or a resync that covers it is (enqueue, push, Subscribe).
NothingStranded ==
  Tracking /\ conn.up => \A n \in 1 .. Current(hub) : Delivered(n)

\* Within an epoch the cursor never goes back: no snapshot older than what was
\* delivered is applied, so nothing is delivered twice (applyMu).
NoRewind ==
  [][client'.epoch = client.epoch /\ seen'.epoch = seen.epoch
       => client'.cursor >= client.cursor]_vars

\* When events and faults end, the renderer has everything, unless a resync
\* was given up or the program ended (pump, forwardEvents, supervise).
Converges ==
  <>[](\/ pc.supervise = "exited"
       \/ seen.forgone # Nothing \/ seen.epoch # client.epoch
       \/ \A n \in 1 .. Current(hub) : Given(n))
=============================================================================
