---------------------------- MODULE EventBroker ----------------------------
(***************************************************************************)
(* The queue between the producers of runtime events and their consumer.   *)
(*                                                                         *)
(* Deltas of one stream coalesce and live snapshots of one agent replace   *)
(* each other, as long as no lifecycle event stands between; a lifecycle   *)
(* event is a barrier. Over its limits the broker drops queued deltas and  *)
(* asks for a reload of the durable transcript instead.                    *)
(*                                                                         *)
(* Every operation runs under the broker's mutex and is one action. What   *)
(* an event carries is the number of its publication: the text of a        *)
(* coalesced entry is the sequence of the deltas in it, and its size how   *)
(* many there are. readyAt is the publication that opened an entry's       *)
(* window, and 0 for Go's zero time and for a window that is over.         *)
(* Positions count from 1, so an absent key of pending (index 0 in Go) is  *)
(* 0 here too.                                                             *)
(*                                                                         *)
(* Source: internal/app/event_broker.go.                                   *)
(***************************************************************************)
EXTENDS Naturals, Sequences, FiniteSets, SequencesExt

CONSTANTS
  Runs,        \* main runs; each may publish a run-terminal event
  Agents,      \* subagents; an agent's own (child) run is named after it
  Streams,     \* identities of delta streams
  RunOf,       \* the run key of a stream's events
  Sessionless, \* run keys without a session id
  LiveStates,  \* agent states that are not terminal
  Consumers,   \* goroutines that call Next in a loop
  MaxEvents,   \* maxQueuedEventCount
  MaxBytes,    \* maxQueuedEventBytes, in fragments
  CompactAt,   \* delivered entries before the slice is shifted: 64
  MaxPublish   \* bound: publications

RunKeys == Runs \cup Agents
Keys == Streams \cup Agents

ASSUME BrokerAssumption ==
  /\ Runs \cap Agents = {} /\ Streams \cap Agents = {}
  /\ "none" \notin Streams \cup Agents
  /\ RunOf \in [Streams -> RunKeys] /\ Sessionless \subseteq RunKeys
  /\ "completed" \notin LiveStates
  /\ MaxEvents \in Nat /\ MaxBytes \in Nat /\ MaxPublish \in Nat
  /\ CompactAt \in Nat \ {0}

VARIABLES
  broker,    \* the eventBroker struct
  consumer,  \* where each consumer is in Next, and the window it waits for
  log,       \* history: the events published
  delivered, \* history: the entries Next returned
  dropped    \* history: deltas dropped, the publication that did it and
             \* how many entries the consumer had received then

vars == <<broker, consumer, log, delivered, dropped>>

-----------------------------------------------------------------------------
(* Events and queue entries. *)

None == "none"

Delta(s) ==
  [kind |-> "delta", run |-> RunOf[s], key |-> s, state |-> "streaming"]

\* A live state is a snapshot; "completed" is the end of the agent, and stands
\* for all lifecycle events that are not run-terminal (isTerminalEvent).
AgentState(a, state) ==
  [kind |-> "agent", run |-> None, key |-> a, state |-> state]

RunEnd(r) == [kind |-> "end", run |-> r, key |-> None, state |-> None]

Resync(r, state) ==
  [kind |-> "resync", run |-> r, key |-> None, state |-> state]

isCoalescibleEvent(e) == e.kind = "delta"

isReplaceableEvent(e) == e.kind = "agent" /\ e.state \in LiveStates

isDeferrableQueuedEvent(e) == isCoalescibleEvent(e) \/ isReplaceableEvent(e)

newQueuedEvent(e, n, readyAt) ==
  [event |-> e, parts |-> <<n>>, readyAt |-> readyAt, size |-> 1]

\* What Next returns of an entry.
materializeQueuedEvent(x) == [event |-> x.event, parts |-> x.parts]

NoPending == [k \in Keys |-> 0]

\* The entries not yet delivered.
Queued(b) == SubSeq(b.queue, b.head + 1, Len(b.queue))

\* The deferred entries that no barrier follows.
AfterBarrier(b) ==
  {i \in b.head + 1..Len(b.queue) :
     \A j \in i..Len(b.queue) : isDeferrableQueuedEvent(b.queue[j].event)}

\* The sizes add up to the number of fragments that the entries hold.
SumOfSizes(entries) ==
  Cardinality(UNION {{i} \X (1..entries[i].size) : i \in DOMAIN entries})

Init ==
  /\ broker = [queue |-> <<>>, head |-> 0, queuedBytes |-> 0,
               closed |-> FALSE, pending |-> NoPending,
               degraded |-> [r \in RunKeys |-> FALSE]]
  /\ consumer = [c \in Consumers |-> [at |-> "loop", until |-> 0]]
  /\ log = <<>> /\ delivered = <<>> /\ dropped = {}

-----------------------------------------------------------------------------
(* What an operation does to the struct. *)

Enqueue(b, e, n, readyAt) ==
  [b EXCEPT !.queue = Append(@, newQueuedEvent(e, n, readyAt)),
            !.queuedBytes = @ + 1]

\* A new entry that later events of its stream may join.
EnqueueDeferred(b, e, n) ==
  [Enqueue(b, e, n, n) EXCEPT !.pending[e.key] = Len(b.queue) + 1]

\* The entry that pending names is still queued.
HasPending(b, key) ==
  b.pending[key] > b.head /\ b.pending[key] <= Len(b.queue)

\* The text of the next delta goes to the end of the entry's.
mergeCoalescibleEvent(x, n) ==
  [x EXCEPT !.parts = Append(@, n), !.size = @ + 1]

appendCoalescible(b, e, n) ==
  LET i == b.pending[e.key]
      merged == mergeCoalescibleEvent(b.queue[i], n)
  IN IF HasPending(b, e.key)
       THEN [b EXCEPT !.queue[i] = merged,
                      !.queuedBytes = @ + merged.size - b.queue[i].size]
       ELSE EnqueueDeferred(b, e, n)

\* Mutant: a snapshot replaces the queued one whatever its state.
ReplaceAnyState(b, e, n) ==
  LET i == b.pending[e.key]
  IN IF HasPending(b, e.key)
       THEN [b EXCEPT !.queue[i] = newQueuedEvent(e, n, @.readyAt)]
       ELSE EnqueueDeferred(b, e, n)

\* Mutant: the size of the replaced snapshot is not given back.
ReplaceAddsSize(b, e, n) ==
  LET i == b.pending[e.key]
  IN IF HasPending(b, e.key) /\ b.queue[i].event.state = e.state
       THEN [b EXCEPT !.queue[i] = newQueuedEvent(e, n, @.readyAt),
                      !.queuedBytes = @ + 1]
       ELSE EnqueueDeferred(b, e, n)

appendReplaceable(b, e, n) ==
  LET i == b.pending[e.key]
  IN IF HasPending(b, e.key) /\ b.queue[i].event.state = e.state
       THEN [b EXCEPT !.queue[i] = newQueuedEvent(e, n, @.readyAt),
                      !.queuedBytes = @ - b.queue[i].size + 1]
       ELSE EnqueueDeferred(b, e, n)

\* Mutant: later deltas may still join the entries before the barrier.
BarrierKeepsPending(b, e, n) ==
  Enqueue([b EXCEPT !.queue = [i \in DOMAIN @ |->
             IF i \in AfterBarrier(b) THEN [@[i] EXCEPT !.readyAt = 0]
                                      ELSE @[i]]], e, n, 0)

\* A lifecycle event makes the deferred entries before it deliverable at
\* once, and none of them may be joined any more.
appendLifecycle(b, e, n) ==
  LET due == [i \in DOMAIN b.queue |->
                IF i \in AfterBarrier(b) THEN [b.queue[i] EXCEPT !.readyAt = 0]
                                         ELSE b.queue[i]]
  IN Enqueue([b EXCEPT !.queue = due, !.pending = NoPending], e, n, 0)

appendResync(b, r, state, n) ==
  IF r \in Sessionless THEN b ELSE Enqueue(b, Resync(r, state), n, 0)

OverLimit(b) ==
  b.queuedBytes > MaxBytes \/ Len(b.queue) - b.head > MaxEvents

\* The entries that compactOverLimit discards, and their runs.
Discarded(b) ==
  {i \in b.head + 1..Len(b.queue) :
     OverLimit(b) /\ isCoalescibleEvent(b.queue[i].event)}

DiscardedRuns(b) ==
  {b.queue[i].event.run : i \in Discarded(b)} \ Sessionless

\* The runs that lose a delta for the first time.
Affected(b) == {r \in DiscardedRuns(b) : ~b.degraded[r]}

\* The entries that stay, in their order.
Remaining(b) ==
  LET stay == (b.head + 1..Len(b.queue)) \ Discarded(b)
      nth(k) == CHOOSE i \in stay : Cardinality(stay \cap 1..i) = k
  IN [k \in 1..Cardinality(stay) |-> b.queue[nth(k)]]

\* Mutant: the backlog is cleared, not only the deltas.
CompactEverything(b, order, n) ==
  IF ~OverLimit(b) THEN b
  ELSE [b EXCEPT !.queue = <<>>, !.head = 0, !.queuedBytes = 0,
                 !.pending = NoPending]

\* Queued deltas go; each affected run is told to resynchronise, in the
\* order of Go's map iteration.
compactOverLimit(b, order, n) ==
  LET resyncs == [i \in DOMAIN order |->
                    newQueuedEvent(Resync(order[i], "degraded"), n, 0)]
  IN IF ~OverLimit(b) THEN b
     ELSE [b EXCEPT !.queue = Remaining(b) \o resyncs,
                    !.head = 0,
                    !.queuedBytes = SumOfSizes(Remaining(b)) + Len(resyncs),
                    !.pending = NoPending,
                    !.degraded = [r \in RunKeys |->
                                    @[r] \/ r \in DiscardedRuns(b)]]

\* Every key that occurs after the last barrier gets its newest position.
rebuildPending(b) ==
  LET newest(k) == {i \in AfterBarrier(b) :
                      /\ b.queue[i].event.key = k
                      /\ \A j \in i + 1..Len(b.queue) :
                           b.queue[j].event.key # k}
  IN [b EXCEPT !.pending =
       [k \in Keys |-> IF newest(k) = {} THEN 0
                       ELSE CHOOSE i \in newest(k) : TRUE]]

compact(b) ==
  CASE b.head = Len(b.queue) -> [b EXCEPT !.queue = <<>>, !.head = 0]
    [] /\ b.head < Len(b.queue)
       /\ b.head >= CompactAt /\ b.head * 2 >= Len(b.queue) ->
         rebuildPending([b EXCEPT !.queue = Queued(b), !.head = 0])
    [] OTHER -> b

-----------------------------------------------------------------------------
(* Producers. *)

\* Mutant: a consumer that waits for the first event is not woken.
SignalTimersOnly ==
  consumer' = [c \in Consumers |->
                 IF consumer[c].at = "timer"
                   THEN [at |-> "loop", until |-> 0] ELSE consumer[c]]

\* Closing the channel wakes everybody who waits.
signal ==
  consumer' = [c \in Consumers |->
                 IF consumer[c].at \in {"timer", "empty"}
                   THEN [at |-> "loop", until |-> 0] ELSE consumer[c]]

\* What the limit check may leave of b, which a publication gave.
Checked(b) ==
  {compactOverLimit(b, order, Len(log) + 1) : order \in SetToSeqs(Affected(b))}

\* What every publication has in common; appending e gave b.
Publication(e, b) ==
  /\ ~broker.closed /\ Len(log) < MaxPublish
  /\ log' = Append(log, e)
  /\ dropped' = dropped \cup
       UNION {{[id |-> b.queue[i].parts[j], by |-> Len(log) + 1,
                received |-> Len(delivered)] :
                 j \in DOMAIN b.queue[i].parts} : i \in Discarded(b)}
  /\ signal
  /\ UNCHANGED delivered

PublishDelta(s) ==
  LET b == appendCoalescible(broker, Delta(s), Len(log) + 1)
  IN Publication(Delta(s), b) /\ broker' \in Checked(b)

PublishAgentState(a, state) ==
  LET e == AgentState(a, state)
      n == Len(log) + 1
      b == IF isReplaceableEvent(e) THEN appendReplaceable(broker, e, n)
                                    ELSE appendLifecycle(broker, e, n)
  IN Publication(e, b) /\ broker' \in Checked(b)

\* Mutant: the end of a degraded run does not ask for the final reload.
PublishEndSilently(r) ==
  LET b == appendLifecycle(broker, RunEnd(r), Len(log) + 1)
  IN /\ Publication(RunEnd(r), b)
     /\ \E c \in Checked(b) : broker' = [c EXCEPT !.degraded[r] = FALSE]

\* A run-terminal event; a degraded run is told to resynchronise once more.
PublishRunEnd(r) ==
  LET n == Len(log) + 1
      b == appendLifecycle(broker, RunEnd(r), n)
      final(c) == [appendResync(c, r, "final", n) EXCEPT !.degraded[r] = FALSE]
  IN /\ Publication(RunEnd(r), b)
     /\ \E c \in Checked(b) :
          broker' = IF c.degraded[r] THEN final(c) ELSE c

Close ==
  /\ ~broker.closed
  /\ broker' = [broker EXCEPT
       !.closed = TRUE,
       !.queue = [i \in DOMAIN @ |-> IF i > broker.head
                                       THEN [@[i] EXCEPT !.readyAt = 0]
                                       ELSE @[i]]]
  /\ signal
  /\ UNCHANGED <<log, delivered, dropped>>

-----------------------------------------------------------------------------
(* Consumers. *)

HeadEntry == broker.queue[broker.head + 1]
Empty == broker.head = Len(broker.queue)

Goto(c, at, until) ==
  consumer' = [consumer EXCEPT ![c] = [at |-> at, until |-> until]]

\* Mutant: the entry is taken and pending still names its position.
TakeKeepsPending(b) ==
  compact([b EXCEPT !.head = @ + 1,
                    !.queuedBytes = @ - b.queue[b.head + 1].size])

\* The first entry leaves; pending forgets it unless the key moved on.
Take(b) ==
  LET x == b.queue[b.head + 1]
      key == x.event.key
      pending == IF /\ isDeferrableQueuedEvent(x.event)
                    /\ b.pending[key] <= b.head + 1
                   THEN [b.pending EXCEPT ![key] = 0] ELSE b.pending
  IN compact([b EXCEPT !.head = @ + 1, !.queuedBytes = @ - x.size,
                       !.pending = pending])

Deliver(c) ==
  /\ consumer[c].at = "loop" /\ ~Empty
  /\ HeadEntry.readyAt = 0
  /\ delivered' = Append(delivered, materializeQueuedEvent(HeadEntry))
  /\ broker' = Take(broker)
  /\ UNCHANGED <<consumer, log, dropped>>

WaitForWindow(c) ==
  /\ consumer[c].at = "loop" /\ ~Empty
  /\ HeadEntry.readyAt > 0
  /\ Goto(c, "timer", HeadEntry.readyAt)
  /\ UNCHANGED <<broker, log, delivered, dropped>>

TimerFires(c) ==
  /\ consumer[c].at = "timer" /\ consumer[c].until = 0
  /\ Goto(c, "loop", 0)
  /\ UNCHANGED <<broker, log, delivered, dropped>>

WaitForEvent(c) ==
  /\ consumer[c].at = "loop" /\ Empty /\ ~broker.closed
  /\ Goto(c, "empty", 0)
  /\ UNCHANGED <<broker, log, delivered, dropped>>

EndOfEvents(c) ==
  /\ consumer[c].at = "loop" /\ Empty /\ broker.closed
  /\ Goto(c, "done", 0)
  /\ UNCHANGED <<broker, log, delivered, dropped>>

\* Time passes: the window of a queued entry, and the older ones, end, and
\* so do the timers set for them.
Elapse ==
  /\ \E i \in broker.head + 1..Len(broker.queue) :
       LET t == broker.queue[i].readyAt
           over(n) == IF n <= t THEN 0 ELSE n
       IN /\ t > 0
          /\ broker' = [broker EXCEPT !.queue =
               [j \in DOMAIN broker.queue |->
                  [broker.queue[j] EXCEPT !.readyAt = over(@)]]]
          /\ consumer' = [c \in Consumers |->
               [consumer[c] EXCEPT !.until = over(@)]]
  /\ UNCHANGED <<log, delivered, dropped>>

Publish ==
  \/ \E s \in Streams : PublishDelta(s)
  \/ \E a \in Agents, state \in LiveStates \cup {"completed"} :
       PublishAgentState(a, state)
  \/ \E r \in Runs : PublishRunEnd(r)

NextEvent(c) ==
  Deliver(c) \/ WaitForWindow(c) \/ TimerFires(c) \/ WaitForEvent(c)
    \/ EndOfEvents(c)

Next == Publish \/ Close \/ Elapse \/ \E c \in Consumers : NextEvent(c)

Spec == Init /\ [][Next]_vars

-----------------------------------------------------------------------------
(* Correctness. *)

Event == [kind : {"delta", "agent", "end", "resync"},
          run : RunKeys \cup {None}, key : Keys \cup {None},
          state : LiveStates \cup
                    {"streaming", "completed", "degraded", "final", None}]

Entry == [event : Event, parts : Seq(1..MaxPublish),
          readyAt : 0..MaxPublish, size : Nat]

\* The fields of the struct (event_broker.go:47) and the threads in Next.
TypeOK ==
  /\ broker.queue \in Seq(Entry) /\ broker.head \in 0..Len(broker.queue)
  /\ broker.queuedBytes \in Nat /\ broker.closed \in BOOLEAN
  /\ broker.pending \in [Keys -> 0..Len(broker.queue)]
  /\ broker.degraded \in [RunKeys -> BOOLEAN]
  /\ consumer \in [Consumers -> [at : {"loop", "timer", "empty", "done"},
                                 until : 0..MaxPublish]]
  /\ log \in Seq(Event)
  /\ delivered \in Seq([event : Event, parts : Seq(1..MaxPublish)])
  /\ dropped \subseteq [id : 1..MaxPublish, by : 1..MaxPublish,
                          received : 0..Len(delivered)]

\* What the consumer has received and is still going to receive.
Trail ==
  LET q == Queued(broker)
  IN delivered \o [i \in DOMAIN q |-> materializeQueuedEvent(q[i])]

IsLifecycle(e) == ~isDeferrableQueuedEvent(e) /\ e.kind # "resync"

PublishedFor(key) == {i \in DOMAIN log : log[i].key = key}

\* Lifecycle events are lossless and ordered (docs/architecture.md:256):
\* whatever is compacted, each reaches the consumer once, in the order of
\* publication.
LifecycleLossless ==
  LET trail == Trail
      kept == {i \in DOMAIN trail : IsLifecycle(trail[i].event)}
      sent == {p \in DOMAIN log : IsLifecycle(log[p])}
      holds(i, p) == trail[i] = [event |-> log[p], parts |-> <<p>>]
  IN /\ \A p \in sent : \E i \in kept : holds(i, p)
     /\ \A i \in kept : \E p \in sent : holds(i, p)
     /\ \A i, j \in kept : i < j => trail[i].parts[1] < trail[j].parts[1]

\* A lifecycle event is an ordering barrier (Publish): neither coalescing nor
\* replacement moves anything across it.
BarriersSeparate ==
  LET trail == Trail
      seen == {i \in DOMAIN trail : trail[i].event.kind # "resync"}
  IN \A i, j \in seen :
       /\ i < j
       /\ IsLifecycle(trail[i].event) \/ IsLifecycle(trail[j].event)
       => \A m \in DOMAIN trail[i].parts, n \in DOMAIN trail[j].parts :
            trail[i].parts[m] < trail[j].parts[n]

\* Every delta is delivered once, in the order of its stream and under the
\* name of its stream, or was dropped by compactOverLimit: pending never names
\* an entry of another stream after the slice was shifted or emptied.
DeltasExactlyOnce ==
  LET trail == Trail
  IN \A s \in Streams :
       LET of == {i \in DOMAIN trail : trail[i].event.key = s}
           parts(i) == {trail[i].parts[m] : m \in DOMAIN trail[i].parts}
           seen == UNION {parts(i) : i \in of}
           lost == {d.id : d \in dropped} \cap PublishedFor(s)
       IN /\ \A i \in of : \A m, n \in DOMAIN trail[i].parts :
               m < n => trail[i].parts[m] < trail[i].parts[n]
          /\ \A i, j \in of : i < j =>
               \A p \in parts(i), q \in parts(j) : p < q
          /\ seen \cap lost = {}
          /\ seen \cup lost = PublishedFor(s)

\* No publication for agent a from p to q changes the state.
Steady(a, p, q) ==
  \A n \in PublishedFor(a) : n \in p..q => log[n].state = log[p].state

\* Distinct state transitions of a subagent stay ordered and are never
\* dropped (appendReplaceable): the consumer receives snapshots in the order
\* of publication, and what it does not receive was replaced by a later
\* snapshot before the state changed. What it sees last is thus the newest.
AgentTransitionsKept ==
  LET trail == Trail
  IN \A a \in Agents :
       LET of == {i \in DOMAIN trail : trail[i].event.key = a}
           holds(i, p) == trail[i] = [event |-> log[p], parts |-> <<p>>]
       IN /\ \A i \in of : \E p \in PublishedFor(a) : holds(i, p)
          /\ \A i, j \in of : i < j => trail[i].parts[1] < trail[j].parts[1]
          /\ \A p \in PublishedFor(a) : \E i \in of, q \in PublishedFor(a) :
               p <= q /\ holds(i, q) /\ Steady(a, p, q)

\* The drops that a run suffered.
DropsOf(r) == {d \in dropped : log[d.id].run = r}

\* The consumer is asked for a reload after the drop: the request was still
\* queued then, or came later.
ResyncAfter(r, d) ==
  LET trail == Trail
  IN \E i \in d.received + 1..Len(trail) :
       trail[i].event.kind = "resync" /\ trail[i].event.run = r

EndedSince(d, e) == \E i \in d.by..Len(log) : log[i] = e

\* No run loses deltas without the consumer being asked to reload: at its first
\* loss already (compactOverLimit). After every later loss of a main run it is
\* asked again, or the broker remembers to ask when the run ends (Publish). A
\* subagent's run has no run-terminal event, so that the losses after its first
\* are announced by nobody, and nothing is said of them here.
DropsAnnounced ==
  /\ \A r \in RunKeys \ Sessionless : \A d \in DropsOf(r) :
       \E e \in DropsOf(r) : e.by <= d.by /\ ResyncAfter(r, e)
  /\ \A r \in Runs \ Sessionless : \A d \in DropsOf(r) :
       ResyncAfter(r, d) \/ (broker.degraded[r] /\ ~EndedSince(d, RunEnd(r)))

\* queuedBytes is what the queue holds, through merging, replacement,
\* delivery and compaction, and deltas are never queued over the limits, but
\* for the one final resync that Publish appends after it checked them.
BacklogBounded ==
  LET q == Queued(broker)
  IN /\ broker.queuedBytes = SumOfSizes(q)
     /\ (\E i \in DOMAIN q : isCoalescibleEvent(q[i].event))
        => /\ broker.queuedBytes <= MaxBytes + 1 /\ Len(q) <= MaxEvents + 1
           /\ OverLimit(broker) => q[Len(q)].event.state = "final"

\* No wake-up is lost between the unlock in Next and the wait for notify: who
\* waits for an event has none to take and no end to report, and who waits
\* for a window waits no longer than the first entry does.
NoLostWakeUp ==
  \A c \in Consumers :
    /\ consumer[c].at = "empty" => Empty /\ ~broker.closed
    /\ consumer[c].at = "timer" /\ ~Empty =>
         consumer[c].until <= HeadEntry.readyAt
=============================================================================
