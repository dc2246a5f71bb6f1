------------------------- MODULE EventBrokerProofs -------------------------
(***************************************************************************)
(* That the broker loses nothing but deltas, tells the consumer of every   *)
(* one it drops, keeps lifecycle events apart from what surrounds them and *)
(* wakes everybody who waits, for any runs, agents, streams and limits and *)
(* any number of consumers.                                                *)
(*                                                                         *)
(* The argument is about the trail, what the consumer has received and is  *)
(* going to receive: delivery leaves it alone, a publication appends to it *)
(* or joins one of its entries, and compaction takes deltas out of it. To  *)
(* join is sound because pending names the newest entry of its key, and    *)
(* nothing but deferrable entries follow (PendingOK).                      *)
(***************************************************************************)
EXTENDS EventBroker, Integers, FiniteSetTheorems, SequenceTheorems, TLAPS

-----------------------------------------------------------------------------
(* The inductive invariant. *)

PublishedEvent ==
  {Delta(s) : s \in Streams}
    \cup {AgentState(a, state) : a \in Agents, state \in LiveStates \cup {"completed"}}
    \cup {RunEnd(r) : r \in Runs}

ResyncEvent == {Resync(r, state) : r \in RunKeys, state \in {"degraded", "final"}}

Queueable == PublishedEvent \cup ResyncEvent

\* What is on the trail, and what is queued.
Item == [event : Queueable, parts : Seq(1 .. MaxPublish)]

QueueEntry == [event : Queueable, parts : Seq(1 .. MaxPublish),
               readyAt : 0 .. MaxPublish, size : Nat]

Struct == [queue : Seq(QueueEntry), head : Nat, queuedBytes : Int, closed : BOOLEAN,
           pending : [Keys -> Nat], degraded : [RunKeys -> BOOLEAN]]

\* The struct is well-formed.
BrokerOK(b) == b \in Struct /\ b.head <= Len(b.queue)

\* What pending names is queued, is the newest entry of its key, and no barrier
\* follows it.
PendingOK(b) ==
  \A k \in Keys : b.pending[k] # 0 =>
    /\ b.pending[k] \in b.head + 1 .. Len(b.queue)
    /\ b.queue[b.pending[k]].event.key = k
    /\ \A j \in b.pending[k] .. Len(b.queue) : isDeferrableQueuedEvent(b.queue[j].event)
    /\ \A j \in b.pending[k] + 1 .. Len(b.queue) : b.queue[j].event.key # k

SizeOK(b) == b.queuedBytes = SumOfSizes(Queued(b))

\* Deltas are queued within the limits, but for the final resync.
LimitOK(b) ==
  (\E i \in b.head + 1 .. Len(b.queue) : isCoalescibleEvent(b.queue[i].event)) =>
    /\ b.queuedBytes <= MaxBytes + 1
    /\ Len(b.queue) - b.head <= MaxEvents + 1
    /\ OverLimit(b) => b.queue[Len(b.queue)].event.state = "final"

\* The trail of struct b after the entries d were delivered.
TrailOf(b, d) ==
  [i \in 1 .. Len(d) + Len(b.queue) - b.head |->
     IF i <= Len(d) THEN d[i]
     ELSE materializeQueuedEvent(b.queue[b.head + i - Len(d)])]

\* Publication p is in entry x.
Holds(x, p) ==
  x.event.kind # "resync" /\ \E m \in DOMAIN x.parts : x.parts[m] = p

\* An entry holds publications of its event, in their order.
HonestItem(x, lg) ==
  /\ Len(x.parts) > 0
  /\ x.event.kind # "delta" => Len(x.parts) = 1
  /\ \A m \in DOMAIN x.parts : x.parts[m] \in DOMAIN lg /\ lg[x.parts[m]] = x.event
  /\ \A m, n \in DOMAIN x.parts : m < n => x.parts[m] < x.parts[n]

Honest(T, lg) ==
  \A i \in DOMAIN T : T[i].event.kind # "resync" => HonestItem(T[i], lg)

Before(x, y) ==
  \A m \in DOMAIN x.parts, n \in DOMAIN y.parts : x.parts[m] < y.parts[n]

\* Entries whose order matters.
Related(x, y) ==
  /\ x.event.kind # "resync" /\ y.event.kind # "resync"
  /\ \/ x.event.key = y.event.key
     \/ IsLifecycle(x.event) \/ IsLifecycle(y.event)

Ordered(T) ==
  \A i, j \in DOMAIN T : i < j /\ Related(T[i], T[j]) => Before(T[i], T[j])

\* What cannot be replaced is on the trail or was dropped, and not both.
Kept(T, lg, dr) ==
  \A p \in DOMAIN lg :
    \/ isReplaceableEvent(lg[p])
    \/ lg[p].kind = "delta" /\ \E d \in dr : d.id = p
    \/ \E i \in DOMAIN T : Holds(T[i], p)

Lost(T, lg, dr) ==
  \A d \in dr : /\ d.id \in DOMAIN lg /\ lg[d.id].kind = "delta"
                /\ \A i \in DOMAIN T : ~Holds(T[i], d.id)

\* From p to q agent a published the same state.
Same(lg, p, q) ==
  \A n \in DOMAIN lg :
    p <= n /\ n <= q /\ lg[n].key = lg[p].key => lg[n].state = lg[p].state

\* A snapshot is on the trail, or one that replaced it.
Shown(T, lg) ==
  \A p \in DOMAIN lg : lg[p].kind = "agent" =>
    \E i \in DOMAIN T, q \in DOMAIN lg :
      p <= q /\ Holds(T[i], q) /\ lg[q].key = lg[p].key /\ Same(lg, p, q)

TrailInv(T, lg, dr) ==
  /\ Honest(T, lg) /\ Ordered(T) /\ Kept(T, lg, dr) /\ Lost(T, lg, dr)
  /\ Shown(T, lg)

Drop == [id : 1 .. MaxPublish, by : 1 .. MaxPublish, received : Nat]

\* The consumer of T is asked to reload run r after drop d.
Told(T, r, d) ==
  \E i \in d.received + 1 .. Len(T) : T[i].event.kind = "resync" /\ T[i].event.run = r

\* It is asked after every drop of lg, or the run is marked; ends says which runs
\* have ended.
ToldOrMarked(T, lg, ends, dr, degraded) ==
  \A r \in RunKeys \ Sessionless : \A d \in dr : lg[d.id].run = r =>
    \/ Told(T, r, d)
    \/ degraded[r] /\ ~\E i \in d.by .. Len(ends) : ends[i] = RunEnd(r)

\* It was asked after the first drop of a run, and so after one of a marked run.
FirstTold(T, lg, dr, degraded) ==
  /\ \A d \in dr : d.by <= Len(lg)
  /\ \A r \in RunKeys \ Sessionless :
       /\ degraded[r] => \E e \in dr : lg[e.id].run = r /\ Told(T, r, e)
       /\ \A d \in dr : lg[d.id].run = r =>
            \E e \in dr : lg[e.id].run = r /\ e.by <= d.by /\ Told(T, r, e)

Announced(T, lg, ends, dr, degraded) ==
  ToldOrMarked(T, lg, ends, dr, degraded) /\ FirstTold(T, lg, dr, degraded)

HistoryOK ==
  /\ log \in Seq(PublishedEvent) /\ Len(log) <= MaxPublish
  /\ delivered \in Seq(Item)
  /\ dropped \subseteq Drop /\ \A d \in dropped : d.received <= Len(delivered)

ConsumersOK ==
  consumer \in [Consumers -> [at : {"loop", "timer", "empty", "done"},
                              until : 0 .. MaxPublish]]

BrokerInv ==
  /\ BrokerOK(broker) /\ HistoryOK /\ ConsumersOK
  /\ PendingOK(broker) /\ SizeOK(broker) /\ LimitOK(broker)
  /\ TrailInv(TrailOf(broker, delivered), log, dropped)
  /\ Announced(TrailOf(broker, delivered), log, log, dropped, broker.degraded)
  /\ NoLostWakeUp

-----------------------------------------------------------------------------
(* Events. *)

\* What the kind and the key of an event say.
LEMMA EventFacts ==
  ASSUME NEW e \in Queueable
  PROVE  /\ e \in Event
         /\ e.kind \in {"delta", "agent", "end", "resync"}
         /\ e.kind = "delta" => e.key \in Streams /\ e = Delta(e.key)
         /\ e.kind = "agent" => e.key \in Agents /\ e = AgentState(e.key, e.state)
         /\ e.kind \in {"end", "resync"} => e.key \notin Keys
         /\ e.kind = "resync" => e \in ResyncEvent
         /\ e.kind # "resync" => e \in PublishedEvent
         /\ isDeferrableQueuedEvent(e) => e.key \in Keys
         /\ isCoalescibleEvent(e) => e.run \in RunKeys
<1>1. /\ \A s \in Streams : RunOf[s] \in RunKeys
      /\ Streams \cap Agents = {} /\ "none" \notin Streams \cup Agents
  BY BrokerAssumption
<1>2. CASE \E s \in Streams : e = Delta(s)
  <2>1. PICK s \in Streams : e = Delta(s)
    BY <1>2
  <2>2. e.kind = "delta" /\ e.key = s /\ e.run = RunOf[s] /\ e.state = "streaming"
    BY <2>1 DEF Delta
  <2>3. e \in Event
    BY <1>1, <2>1 DEF Delta, Event, Keys
  <2> QED
    BY <1>1, <2>1, <2>2, <2>3
       DEF PublishedEvent, Keys, isDeferrableQueuedEvent, isCoalescibleEvent, isReplaceableEvent
<1>3. CASE \E a \in Agents, state \in LiveStates \cup {"completed"} : e = AgentState(a, state)
  <2>1. PICK a \in Agents, state \in LiveStates \cup {"completed"} : e = AgentState(a, state)
    BY <1>3
  <2>2. e.kind = "agent" /\ e.key = a /\ e.state = state
    BY <2>1 DEF AgentState
  <2>3. e \in Event
    BY <2>1 DEF AgentState, Event, Keys
  <2> QED
    BY <1>1, <2>1, <2>2, <2>3
       DEF PublishedEvent, Keys, isDeferrableQueuedEvent, isCoalescibleEvent, isReplaceableEvent
<1>4. CASE \E r \in Runs : e = RunEnd(r)
  <2>1. PICK r \in Runs : e = RunEnd(r)
    BY <1>4
  <2>2. e.kind = "end" /\ e.key = "none"
    BY <2>1 DEF RunEnd, None
  <2>3. e \in Event
    BY <2>1 DEF RunEnd, Event, RunKeys
  <2> QED
    BY <1>1, <2>1, <2>2, <2>3
       DEF PublishedEvent, Keys, isDeferrableQueuedEvent, isCoalescibleEvent, isReplaceableEvent
<1>5. CASE e \in ResyncEvent
  <2>1. PICK r \in RunKeys, state \in {"degraded", "final"} : e = Resync(r, state)
    BY <1>5 DEF ResyncEvent
  <2>2. e.kind = "resync" /\ e.key = "none"
    BY <2>1 DEF Resync, None
  <2>3. e \in Event
    BY <2>1 DEF Resync, Event
  <2> QED
    BY <1>1, <1>5, <2>2, <2>3
       DEF Keys, isDeferrableQueuedEvent, isCoalescibleEvent, isReplaceableEvent
<1> QED
  BY <1>2, <1>3, <1>4, <1>5 DEF Queueable, PublishedEvent

\* The events that are published, and the resync requests.
LEMMA EventSorts ==
  /\ \A e \in PublishedEvent : e \in Queueable /\ e.kind # "resync"
  /\ \A r \in RunKeys, state \in {"degraded", "final"} :
       /\ Resync(r, state) \in Queueable /\ Resync(r, state).kind = "resync"
       /\ Resync(r, state).run = r /\ Resync(r, state).state = state
       /\ ~isDeferrableQueuedEvent(Resync(r, state))
       /\ ~isCoalescibleEvent(Resync(r, state))
  /\ \A e \in ResyncEvent : e.kind = "resync"
<1>1. ASSUME NEW e \in PublishedEvent
      PROVE  e \in Queueable /\ e.kind # "resync"
  BY DEF PublishedEvent, Queueable, Delta, AgentState, RunEnd
<1>2. ASSUME NEW r \in RunKeys, NEW state \in {"degraded", "final"}
      PROVE  /\ Resync(r, state) \in Queueable /\ Resync(r, state).kind = "resync"
             /\ Resync(r, state).run = r /\ Resync(r, state).state = state
             /\ ~isDeferrableQueuedEvent(Resync(r, state))
             /\ ~isCoalescibleEvent(Resync(r, state))
  <2>1. Resync(r, state) \in Queueable
    BY DEF Queueable, ResyncEvent
  <2>2. /\ Resync(r, state).kind = "resync"
        /\ Resync(r, state).run = r /\ Resync(r, state).state = state
    BY DEF Resync
  <2> QED
    BY <2>1, <2>2 DEF isDeferrableQueuedEvent, isCoalescibleEvent, isReplaceableEvent
<1>3. \A e \in ResyncEvent : e.kind = "resync"
  BY DEF ResyncEvent, Resync
<1> QED
  BY <1>1, <1>2, <1>3

-----------------------------------------------------------------------------
(* The trail. *)

\* What the entries of the trail are.
LEMMA TrailItem ==
  ASSUME NEW T \in Seq(Item), NEW i \in DOMAIN T
  PROVE  /\ T[i].event \in Queueable /\ T[i].parts \in Seq(1 .. MaxPublish)
         /\ T[i] = [event |-> T[i].event, parts |-> T[i].parts]
         /\ Len(T[i].parts) \in Nat /\ DOMAIN T[i].parts = 1 .. Len(T[i].parts)
         /\ \A m \in DOMAIN T[i].parts : T[i].parts[m] \in 1 .. MaxPublish
<1>1. T[i] \in Item
  OBVIOUS
<1>2. T[i].event \in Queueable /\ T[i].parts \in Seq(1 .. MaxPublish)
      /\ T[i] = [event |-> T[i].event, parts |-> T[i].parts]
  BY <1>1 DEF Item
<1>3. \A s \in Seq(1 .. MaxPublish) :
        /\ Len(s) \in Nat /\ DOMAIN s = 1 .. Len(s)
        /\ \A m \in DOMAIN s : s[m] \in 1 .. MaxPublish
  BY BrokerAssumption
<1> QED
  BY <1>2, <1>3

\* A publication that opens an entry of its own.
LEMMA TrailAppend ==
  ASSUME NEW T \in Seq(Item), NEW lg \in Seq(PublishedEvent), NEW dr, TrailInv(T, lg, dr),
         Len(lg) < MaxPublish, MaxPublish \in Nat, NEW e \in PublishedEvent
  PROVE  LET new == [event |-> e, parts |-> <<Len(lg) + 1>>]
         IN  /\ Append(T, new) \in Seq(Item)
             /\ TrailInv(Append(T, new), Append(lg, e), dr)
<1> DEFINE n == Len(lg) + 1
           new == [event |-> e, parts |-> <<n>>]
           U == Append(T, new)
           g == Append(lg, e)
<1>1. /\ n \in 1 .. MaxPublish /\ new \in Item /\ new.event = e /\ new.parts = <<n>>
      /\ e.kind # "resync" /\ DOMAIN new.parts = {1} /\ new.parts[1] = n
  <2>1. e \in Queueable /\ e.kind # "resync"
    BY EventSorts
  <2>2. n \in 1 .. MaxPublish
    OBVIOUS
  <2>3. <<n>> \in Seq(1 .. MaxPublish) /\ DOMAIN <<n>> = {1} /\ <<n>>[1] = n
    BY <2>2
  <2> QED
    BY <2>1, <2>2, <2>3 DEF Item
<1> HIDE DEF new
<1>2. /\ U \in Seq(Item) /\ DOMAIN U = DOMAIN T \cup {Len(T) + 1} /\ Len(T) \in Nat
      /\ DOMAIN T = 1 .. Len(T)
      /\ U[Len(T) + 1] = new /\ \A i \in DOMAIN T : U[i] = T[i]
  BY <1>1
<1>3. /\ g \in Seq(PublishedEvent) /\ DOMAIN g = DOMAIN lg \cup {n}
      /\ DOMAIN lg = 1 .. Len(lg) /\ Len(lg) \in Nat
      /\ g[n] = e /\ \A p \in DOMAIN lg : g[p] = lg[p]
  OBVIOUS
<1> HIDE DEF U, g
<1>4. \A i \in DOMAIN T : T[i].event.kind # "resync" =>
        \A m \in DOMAIN T[i].parts : T[i].parts[m] \in DOMAIN lg /\ T[i].parts[m] < n
  BY <1>3 DEF TrailInv, Honest, HonestItem
<1>5. Honest(U, g)
  <2>1. ASSUME NEW i \in DOMAIN T, T[i].event.kind # "resync"
        PROVE  HonestItem(T[i], g)
    <3>1. HonestItem(T[i], lg)
      BY <2>1 DEF TrailInv, Honest
    <3> QED
      BY <1>3, <3>1 DEF HonestItem
  <2>2. HonestItem(new, g)
    BY <1>1, <1>3 DEF HonestItem
  <2> QED
    BY <1>2, <2>1, <2>2 DEF Honest
<1>6. Ordered(U)
  <2> SUFFICES ASSUME NEW i \in DOMAIN U, NEW j \in DOMAIN U, i < j, Related(U[i], U[j])
               PROVE  Before(U[i], U[j])
    BY DEF Ordered
  <2>1. CASE j \in DOMAIN T
    BY <1>2, <2>1 DEF TrailInv, Ordered
  <2>2. CASE j = Len(T) + 1
    <3>1. i \in DOMAIN T /\ T[i].event.kind # "resync"
      BY <1>2, <2>2 DEF Related
    <3> QED
      BY <1>1, <1>2, <1>4, <2>2, <3>1 DEF Before
  <2> QED
    BY <1>2, <2>1, <2>2
<1>7. /\ \A i \in DOMAIN T : \A p : Holds(T[i], p) => Holds(U[i], p)
      /\ Holds(U[Len(T) + 1], n)
      /\ \A i \in DOMAIN U : \A p : Holds(U[i], p) /\ p # n => i \in DOMAIN T /\ Holds(T[i], p)
      /\ \A i \in DOMAIN T : ~Holds(T[i], n)
  <2>1. Holds(new, n) /\ \A p : Holds(new, p) => p = n
    BY <1>1 DEF Holds
  <2>2. \A i \in DOMAIN T : ~Holds(T[i], n)
    BY <1>4 DEF Holds
  <2> QED
    BY <1>2, <2>1, <2>2
<1>8. Kept(U, g, dr)
  <2> SUFFICES ASSUME NEW p \in DOMAIN g
               PROVE  \/ isReplaceableEvent(g[p])
                      \/ g[p].kind = "delta" /\ \E d \in dr : d.id = p
                      \/ \E i \in DOMAIN U : Holds(U[i], p)
    BY DEF Kept
  <2>1. CASE p = n
    BY <1>2, <1>7, <2>1
  <2>2. CASE p \in DOMAIN lg
    <3>1. \/ isReplaceableEvent(lg[p])
          \/ lg[p].kind = "delta" /\ \E d \in dr : d.id = p
          \/ \E i \in DOMAIN T : Holds(T[i], p)
      BY <2>2 DEF TrailInv, Kept
    <3> QED
      BY <1>2, <1>3, <1>7, <2>2, <3>1
  <2> QED
    BY <1>3, <2>1, <2>2
<1>9. Lost(U, g, dr)
  <2> SUFFICES ASSUME NEW d \in dr
               PROVE  /\ d.id \in DOMAIN g /\ g[d.id].kind = "delta"
                      /\ \A i \in DOMAIN U : ~Holds(U[i], d.id)
    BY DEF Lost
  <2>1. /\ d.id \in DOMAIN lg /\ lg[d.id].kind = "delta"
        /\ \A i \in DOMAIN T : ~Holds(T[i], d.id)
    BY DEF TrailInv, Lost
  <2>2. d.id # n
    BY <1>3, <2>1
  <2> QED
    BY <1>3, <1>7, <2>1, <2>2
<1>10. Shown(U, g)
  <2> SUFFICES ASSUME NEW p \in DOMAIN g, g[p].kind = "agent"
               PROVE  \E i \in DOMAIN U, q \in DOMAIN g :
                        /\ p <= q /\ Holds(U[i], q) /\ g[q].key = g[p].key
                        /\ Same(g, p, q)
    BY DEF Shown
  <2>1. CASE p = n
    <3>1. Same(g, n, n)
      BY <1>3 DEF Same
    <3> QED
      BY <1>2, <1>3, <1>7, <2>1, <3>1
  <2>2. CASE p \in DOMAIN lg
    <3>1. PICK i \in DOMAIN T, q \in DOMAIN lg :
            p <= q /\ Holds(T[i], q) /\ lg[q].key = lg[p].key /\ Same(lg, p, q)
      BY <1>3, <2>2 DEF TrailInv, Shown
    <3>2. Same(g, p, q)
      BY <1>3, <2>2, <3>1 DEF Same
    <3> QED
      BY <1>2, <1>3, <1>7, <2>2, <3>1, <3>2
  <2> QED
    BY <1>3, <2>1, <2>2
<1> QED
  BY <1>2, <1>5, <1>6, <1>8, <1>9, <1>10 DEF TrailInv, U, g, new

\* What publication n of e makes of an entry's text: a delta goes to its end, a
\* snapshot replaces the one before.
Joined(old, text, e, n) ==
  \/ e.kind = "delta" /\ text = Append(old, n)
  \/ isReplaceableEvent(e) /\ text = <<n>>

\* A publication that joins the newest entry of its key.
LEMMA TrailJoin ==
  ASSUME NEW T \in Seq(Item), NEW lg \in Seq(PublishedEvent), NEW dr, TrailInv(T, lg, dr),
         Len(lg) < MaxPublish, NEW e \in PublishedEvent, isDeferrableQueuedEvent(e),
         NEW i \in DOMAIN T, T[i].event = e,
         \A j \in i .. Len(T) : isDeferrableQueuedEvent(T[j].event),
         \A j \in i + 1 .. Len(T) : T[j].event.key # e.key,
         NEW text, Joined(T[i].parts, text, e, Len(lg) + 1)
  PROVE  LET U == [T EXCEPT ![i] = [event |-> e, parts |-> text]]
         IN  U \in Seq(Item) /\ TrailInv(U, Append(lg, e), dr)
<1> DEFINE n == Len(lg) + 1
           new == [event |-> e, parts |-> text]
           U == [T EXCEPT ![i] = new]
           g == Append(lg, e)
<1>1. /\ MaxPublish \in Nat /\ n \in 1 .. MaxPublish /\ e \in Queueable /\ e.kind # "resync"
      /\ Len(T) \in Nat /\ DOMAIN T = 1 .. Len(T) /\ i \in 1 .. Len(T)
  BY BrokerAssumption, EventSorts
<1>2. /\ HonestItem(T[i], lg) /\ T[i].parts \in Seq(1 .. MaxPublish)
      /\ Len(T[i].parts) \in Nat /\ DOMAIN T[i].parts = 1 .. Len(T[i].parts)
  BY <1>1, TrailItem DEF TrailInv, Honest
<1>3. /\ text \in Seq(1 .. MaxPublish) /\ DOMAIN text = 1 .. Len(text)
      /\ Len(text) \in Nat /\ Len(text) > 0 /\ text[Len(text)] = n
      /\ \A m \in DOMAIN text : m # Len(text) =>
           e.kind = "delta" /\ m \in DOMAIN T[i].parts /\ text[m] = T[i].parts[m]
      /\ e.kind = "delta" =>
           \A m \in DOMAIN T[i].parts : m \in DOMAIN text /\ text[m] = T[i].parts[m]
      /\ e.kind # "delta" => Len(text) = 1 /\ isReplaceableEvent(e)
  <2>1. CASE e.kind = "delta" /\ text = Append(T[i].parts, n)
    <3> DEFINE old == T[i].parts
    <3>1. old \in Seq(1 .. MaxPublish) /\ text = Append(old, n)
      BY <1>2, <2>1
    <3> HIDE DEF old
    <3>2. /\ text \in Seq(1 .. MaxPublish) /\ Len(old) \in Nat /\ DOMAIN old = 1 .. Len(old)
          /\ Len(text) = Len(old) + 1 /\ DOMAIN text = 1 .. Len(text)
          /\ text[Len(text)] = n /\ \A m \in 1 .. Len(old) : text[m] = old[m]
      BY <1>1, <3>1
    <3>3. \A m \in DOMAIN text : m # Len(text) => m \in DOMAIN old /\ text[m] = old[m]
      BY <3>2
    <3>4. \A m \in DOMAIN old : m \in DOMAIN text /\ text[m] = old[m]
      BY <3>2
    <3> QED
      BY <2>1, <3>2, <3>3, <3>4 DEF old
  <2>2. CASE isReplaceableEvent(e) /\ text = <<n>>
    <3>1. e.kind = "agent"
      BY <2>2 DEF isReplaceableEvent
    <3> QED
      BY <1>1, <2>2, <3>1
  <2> QED
    BY <2>1, <2>2 DEF Joined
<1>14. Len(text) \in Nat /\ Len(text) > 0 /\ DOMAIN text = 1 .. Len(text)
  BY <1>3
<1>15. Len(text) \in DOMAIN text
  BY <1>14
<1>4. new \in Item /\ new.event = e /\ new.parts = text
  BY <1>1, <1>3 DEF Item
<1> HIDE DEF new
<1>5. /\ U \in Seq(Item) /\ DOMAIN U = DOMAIN T /\ U[i] = new
      /\ \A j \in DOMAIN T : j # i => U[j] = T[j]
  BY <1>4
<1>6. /\ g \in Seq(PublishedEvent) /\ DOMAIN g = DOMAIN lg \cup {n}
      /\ DOMAIN lg = 1 .. Len(lg) /\ Len(lg) \in Nat
      /\ g[n] = e /\ \A p \in DOMAIN lg : g[p] = lg[p]
  OBVIOUS
<1> HIDE DEF U, g
<1>7. \A j \in DOMAIN T : T[j].event.kind # "resync" =>
        \A m \in DOMAIN T[j].parts : T[j].parts[m] \in DOMAIN lg /\ T[j].parts[m] < n
  BY <1>6 DEF TrailInv, Honest, HonestItem
<1>8. Honest(U, g)
  <2>1. ASSUME NEW j \in DOMAIN T, T[j].event.kind # "resync"
        PROVE  HonestItem(T[j], g)
    <3>1. HonestItem(T[j], lg)
      BY <2>1 DEF TrailInv, Honest
    <3> QED
      BY <1>6, <3>1 DEF HonestItem
  <2>2. HonestItem(new, g)
    <3>1. ASSUME NEW m \in DOMAIN text
          PROVE  text[m] \in DOMAIN g /\ g[text[m]] = e
      <4>1. CASE m = Len(text)
        BY <1>3, <1>6, <4>1
      <4>2. CASE m # Len(text)
        <5>1. m \in DOMAIN T[i].parts /\ text[m] = T[i].parts[m]
          BY <1>3, <4>2
        <5> QED
          BY <1>2, <1>6, <5>1 DEF HonestItem
      <4> QED
        BY <4>1, <4>2
    <3>2. ASSUME NEW m \in DOMAIN text, NEW q \in DOMAIN text, m < q
          PROVE  text[m] < text[q]
      <4>1. m # Len(text) /\ m \in DOMAIN T[i].parts /\ text[m] = T[i].parts[m]
        <5>1. m # Len(text)
          BY <1>14, <3>2
        <5> QED
          BY <1>3, <5>1
      <4>2. CASE q = Len(text)
        BY <1>1, <1>3, <1>7, <4>1, <4>2
      <4>3. CASE q # Len(text)
        <5>1. q \in DOMAIN T[i].parts /\ text[q] = T[i].parts[q]
          BY <1>3, <4>3
        <5> QED
          BY <1>2, <3>2, <4>1, <5>1 DEF HonestItem
      <4> QED
        BY <4>2, <4>3
    <3> QED
      BY <1>3, <1>4, <3>1, <3>2 DEF HonestItem
  <2> QED
    BY <1>5, <2>1, <2>2 DEF Honest
<1>9. Ordered(U)
  <2> SUFFICES ASSUME NEW j \in DOMAIN T, NEW k \in DOMAIN T, j < k, Related(U[j], U[k])
               PROVE  Before(U[j], U[k])
    BY <1>5 DEF Ordered
  <2>1. CASE j # i /\ k # i
    BY <1>5, <2>1 DEF TrailInv, Ordered
  <2>2. CASE k = i
    <3>1. j # i /\ U[j] = T[j] /\ T[j].event.kind # "resync" /\ Related(T[j], T[i])
      BY <1>1, <1>4, <1>5, <2>2 DEF Related
    <3>2. Before(T[j], T[i])
      BY <2>2, <3>1 DEF TrailInv, Ordered
    <3>3. ASSUME NEW m \in DOMAIN T[j].parts, NEW q \in DOMAIN text
          PROVE  T[j].parts[m] < text[q]
      <4>1. CASE q = Len(text)
        BY <1>3, <1>7, <3>1, <4>1
      <4>2. CASE q # Len(text)
        BY <1>3, <3>2, <4>2 DEF Before
      <4> QED
        BY <4>1, <4>2
    <3> QED
      BY <1>4, <1>5, <2>2, <3>1, <3>3 DEF Before
  <2>3. CASE j = i
    <3>1. k \in i + 1 .. Len(T) /\ k \in i .. Len(T) /\ U[k] = T[k]
      BY <1>1, <1>5, <2>3
    <3>2. T[k].event.key # e.key /\ ~IsLifecycle(T[k].event) /\ ~IsLifecycle(e)
      BY <3>1 DEF IsLifecycle
    <3> QED
      BY <1>4, <1>5, <2>3, <3>1, <3>2 DEF Related
  <2> QED
    BY <2>1, <2>2, <2>3
<1>10. /\ Holds(U[i], n)
       /\ \A j \in DOMAIN T : \A p : Holds(U[j], p) /\ p # n => Holds(T[j], p)
       /\ \A j \in DOMAIN T : \A p : Holds(T[j], p) /\ (j # i \/ e.kind = "delta") => Holds(U[j], p)
       /\ \A p : Holds(T[i], p) => p \in DOMAIN lg /\ lg[p] = e
  <2>1. Holds(new, n)
    BY <1>1, <1>3, <1>4, <1>15 DEF Holds
  <2>2. \A p : Holds(new, p) /\ p # n => Holds(T[i], p)
    BY <1>1, <1>3, <1>4 DEF Holds
  <2>3. \A p : Holds(T[i], p) /\ e.kind = "delta" => Holds(new, p)
    BY <1>1, <1>3, <1>4 DEF Holds
  <2>4. \A p : Holds(T[i], p) => p \in DOMAIN lg /\ lg[p] = e
    BY <1>2 DEF Holds, HonestItem
  <2> QED
    BY <1>5, <2>1, <2>2, <2>3, <2>4
<1>11. Kept(U, g, dr)
  <2> SUFFICES ASSUME NEW p \in DOMAIN g
               PROVE  \/ isReplaceableEvent(g[p])
                      \/ g[p].kind = "delta" /\ \E d \in dr : d.id = p
                      \/ \E j \in DOMAIN U : Holds(U[j], p)
    BY DEF Kept
  <2>1. CASE p = n
    BY <1>5, <1>10, <2>1
  <2>2. CASE p \in DOMAIN lg
    <3>1. \/ isReplaceableEvent(lg[p])
          \/ lg[p].kind = "delta" /\ \E d \in dr : d.id = p
          \/ \E j \in DOMAIN T : Holds(T[j], p)
      BY <2>2 DEF TrailInv, Kept
    <3>2. ASSUME NEW j \in DOMAIN T, Holds(T[j], p)
          PROVE  Holds(U[j], p) \/ isReplaceableEvent(lg[p])
      BY <1>3, <1>10, <3>2
    <3> QED
      BY <1>5, <1>6, <2>2, <3>1, <3>2
  <2> QED
    BY <1>6, <2>1, <2>2
<1>12. Lost(U, g, dr)
  <2> SUFFICES ASSUME NEW d \in dr
               PROVE  /\ d.id \in DOMAIN g /\ g[d.id].kind = "delta"
                      /\ \A j \in DOMAIN U : ~Holds(U[j], d.id)
    BY DEF Lost
  <2>1. /\ d.id \in DOMAIN lg /\ lg[d.id].kind = "delta"
        /\ \A j \in DOMAIN T : ~Holds(T[j], d.id)
    BY DEF TrailInv, Lost
  <2>2. d.id # n
    BY <1>6, <2>1
  <2> QED
    BY <1>5, <1>6, <1>10, <2>1, <2>2
<1>13. Shown(U, g)
  <2> SUFFICES ASSUME NEW p \in DOMAIN g, g[p].kind = "agent"
               PROVE  \E j \in DOMAIN U, q \in DOMAIN g :
                        /\ p <= q /\ Holds(U[j], q) /\ g[q].key = g[p].key
                        /\ Same(g, p, q)
    BY DEF Shown
  <2>1. CASE p = n
    <3>1. Same(g, n, n)
      BY <1>6 DEF Same
    <3>2. i \in DOMAIN U /\ n \in DOMAIN g /\ n <= n /\ Holds(U[i], n)
      BY <1>1, <1>5, <1>6, <1>10
    <3> QED
      BY <2>1, <3>1, <3>2
  <2>2. CASE p \in DOMAIN lg
    <3>1. PICK j \in DOMAIN T, q \in DOMAIN lg :
            p <= q /\ Holds(T[j], q) /\ lg[q].key = lg[p].key /\ Same(lg, p, q)
      BY <1>6, <2>2 DEF TrailInv, Shown
    <3>2. CASE j # i \/ e.kind = "delta"
      <4>1. Same(g, p, q)
        BY <1>6, <2>2, <3>1 DEF Same
      <4> QED
        BY <1>5, <1>6, <1>10, <2>2, <3>1, <3>2, <4>1
    <3>3. CASE j = i /\ e.kind # "delta"
      <4>1. lg[q] = e /\ lg[p].key = e.key /\ lg[p].state = e.state
        <5>1. lg[q] = e
          BY <1>10, <3>1, <3>3
        <5> QED
          BY <1>6, <2>2, <3>1, <5>1, SMTT(30) DEF Same
      <4>2. ASSUME NEW x \in DOMAIN lg, q < x, lg[x].key = e.key
            PROVE  FALSE
        <5>1. e.key \in Agents /\ Agents \cap Streams = {} /\ Agents \subseteq Keys
          <6>1. e.kind = "agent"
            BY <1>3, <3>3 DEF isReplaceableEvent
          <6> QED
            BY <1>1, <6>1, EventFacts, BrokerAssumption DEF Keys
        <5>2. lg[x].kind = "agent"
          <6>1. lg[x] \in Queueable /\ lg[x].kind # "resync"
            BY <4>2, EventSorts
          <6> QED
            BY <4>2, <5>1, <6>1, EventFacts
        <5>3. PICK j2 \in DOMAIN T, q2 \in DOMAIN lg :
                x <= q2 /\ Holds(T[j2], q2) /\ lg[q2].key = lg[x].key
          BY <5>2 DEF TrailInv, Shown
        <5>4. T[j2].event = lg[q2] /\ T[j2].event.key = e.key /\ T[j2].event.kind # "resync"
          BY <4>2, <5>3 DEF Holds, TrailInv, Honest, HonestItem
        <5>5. q < q2
          BY <1>6, <4>2, <5>3
        <5>6. CASE j2 = i
          <6>1. Len(T[i].parts) = 1
            BY <1>2, <3>3 DEF HonestItem
          <6>2. q = T[i].parts[1] /\ q2 = T[i].parts[1]
            BY <1>2, <3>1, <3>3, <5>3, <5>6, <6>1 DEF Holds
          <6> QED
            BY <1>6, <5>5, <6>2
        <5>7. CASE j2 > i
          BY <1>1, <5>4, <5>7
        <5>8. CASE j2 < i
          <6>1. Before(T[j2], T[i])
            BY <1>1, <5>4, <5>8 DEF TrailInv, Ordered, Related
          <6>2. q2 < q
            BY <3>1, <3>3, <5>3, <6>1 DEF Before, Holds
          <6> QED
            BY <1>6, <5>5, <6>2
        <5> QED
          BY <1>1, <5>6, <5>7, <5>8
      <4>3. Same(g, p, n)
        <5> SUFFICES ASSUME NEW x \in DOMAIN g, p <= x, x <= n, g[x].key = g[p].key
                     PROVE  g[x].state = g[p].state
          BY DEF Same
        <5>1. g[p] = lg[p]
          BY <1>6, <2>2
        <5>2. CASE x = n
          BY <1>6, <4>1, <5>1, <5>2
        <5>3. CASE x # n
          <6>1. x \in DOMAIN lg /\ g[x] = lg[x]
            BY <1>6, <5>3
          <6>2. x <= q
            BY <1>6, <4>1, <4>2, <5>1, <6>1
          <6> QED
            BY <3>1, <5>1, <6>1, <6>2 DEF Same
        <5> QED
          BY <5>2, <5>3
      <4>4. p <= n /\ n \in DOMAIN g /\ g[n].key = g[p].key /\ i \in DOMAIN U
        BY <1>5, <1>6, <2>2, <4>1
      <4> QED
        BY <1>10, <4>3, <4>4
    <3> QED
      BY <3>2, <3>3
  <2> QED
    BY <1>6, <2>1, <2>2
<1> QED
  BY <1>5, <1>8, <1>9, <1>11, <1>12, <1>13 DEF TrailInv, U, g, new

\* A resync request at the end.
LEMMA TrailResync ==
  ASSUME NEW T \in Seq(Item), NEW lg, NEW dr, TrailInv(T, lg, dr), NEW x \in Item,
         x.event.kind = "resync"
  PROVE  Append(T, x) \in Seq(Item) /\ TrailInv(Append(T, x), lg, dr)
<1> DEFINE U == Append(T, x)
<1>1. /\ U \in Seq(Item) /\ DOMAIN U = DOMAIN T \cup {Len(T) + 1} /\ Len(T) \in Nat
      /\ DOMAIN T = 1 .. Len(T)
      /\ U[Len(T) + 1] = x /\ \A i \in DOMAIN T : U[i] = T[i]
  OBVIOUS
<1> HIDE DEF U
<1>2. Honest(U, lg)
  BY <1>1 DEF TrailInv, Honest
<1>3. Ordered(U)
  <2> SUFFICES ASSUME NEW i \in DOMAIN U, NEW j \in DOMAIN U, i < j, Related(U[i], U[j])
               PROVE  Before(U[i], U[j])
    BY DEF Ordered
  <2>1. i \in DOMAIN T /\ j \in DOMAIN T
    BY <1>1 DEF Related
  <2> QED
    BY <1>1, <2>1 DEF TrailInv, Ordered
<1>4. /\ \A i \in DOMAIN T : \A p : Holds(T[i], p) => Holds(U[i], p)
      /\ \A i \in DOMAIN U : \A p : Holds(U[i], p) => i \in DOMAIN T /\ Holds(T[i], p)
  BY <1>1 DEF Holds
<1>5. Kept(U, lg, dr) /\ Lost(U, lg, dr)
  BY <1>1, <1>4 DEF TrailInv, Kept, Lost
<1>6. Shown(U, lg)
  <2> SUFFICES ASSUME NEW p \in DOMAIN lg, lg[p].kind = "agent"
               PROVE  \E i \in DOMAIN U, q \in DOMAIN lg :
                        p <= q /\ Holds(U[i], q) /\ lg[q].key = lg[p].key /\ Same(lg, p, q)
    BY DEF Shown
  <2>1. PICK i \in DOMAIN T, q \in DOMAIN lg :
          p <= q /\ Holds(T[i], q) /\ lg[q].key = lg[p].key /\ Same(lg, p, q)
    BY DEF TrailInv, Shown
  <2> QED
    BY <1>1, <1>4, <2>1
<1> QED
  BY <1>1, <1>2, <1>3, <1>5, <1>6 DEF TrailInv, U

\* Compaction: f says where each of the first N entries was, resync requests follow,
\* and what is missing are deltas whose publications are in lost.
Compaction(T, U, N, f, lost) ==
  /\ N \in Nat /\ N <= Len(U) /\ f \in [1 .. N -> DOMAIN T]
  /\ \A i, j \in 1 .. N : i < j => f[i] < f[j]
  /\ \A i \in 1 .. N : U[i] = T[f[i]]
  /\ \A i \in N + 1 .. Len(U) : U[i].event.kind = "resync"
  /\ \A j \in DOMAIN T :
       \/ \E i \in 1 .. N : f[i] = j
       \/ /\ T[j].event.kind = "delta"
          /\ \A p : Holds(T[j], p) => \E d \in lost : d.id = p
  /\ \A d \in lost : \E j \in DOMAIN T : /\ T[j].event.kind = "delta" /\ Holds(T[j], d.id)
                                         /\ \A i \in 1 .. N : f[i] # j

LEMMA TrailCompact ==
  ASSUME NEW T \in Seq(Item), NEW U \in Seq(Item), NEW lg \in Seq(PublishedEvent), NEW dr,
         TrailInv(T, lg, dr), NEW N, NEW f, NEW lost, Compaction(T, U, N, f, lost)
  PROVE  TrailInv(U, lg, dr \cup lost)
<1>0. Compaction(T, U, N, f, lost)
  OBVIOUS
<1> USE <1>0 DEF Compaction
<1>1. /\ Len(U) \in Nat /\ DOMAIN U = 1 .. Len(U) /\ Len(T) \in Nat /\ DOMAIN T = 1 .. Len(T)
      /\ Len(lg) \in Nat /\ DOMAIN lg = 1 .. Len(lg)
  OBVIOUS
<1>2. \A i \in DOMAIN U : i \in 1 .. N \/ U[i].event.kind = "resync"
  BY <1>1
<1>3. \A i \in 1 .. N : i \in DOMAIN U /\ f[i] \in DOMAIN T
  BY <1>1
<1>4. Honest(U, lg)
  BY <1>2, <1>3 DEF TrailInv, Honest
<1>5. Ordered(U)
  <2> SUFFICES ASSUME NEW i \in DOMAIN U, NEW j \in DOMAIN U, i < j, Related(U[i], U[j])
               PROVE  Before(U[i], U[j])
    BY DEF Ordered
  <2>1. i \in 1 .. N /\ j \in 1 .. N
    BY <1>2 DEF Related
  <2>2. f[i] \in DOMAIN T /\ f[j] \in DOMAIN T /\ f[i] < f[j] /\ Related(T[f[i]], T[f[j]])
    BY <1>3, <2>1
  <2>3. Before(T[f[i]], T[f[j]])
    BY <2>2 DEF TrailInv, Ordered
  <2> QED
    BY <2>1, <2>3
<1>6. \A i \in DOMAIN U : \A p : Holds(U[i], p) => i \in 1 .. N /\ Holds(T[f[i]], p)
  BY <1>2 DEF Holds
<1>7. \A i \in 1 .. N : \A p : Holds(T[f[i]], p) => Holds(U[i], p)
  OBVIOUS
<1>8. \A j \in DOMAIN T : \A p : Holds(T[j], p) => p \in DOMAIN lg /\ lg[p] = T[j].event
  BY DEF Holds, TrailInv, Honest, HonestItem
<1>9. \A j \in DOMAIN T : \A p : Holds(T[j], p) =>
        \/ \E i \in DOMAIN U : Holds(U[i], p)
        \/ lg[p].kind = "delta" /\ \E d \in lost : d.id = p
  <2> SUFFICES ASSUME NEW j \in DOMAIN T, NEW p, Holds(T[j], p)
               PROVE  \/ \E i \in DOMAIN U : Holds(U[i], p)
                      \/ lg[p].kind = "delta" /\ \E d \in lost : d.id = p
    OBVIOUS
  <2>1. CASE \E i \in 1 .. N : f[i] = j
    BY <1>3, <1>7, <2>1
  <2>2. CASE T[j].event.kind = "delta" /\ \E d \in lost : d.id = p
    BY <1>8, <2>2
  <2> QED
    BY <2>1, <2>2
<1>10. Kept(U, lg, dr \cup lost)
  <2> SUFFICES ASSUME NEW p \in DOMAIN lg
               PROVE  \/ isReplaceableEvent(lg[p])
                      \/ lg[p].kind = "delta" /\ \E d \in dr \cup lost : d.id = p
                      \/ \E i \in DOMAIN U : Holds(U[i], p)
    BY DEF Kept
  <2>1. \/ isReplaceableEvent(lg[p])
        \/ lg[p].kind = "delta" /\ \E d \in dr : d.id = p
        \/ \E i \in DOMAIN T : Holds(T[i], p)
    BY DEF TrailInv, Kept
  <2> QED
    BY <1>9, <2>1
<1>11. Lost(U, lg, dr \cup lost)
  <2>1. ASSUME NEW d \in dr
        PROVE  /\ d.id \in DOMAIN lg /\ lg[d.id].kind = "delta"
               /\ \A i \in DOMAIN U : ~Holds(U[i], d.id)
    BY <1>3, <1>6 DEF TrailInv, Lost
  <2>2. ASSUME NEW d \in lost
        PROVE  /\ d.id \in DOMAIN lg /\ lg[d.id].kind = "delta"
               /\ \A i \in DOMAIN U : ~Holds(U[i], d.id)
    <3>1. PICK j \in DOMAIN T : /\ T[j].event.kind = "delta" /\ Holds(T[j], d.id)
                                /\ \A i \in 1 .. N : f[i] # j
      OBVIOUS
    <3>2. d.id \in DOMAIN lg /\ lg[d.id] = T[j].event
      BY <1>8, <3>1
    <3>3. ASSUME NEW i \in DOMAIN U, Holds(U[i], d.id)
          PROVE  FALSE
      <4>1. /\ i \in 1 .. N /\ f[i] \in DOMAIN T /\ Holds(T[f[i]], d.id)
            /\ T[f[i]].event = T[j].event /\ f[i] # j
        BY <1>3, <1>6, <1>8, <3>1, <3>2, <3>3
      <4>2. Related(T[f[i]], T[j]) /\ Related(T[j], T[f[i]])
        BY <3>1, <4>1 DEF Related, Holds
      <4>3. f[i] < j \/ j < f[i]
        BY <1>1, <4>1
      <4>4. Before(T[f[i]], T[j]) \/ Before(T[j], T[f[i]])
        BY <4>1, <4>2, <4>3 DEF TrailInv, Ordered
      <4>5. d.id < d.id
        BY <3>1, <4>1, <4>4 DEF Before, Holds
      <4> QED
        BY <1>1, <3>2, <4>5
    <3> QED
      BY <3>1, <3>2, <3>3
  <2> QED
    BY <2>1, <2>2 DEF Lost
<1>12. Shown(U, lg)
  <2> SUFFICES ASSUME NEW p \in DOMAIN lg, lg[p].kind = "agent"
               PROVE  \E i \in DOMAIN U, q \in DOMAIN lg :
                        p <= q /\ Holds(U[i], q) /\ lg[q].key = lg[p].key /\ Same(lg, p, q)
    BY DEF Shown
  <2>1. PICK j \in DOMAIN T, q \in DOMAIN lg :
          p <= q /\ Holds(T[j], q) /\ lg[q].key = lg[p].key /\ Same(lg, p, q)
    BY DEF TrailInv, Shown
  <2>2. lg[q].kind # "delta"
    <3>1. lg[p] \in Queueable /\ lg[q] \in Queueable
      BY EventSorts
    <3>2. lg[p].key \in Agents
      BY <3>1, EventFacts
    <3> QED
      BY <2>1, <3>1, <3>2, EventFacts, BrokerAssumption
  <2>3. \E i \in DOMAIN U : Holds(U[i], q)
    BY <1>9, <2>1, <2>2
  <2> QED
    BY <2>1, <2>3
<1> QED
  BY <1>4, <1>5, <1>10, <1>11, <1>12 DEF TrailInv

-----------------------------------------------------------------------------
(* Sums of sizes. *)

\* The fragments of the entries in s.
Fragments(s) == UNION {{i} \X (1 .. s[i].size) : i \in DOMAIN s}

LEMMA FragmentIn ==
  ASSUME NEW s
  PROVE  \A x : x \in Fragments(s) <=>
           \E i \in DOMAIN s : \E j \in 1 .. s[i].size : x = <<i, j>>
BY DEF Fragments

\* A row of fragments, and two parts that do not overlap.
LEMMA RowOfFragments ==
  ASSUME NEW i, NEW k \in Nat
  PROVE  IsFiniteSet({i} \X (1 .. k)) /\ Cardinality({i} \X (1 .. k)) = k
<1> DEFINE A == {i}
           B == 1 .. k
<1>1. IsFiniteSet(A) /\ Cardinality(A) = 1
  BY FS_Singleton
<1>2. IsFiniteSet(B) /\ Cardinality(B) = k
  BY FS_Interval
<1> HIDE DEF A, B
<1>3. IsFiniteSet(A \X B) /\ Cardinality(A \X B) = Cardinality(A) * Cardinality(B)
  BY <1>1, <1>2, FS_Product
<1>4. Cardinality(A \X B) = k
  BY <1>1, <1>2, <1>3
<1> QED
  BY <1>3, <1>4 DEF A, B

LEMMA DisjointUnion ==
  ASSUME NEW A, NEW B, IsFiniteSet(A), IsFiniteSet(B), A \cap B = {}
  PROVE  Cardinality(A \cup B) = Cardinality(A) + Cardinality(B)
<1>1. Cardinality(A) \in Nat /\ Cardinality(B) \in Nat /\ Cardinality(A \cap B) = 0
  BY FS_CardinalityType, FS_EmptySet
<1>2. Cardinality(A \cup B) = Cardinality(A) + Cardinality(B) - Cardinality(A \cap B)
  BY FS_Union
<1> QED
  BY <1>1, <1>2

LEMMA EntryType ==
  ASSUME NEW s \in Seq(QueueEntry)
  PROVE  /\ DOMAIN s = 1 .. Len(s) /\ Len(s) \in Nat
         /\ \A i \in DOMAIN s :
              /\ s[i] \in QueueEntry /\ s[i].size \in Nat /\ s[i].event \in Queueable
              /\ s[i].readyAt \in 0 .. MaxPublish /\ s[i].parts \in Seq(1 .. MaxPublish)
<1>1. DOMAIN s = 1 .. Len(s) /\ Len(s) \in Nat /\ \A i \in DOMAIN s : s[i] \in QueueEntry
  OBVIOUS
<1>2. \A x \in QueueEntry :
        /\ x.size \in Nat /\ x.event \in Queueable
        /\ x.readyAt \in 0 .. MaxPublish /\ x.parts \in Seq(1 .. MaxPublish)
  BY DEF QueueEntry
<1> QED
  BY <1>1, <1>2

LEMMA FragmentsFinite ==
  ASSUME NEW s \in Seq(QueueEntry)
  PROVE  /\ IsFiniteSet(Fragments(s)) /\ Cardinality(Fragments(s)) \in Nat
         /\ SumOfSizes(s) = Cardinality(Fragments(s))
<1> DEFINE D == DOMAIN s
           row(i) == {i} \X (1 .. s[i].size)
           rows == {row(i) : i \in D}
           h == [i \in D |-> row(i)]
<1>1. IsFiniteSet(D)
  BY EntryType, FS_Interval
<1>2. h \in Surjection(D, rows)
  BY DEF Surjection
<1>3. \A i \in D : IsFiniteSet(row(i))
  BY EntryType, RowOfFragments
<1>4. \A r \in rows : IsFiniteSet(r)
  BY <1>3
<1>5. Fragments(s) = UNION rows
  BY DEF Fragments
<1> HIDE DEF rows, h, D
<1>6. IsFiniteSet(rows)
  BY <1>1, <1>2, FS_Surjection, Zenon
<1>7. IsFiniteSet(UNION rows)
  BY <1>4, <1>6, FS_UNION
<1>8. SumOfSizes(s) = Cardinality(Fragments(s))
  BY DEF SumOfSizes, Fragments
<1> QED
  BY <1>5, <1>7, <1>8, FS_CardinalityType

LEMMA SumEmpty ==
  SumOfSizes(<<>>) = 0
<1>1. <<>> \in Seq(QueueEntry) /\ DOMAIN <<>> = {}
  OBVIOUS
<1>2. Fragments(<<>>) = {}
  BY <1>1, FragmentIn
<1> QED
  BY <1>1, <1>2, FragmentsFinite, FS_EmptySet

LEMMA SumSame ==
  ASSUME NEW s \in Seq(QueueEntry), NEW t \in Seq(QueueEntry), Len(s) = Len(t),
         \A i \in 1 .. Len(s) : s[i].size = t[i].size
  PROVE  SumOfSizes(s) = SumOfSizes(t)
<1>1. DOMAIN s = DOMAIN t /\ \A i \in DOMAIN s : s[i].size = t[i].size
  BY EntryType
<1>2. \A x : (\E i \in DOMAIN s : \E j \in 1 .. s[i].size : x = <<i, j>>)
              <=> (\E i \in DOMAIN t : \E j \in 1 .. t[i].size : x = <<i, j>>)
  BY <1>1
<1>3. Fragments(s) = Fragments(t)
  <2>1. \A x : x \in Fragments(s) <=> x \in Fragments(t)
    BY <1>2, FragmentIn, SMTT(30)
  <2> QED
    BY <2>1
<1> QED
  BY <1>3, FragmentsFinite

\* The fragments of one entry and those of the others.
LEMMA FragmentsSplit ==
  ASSUME NEW s \in Seq(QueueEntry), NEW i \in DOMAIN s
  PROVE  LET rest == {x \in Fragments(s) : x[1] # i}
         IN  /\ IsFiniteSet(rest) /\ Cardinality(rest) \in Nat /\ s[i].size \in Nat
             /\ SumOfSizes(s) = Cardinality(rest) + s[i].size
<1> DEFINE rest == {x \in Fragments(s) : x[1] # i}
           row == {i} \X (1 .. s[i].size)
<1>1. s[i].size \in Nat
  BY EntryType
<1>2. \A x \in Fragments(s) : x[1] = i => x \in row
  BY FragmentIn
<1>3. \A x \in row : x \in Fragments(s) /\ x[1] = i
  BY FragmentIn
<1>4. Fragments(s) = rest \cup row /\ rest \cap row = {}
  BY <1>2, <1>3
<1>5. IsFiniteSet(row) /\ Cardinality(row) = s[i].size
  BY <1>1, RowOfFragments
<1>6. rest \in SUBSET Fragments(s)
  OBVIOUS
<1> HIDE DEF row, rest
<1>7. IsFiniteSet(rest) /\ Cardinality(rest) \in Nat
  BY <1>6, FragmentsFinite, FS_Subset, FS_CardinalityType
<1>8. Cardinality(Fragments(s)) = Cardinality(rest) + s[i].size
  BY <1>4, <1>5, <1>7, DisjointUnion
<1> QED
  BY <1>1, <1>7, <1>8, FragmentsFinite DEF rest

\* One entry gets another size.
LEMMA SumReplace ==
  ASSUME NEW s \in Seq(QueueEntry), NEW t \in Seq(QueueEntry), Len(s) = Len(t),
         NEW i \in DOMAIN s, \A j \in DOMAIN s : j # i => s[j].size = t[j].size
  PROVE  SumOfSizes(t) = SumOfSizes(s) - s[i].size + t[i].size
<1> DEFINE sRest == {x \in Fragments(s) : x[1] # i}
           tRest == {x \in Fragments(t) : x[1] # i}
<1>1. DOMAIN s = DOMAIN t
  BY EntryType
<1>2. ASSUME NEW x
      PROVE  x \in sRest <=> x \in tRest
  <2>1. ASSUME NEW k \in DOMAIN s, NEW j, x = <<k, j>>, k # i
        PROVE  j \in 1 .. s[k].size <=> j \in 1 .. t[k].size
    BY <2>1
  <2>2. x \in sRest <=> \E k \in DOMAIN s : \E j \in 1 .. s[k].size : x = <<k, j>> /\ k # i
    BY FragmentIn
  <2>3. x \in tRest <=> \E k \in DOMAIN t : \E j \in 1 .. t[k].size : x = <<k, j>> /\ k # i
    BY FragmentIn, SMTT(30)
  <2> QED
    BY <1>1, <2>1, <2>2, <2>3
<1>3. sRest = tRest
  BY <1>2
<1> HIDE DEF sRest, tRest
<1>4. /\ Cardinality(sRest) \in Nat /\ s[i].size \in Nat
      /\ SumOfSizes(s) = Cardinality(sRest) + s[i].size
  BY FragmentsSplit DEF sRest
<1>5. t[i].size \in Nat /\ SumOfSizes(t) = Cardinality(tRest) + t[i].size
  BY <1>1, FragmentsSplit DEF tRest
<1> QED
  BY <1>3, <1>4, <1>5

LEMMA SumAppend ==
  ASSUME NEW s \in Seq(QueueEntry), NEW x \in QueueEntry
  PROVE  SumOfSizes(Append(s, x)) = SumOfSizes(s) + x.size
<1> DEFINE t == Append(s, x)
           n == Len(s) + 1
           rest == {y \in Fragments(t) : y[1] # n}
<1>1. /\ t \in Seq(QueueEntry) /\ DOMAIN t = DOMAIN s \cup {n} /\ n \notin DOMAIN s
      /\ t[n] = x /\ \A i \in DOMAIN s : t[i] = s[i]
  OBVIOUS
<1> HIDE DEF t, n
<1>2. ASSUME NEW y
      PROVE  y \in rest <=> y \in Fragments(s)
  <2>1. y \in rest <=> \E k \in DOMAIN t : \E j \in 1 .. t[k].size : y = <<k, j>> /\ k # n
    BY FragmentIn
  <2>2. y \in Fragments(s) <=> \E k \in DOMAIN s : \E j \in 1 .. s[k].size : y = <<k, j>>
    BY FragmentIn
  <2> QED
    BY <1>1, <2>1, <2>2
<1>3. rest = Fragments(s)
  BY <1>2
<1> HIDE DEF rest
<1>4. n \in DOMAIN t /\ SumOfSizes(t) = Cardinality(rest) + t[n].size
  BY <1>1, FragmentsSplit DEF rest
<1> QED
  BY <1>1, <1>3, <1>4, FragmentsFinite DEF t

\* The first entry leaves.
LEMMA SumTail ==
  ASSUME NEW s \in Seq(QueueEntry), NEW t \in Seq(QueueEntry), Len(s) = Len(t) + 1,
         \A i \in 1 .. Len(t) : t[i].size = s[i + 1].size
  PROVE  SumOfSizes(s) = SumOfSizes(t) + s[1].size
<1> DEFINE rest == {x \in Fragments(s) : x[1] # 1}
           h == [x \in Fragments(t) |-> <<x[1] + 1, x[2]>>]
<1>1. /\ Len(t) \in Nat /\ DOMAIN t = 1 .. Len(t) /\ DOMAIN s = 1 .. Len(t) + 1
      /\ 1 \in DOMAIN s
  BY EntryType
<1>2. \A x \in Fragments(t) : /\ x = <<x[1], x[2]>> /\ x[1] \in 1 .. Len(t)
                              /\ x[2] \in 1 .. t[x[1]].size
  BY <1>1, FragmentIn
<1>3. \A x \in rest : /\ x = <<x[1], x[2]>> /\ x[1] \in 2 .. Len(t) + 1
                      /\ x[2] \in 1 .. s[x[1]].size
  <2> SUFFICES ASSUME NEW x \in rest
               PROVE  /\ x = <<x[1], x[2]>> /\ x[1] \in 2 .. Len(t) + 1
                      /\ x[2] \in 1 .. s[x[1]].size
    OBVIOUS
  <2>1. PICK k \in DOMAIN s : \E j \in 1 .. s[k].size : x = <<k, j>>
    BY FragmentIn
  <2>2. k # 1
    BY <2>1
  <2> QED
    BY <1>1, <2>1, <2>2
<1>4. h \in Bijection(Fragments(t), rest)
  <2>1. ASSUME NEW x \in Fragments(t)
        PROVE  h[x] \in rest
    <3>1. x[1] + 1 \in DOMAIN s /\ s[x[1] + 1].size = t[x[1]].size /\ x[1] + 1 # 1
      BY <1>1, <1>2
    <3>2. <<x[1] + 1, x[2]>> \in Fragments(s)
      BY <1>2, <3>1, FragmentIn
    <3> QED
      BY <3>1, <3>2
  <2>2. \A x, y \in Fragments(t) : h[x] = h[y] => x = y
    BY <1>2
  <2>3. ASSUME NEW y \in rest
        PROVE  \E x \in Fragments(t) : h[x] = y
    <3> DEFINE x == <<y[1] - 1, y[2]>>
    <3>1. y[1] - 1 \in DOMAIN t /\ t[y[1] - 1].size = s[y[1]].size
      BY <1>1, <1>3, SMTT(30)
    <3>2. x \in Fragments(t)
      BY <1>3, <3>1, FragmentIn
    <3>3. h[x] = y
      BY <1>3, <3>2
    <3> QED
      BY <3>2, <3>3
  <2>4. h \in [Fragments(t) -> rest]
    BY <2>1
  <2> HIDE DEF h, rest
  <2>5. h \in Injection(Fragments(t), rest)
    BY <2>2, <2>4 DEF Injection, IsInjective
  <2>6. h \in Surjection(Fragments(t), rest)
    BY <2>3, <2>4 DEF Surjection
  <2> QED
    BY <2>5, <2>6 DEF Bijection
<1> HIDE DEF h, rest
<1>5. ExistsBijection(Fragments(t), rest)
  BY <1>4 DEF ExistsBijection
<1>6. Cardinality(rest) = Cardinality(Fragments(t))
  <2>1. IsFiniteSet(Fragments(t))
    BY FragmentsFinite
  <2> QED
    BY <1>5, <2>1, FS_Bijection, Zenon
<1>7. SumOfSizes(s) = Cardinality(rest) + s[1].size
  BY <1>1, FragmentsSplit DEF rest
<1> QED
  BY <1>6, <1>7, FragmentsFinite

\* Entries of size 1 are added at the end.
LEMMA SumConcat ==
  ASSUME NEW s \in Seq(QueueEntry), NEW r \in Seq(QueueEntry),
         \A i \in 1 .. Len(r) : r[i].size = 1
  PROVE  SumOfSizes(s \o r) = SumOfSizes(s) + Len(r)
<1> DEFINE t == s \o r
           places == Len(s) + 1 .. Len(s) + Len(r)
           one == {1}
           more == places \X one
<1>1. /\ t \in Seq(QueueEntry) /\ Len(s) \in Nat /\ Len(r) \in Nat
      /\ DOMAIN s = 1 .. Len(s) /\ DOMAIN t = DOMAIN s \cup places /\ DOMAIN s \cap places = {}
      /\ \A i \in DOMAIN s : t[i] = s[i]
      /\ \A i \in places : t[i].size = 1
  <2>1. /\ t \in Seq(QueueEntry) /\ Len(s) \in Nat /\ Len(r) \in Nat
        /\ DOMAIN s = 1 .. Len(s) /\ DOMAIN t = 1 .. Len(s) + Len(r)
        /\ \A i \in DOMAIN s : t[i] = s[i]
        /\ \A i \in places : t[i] = r[i - Len(s)]
    OBVIOUS
  <2>2. \A i \in places : i - Len(s) \in 1 .. Len(r)
    BY <2>1
  <2>3. 1 .. Len(s) + Len(r) = 1 .. Len(s) \cup places /\ 1 .. Len(s) \cap places = {}
    BY <2>1
  <2> HIDE DEF t, places
  <2>4. \A i \in places : t[i].size = 1
    BY <2>1, <2>2
  <2> QED
    BY <2>1, <2>3, <2>4
<1>2. IsFiniteSet(places) /\ Cardinality(places) = Len(r)
  <2> DEFINE first == Len(s) + 1
             last == Len(s) + Len(r)
  <2>1. first \in Int /\ last \in Int /\ last - first + 1 = Len(r)
        /\ (first > last => Len(r) = 0) /\ places = first .. last
    BY <1>1
  <2> HIDE DEF first, last
  <2>2. /\ IsFiniteSet(first .. last)
        /\ Cardinality(first .. last) = IF first > last THEN 0 ELSE last - first + 1
    BY <2>1, FS_Interval
  <2> QED
    BY <2>1, <2>2
<1> HIDE DEF t, places
<1>3. \A y : y \in more <=> \E i \in places : y = <<i, 1>>
  OBVIOUS
<1>4. IsFiniteSet(one) /\ Cardinality(one) = 1
  BY FS_Singleton
<1> HIDE DEF one
<1>5. IsFiniteSet(more) /\ Cardinality(more) = Len(r)
  <2>1. IsFiniteSet(more) /\ Cardinality(more) = Cardinality(places) * Cardinality(one)
    BY <1>2, <1>4, FS_Product
  <2> QED
    BY <1>1, <1>2, <1>4, <2>1
<1> HIDE DEF more
<1>6. ASSUME NEW y
      PROVE  y \in Fragments(t) <=> y \in Fragments(s) \/ y \in more
  <2>1. y \in Fragments(t) <=> \E k \in DOMAIN t : \E j \in 1 .. t[k].size : y = <<k, j>>
    BY FragmentIn
  <2>2. y \in Fragments(s) <=> \E k \in DOMAIN s : \E j \in 1 .. s[k].size : y = <<k, j>>
    BY FragmentIn
  <2>3. \A i \in places : \A j : j \in 1 .. t[i].size <=> j = 1
    BY <1>1
  <2> QED
    BY <1>1, <1>3, <2>1, <2>2, <2>3, SMTT(30)
<1>7. Fragments(s) \cap more = {}
  <2> SUFFICES ASSUME NEW y \in Fragments(s), y \in more
               PROVE  FALSE
    OBVIOUS
  <2>1. PICK k \in DOMAIN s : \E j \in 1 .. s[k].size : y = <<k, j>>
    BY FragmentIn
  <2>2. PICK i \in places : y = <<i, 1>>
    BY <1>3
  <2> QED
    BY <1>1, <2>1, <2>2
<1>8. Fragments(t) = Fragments(s) \cup more
  BY <1>6
<1>9. Cardinality(Fragments(t)) = Cardinality(Fragments(s)) + Len(r)
  BY <1>5, <1>7, <1>8, FragmentsFinite, DisjointUnion
<1> QED
  BY <1>1, <1>9, FragmentsFinite DEF t

-----------------------------------------------------------------------------
(* The struct. *)

LEMMA StructParts ==
  ASSUME NEW b, BrokerOK(b)
  PROVE  /\ b.queue \in Seq(QueueEntry) /\ Len(b.queue) \in Nat
         /\ DOMAIN b.queue = 1 .. Len(b.queue)
         /\ \A i \in 1 .. Len(b.queue) :
              /\ b.queue[i] \in QueueEntry /\ b.queue[i].event \in Queueable
              /\ b.queue[i].parts \in Seq(1 .. MaxPublish)
              /\ b.queue[i].readyAt \in 0 .. MaxPublish /\ b.queue[i].size \in Nat
         /\ b.head \in Nat /\ b.head <= Len(b.queue) /\ b.queuedBytes \in Int
         /\ b.closed \in BOOLEAN /\ b.pending \in [Keys -> Nat]
         /\ b.degraded \in [RunKeys -> BOOLEAN]
<1>1. /\ b.queue \in Seq(QueueEntry) /\ b.head \in Nat /\ b.head <= Len(b.queue)
      /\ b.queuedBytes \in Int /\ b.closed \in BOOLEAN /\ b.pending \in [Keys -> Nat]
      /\ b.degraded \in [RunKeys -> BOOLEAN]
  BY DEF BrokerOK, Struct
<1> DEFINE q == b.queue
<1>2. q \in Seq(QueueEntry)
  BY <1>1
<1> HIDE DEF q
<1>3. /\ DOMAIN q = 1 .. Len(q) /\ Len(q) \in Nat
      /\ \A i \in DOMAIN q : /\ q[i] \in QueueEntry /\ q[i].size \in Nat /\ q[i].event \in Queueable
                             /\ q[i].readyAt \in 0 .. MaxPublish
                             /\ q[i].parts \in Seq(1 .. MaxPublish)
  BY <1>2, EntryType
<1> QED
  BY <1>1, <1>3 DEF q

LEMMA QueuedParts ==
  ASSUME NEW b, BrokerOK(b)
  PROVE  /\ Queued(b) \in Seq(QueueEntry) /\ Len(Queued(b)) = Len(b.queue) - b.head
         /\ \A i \in 1 .. Len(b.queue) - b.head :
              Queued(b)[i] = b.queue[b.head + i] /\ b.head + i \in 1 .. Len(b.queue)
<1> DEFINE q == b.queue
           h == b.head
<1>1. q \in Seq(QueueEntry) /\ Len(q) \in Nat /\ h \in Nat /\ h <= Len(q)
  BY StructParts
<1>2. Queued(b) = SubSeq(q, h + 1, Len(q))
  BY DEF Queued
<1> HIDE DEF q, h
<1>3. /\ SubSeq(q, h + 1, Len(q)) \in Seq(QueueEntry)
      /\ Len(SubSeq(q, h + 1, Len(q))) = Len(q) - h
      /\ \A i \in 1 .. Len(q) - h :
           SubSeq(q, h + 1, Len(q))[i] = q[h + i] /\ h + i \in 1 .. Len(q)
  BY <1>1
<1> QED
  BY <1>2, <1>3 DEF q, h

LEMMA Materialized ==
  ASSUME NEW x \in QueueEntry
  PROVE  /\ materializeQueuedEvent(x) \in Item
         /\ materializeQueuedEvent(x) = [event |-> x.event, parts |-> x.parts]
         /\ materializeQueuedEvent(x).event = x.event
         /\ materializeQueuedEvent(x).parts = x.parts
BY DEF QueueEntry, Item, materializeQueuedEvent

\* What the trail shows of entry i of a queue.
ItemAt(q, i) == [event |-> q[i].event, parts |-> q[i].parts]

LEMMA TrailParts ==
  ASSUME NEW b, BrokerOK(b), NEW d \in Seq(Item)
  PROVE  /\ TrailOf(b, d) \in Seq(Item)
         /\ Len(TrailOf(b, d)) = Len(d) + (Len(b.queue) - b.head) /\ Len(d) \in Nat
         /\ DOMAIN TrailOf(b, d) = 1 .. Len(d) + (Len(b.queue) - b.head)
         /\ \A i \in 1 .. Len(d) : TrailOf(b, d)[i] = d[i]
         /\ \A i \in b.head + 1 .. Len(b.queue) :
              /\ Len(d) + (i - b.head) \in Len(d) + 1 .. Len(TrailOf(b, d))
              /\ TrailOf(b, d)[Len(d) + (i - b.head)] = ItemAt(b.queue, i)
         /\ \A j \in Len(d) + 1 .. Len(TrailOf(b, d)) :
              /\ b.head + (j - Len(d)) \in b.head + 1 .. Len(b.queue)
              /\ TrailOf(b, d)[j] = ItemAt(b.queue, b.head + (j - Len(d)))
<1> DEFINE q == b.queue
           h == b.head
           M == Len(d) + (Len(q) - h)
           T == [i \in 1 .. M |-> IF i <= Len(d) THEN d[i]
                                  ELSE materializeQueuedEvent(q[h + i - Len(d)])]
<1>1. /\ q \in Seq(QueueEntry) /\ Len(q) \in Nat /\ h \in Nat /\ h <= Len(q)
      /\ \A i \in 1 .. Len(q) : q[i] \in QueueEntry
  BY StructParts
<1>2. Len(d) \in Nat /\ \A i \in 1 .. Len(d) : d[i] \in Item
  OBVIOUS
<1>3. TrailOf(b, d) = T
  <2>1. Len(d) + Len(q) - h = M
    BY <1>1, <1>2
  <2> QED
    BY <2>1 DEF TrailOf
<1> HIDE DEF q, h
<1>4. M \in Nat /\ Len(d) <= M
  BY <1>1, <1>2
<1>5. \A j \in 1 .. M : j > Len(d) =>
        /\ h + j - Len(d) \in h + 1 .. Len(q) /\ h + j - Len(d) = h + (j - Len(d))
        /\ h + j - Len(d) \in 1 .. Len(q)
  BY <1>1, <1>2
<1>6. \A j \in 1 .. M : T[j] = IF j <= Len(d) THEN d[j]
                               ELSE materializeQueuedEvent(q[h + j - Len(d)])
  OBVIOUS
<1>7. \A j \in 1 .. M : T[j] \in Item
  <2> SUFFICES ASSUME NEW j \in 1 .. M
               PROVE  T[j] \in Item
    OBVIOUS
  <2>1. CASE j <= Len(d)
    BY <1>2, <1>6, <2>1
  <2>2. CASE j > Len(d)
    <3>1. q[h + j - Len(d)] \in QueueEntry
      BY <1>1, <1>5, <2>2
    <3>2. T[j] = materializeQueuedEvent(q[h + j - Len(d)])
      BY <1>2, <1>6, <2>2
    <3> QED
      BY <3>1, <3>2, Materialized
  <2> QED
    BY <1>2, <2>1, <2>2
<1>8. T \in [1 .. M -> Item] /\ DOMAIN T = 1 .. M
  BY <1>7
<1> HIDE DEF T
<1>9. T \in Seq(Item) /\ Len(T) = M
  BY <1>4, <1>8
<1>10. \A i \in 1 .. Len(d) : T[i] = d[i]
  BY <1>2, <1>4, <1>6
<1>11. \A j \in Len(d) + 1 .. M :
         /\ h + (j - Len(d)) \in h + 1 .. Len(q)
         /\ T[j] = ItemAt(q, h + (j - Len(d)))
  <2> SUFFICES ASSUME NEW j \in Len(d) + 1 .. M
               PROVE  /\ h + (j - Len(d)) \in h + 1 .. Len(q)
                      /\ T[j] = ItemAt(q, h + (j - Len(d)))
    OBVIOUS
  <2>1. j \in 1 .. M /\ j > Len(d) /\ ~(j <= Len(d))
    BY <1>2, <1>4
  <2>2. q[h + (j - Len(d))] \in QueueEntry /\ h + (j - Len(d)) \in h + 1 .. Len(q)
    BY <1>1, <1>5, <2>1
  <2>3. T[j] = materializeQueuedEvent(q[h + (j - Len(d))])
    BY <1>5, <1>6, <2>1
  <2> QED
    BY <2>2, <2>3, Materialized DEF ItemAt
<1>12. \A i \in h + 1 .. Len(q) :
         Len(d) + (i - h) \in Len(d) + 1 .. M /\ h + ((Len(d) + (i - h)) - Len(d)) = i
  BY <1>1, <1>2
<1>13. \A i \in h + 1 .. Len(q) :
         T[Len(d) + (i - h)] = ItemAt(q, i)
  <2> SUFFICES ASSUME NEW i \in h + 1 .. Len(q)
               PROVE  T[Len(d) + (i - h)] = ItemAt(q, i)
    OBVIOUS
  <2> DEFINE j == Len(d) + (i - h)
  <2>1. j \in Len(d) + 1 .. M /\ h + (j - Len(d)) = i
    BY <1>12
  <2> HIDE DEF j
  <2>2. T[j] = ItemAt(q, i)
    BY <1>11, <2>1
  <2> QED
    BY <2>2 DEF j
<1> HIDE DEF M
<1>14. /\ TrailOf(b, d) \in Seq(Item) /\ Len(TrailOf(b, d)) = M
       /\ DOMAIN TrailOf(b, d) = 1 .. M
  BY <1>3, <1>8, <1>9
<1> QED
  BY <1>2, <1>3, <1>10, <1>11, <1>12, <1>13, <1>14 DEF M, q, h

\* The same under one name.
TrailShape(b, d) ==
  /\ TrailOf(b, d) \in Seq(Item)
  /\ Len(TrailOf(b, d)) = Len(d) + (Len(b.queue) - b.head) /\ Len(d) \in Nat
  /\ \A i \in 1 .. Len(d) : TrailOf(b, d)[i] = d[i]
  /\ \A j \in Len(d) + 1 .. Len(TrailOf(b, d)) :
       /\ b.head + (j - Len(d)) \in b.head + 1 .. Len(b.queue)
       /\ TrailOf(b, d)[j] = ItemAt(b.queue, b.head + (j - Len(d)))

LEMMA TrailShaped ==
  ASSUME NEW b, BrokerOK(b), NEW d \in Seq(Item)
  PROVE  TrailShape(b, d)
BY TrailParts DEF TrailShape

\* The entries of q got other windows, and nothing else changed.
Retimed(q, r) ==
  /\ r \in Seq(QueueEntry) /\ Len(r) = Len(q)
  /\ \A i \in 1 .. Len(q) :
       r[i].event = q[i].event /\ r[i].parts = q[i].parts /\ r[i].size = q[i].size

LEMMA RetimedStruct ==
  ASSUME NEW b, BrokerOK(b), NEW c \in Struct, c.head = b.head, Retimed(b.queue, c.queue),
         c.queuedBytes = b.queuedBytes, NEW d \in Seq(Item)
  PROVE  /\ BrokerOK(c) /\ TrailOf(c, d) = TrailOf(b, d)
         /\ SizeOK(b) => SizeOK(c)
         /\ LimitOK(b) => LimitOK(c)
         /\ PendingOK(b) /\ c.pending = b.pending => PendingOK(c)
<1>1. Len(c.queue) = Len(b.queue) /\ b.head \in Nat /\ b.head <= Len(b.queue)
  BY StructParts DEF Retimed
<1>2. BrokerOK(c)
  BY <1>1 DEF BrokerOK
<1>3. \A i \in 1 .. Len(b.queue) :
        /\ c.queue[i].event = b.queue[i].event /\ c.queue[i].parts = b.queue[i].parts
        /\ c.queue[i].size = b.queue[i].size
  BY DEF Retimed
<1>4. TrailOf(c, d) = TrailOf(b, d)
  <2>1. \A i \in 1 .. Len(b.queue) :
          materializeQueuedEvent(c.queue[i]) = materializeQueuedEvent(b.queue[i])
    BY <1>3 DEF materializeQueuedEvent
  <2>2. Len(d) \in Nat /\ Len(b.queue) \in Nat
    BY StructParts
  <2>3. \A i \in 1 .. Len(d) + Len(b.queue) - b.head :
          ~(i <= Len(d)) => b.head + i - Len(d) \in 1 .. Len(b.queue)
    BY <1>1, <2>2
  <2> QED
    BY <1>1, <2>1, <2>3 DEF TrailOf
<1>5. ASSUME SizeOK(b)
      PROVE  SizeOK(c)
  <2>1. /\ Queued(b) \in Seq(QueueEntry) /\ Queued(c) \in Seq(QueueEntry)
        /\ Len(Queued(b)) = Len(b.queue) - b.head /\ Len(Queued(b)) = Len(Queued(c))
    BY <1>1, <1>2, QueuedParts
  <2>2. ASSUME NEW i \in 1 .. Len(Queued(b))
        PROVE  Queued(b)[i].size = Queued(c)[i].size
    <3>1. Queued(b)[i] = b.queue[b.head + i] /\ b.head + i \in 1 .. Len(b.queue)
      BY <2>1, QueuedParts
    <3>2. Queued(c)[i] = c.queue[b.head + i]
      BY <1>1, <1>2, <2>1, QueuedParts, ZenonT(30)
    <3> QED
      BY <1>3, <3>1, <3>2
  <2>3. SumOfSizes(Queued(b)) = SumOfSizes(Queued(c))
    BY <2>1, <2>2, SumSame
  <2> QED
    BY <1>5, <2>3 DEF SizeOK
<1>6. ASSUME LimitOK(b)
      PROVE  LimitOK(c)
  <2>1. OverLimit(c) <=> OverLimit(b)
    BY <1>1 DEF OverLimit
  <2>2. \A i \in b.head + 1 .. Len(b.queue) : i \in 1 .. Len(b.queue)
    BY <1>1, StructParts
  <2> SUFFICES ASSUME NEW i \in b.head + 1 .. Len(b.queue), isCoalescibleEvent(c.queue[i].event)
               PROVE  /\ c.queuedBytes <= MaxBytes + 1
                      /\ Len(c.queue) - c.head <= MaxEvents + 1
                      /\ OverLimit(c) => c.queue[Len(c.queue)].event.state = "final"
    BY <1>1 DEF LimitOK
  <2>3. isCoalescibleEvent(b.queue[i].event)
    BY <1>3, <2>2
  <2>4. c.queue[Len(b.queue)].event = b.queue[Len(b.queue)].event
    <3>1. Len(b.queue) \in 1 .. Len(b.queue)
      BY <2>2, StructParts
    <3> QED
      BY <1>3, <3>1
  <2> QED
    BY <1>1, <1>6, <2>1, <2>3, <2>4 DEF LimitOK
<1>7. ASSUME PendingOK(b), c.pending = b.pending
      PROVE  PendingOK(c)
  <2> SUFFICES ASSUME NEW k \in Keys, b.pending[k] # 0
               PROVE  /\ b.pending[k] \in b.head + 1 .. Len(b.queue)
                      /\ c.queue[b.pending[k]].event.key = k
                      /\ \A j \in b.pending[k] .. Len(b.queue) :
                           isDeferrableQueuedEvent(c.queue[j].event)
                      /\ \A j \in b.pending[k] + 1 .. Len(b.queue) : c.queue[j].event.key # k
    BY <1>1, <1>7 DEF PendingOK
  <2>1. /\ b.pending[k] \in b.head + 1 .. Len(b.queue)
        /\ b.queue[b.pending[k]].event.key = k
        /\ \A j \in b.pending[k] .. Len(b.queue) : isDeferrableQueuedEvent(b.queue[j].event)
        /\ \A j \in b.pending[k] + 1 .. Len(b.queue) : b.queue[j].event.key # k
    BY <1>7 DEF PendingOK
  <2>2. \A j \in b.pending[k] .. Len(b.queue) : j \in 1 .. Len(b.queue)
    BY <1>1, <2>1, StructParts
  <2>3. \A j \in b.pending[k] + 1 .. Len(b.queue) : j \in 1 .. Len(b.queue)
    BY <1>1, <2>1, StructParts
  <2>4. b.pending[k] \in 1 .. Len(b.queue)
    BY <1>1, <2>1, StructParts
  <2> QED
    BY <1>3, <2>1, <2>2, <2>3, <2>4
<1> QED
  BY <1>2, <1>4, <1>5, <1>6, <1>7

\* A new entry at the end.
LEMMA EnqueueStruct ==
  ASSUME NEW b, BrokerOK(b), NEW e \in Queueable, NEW n \in 1 .. MaxPublish,
         NEW readyAt \in 0 .. MaxPublish, NEW d \in Seq(Item)
  PROVE  LET c == Enqueue(b, e, n, readyAt)
         IN  /\ BrokerOK(c) /\ Len(c.queue) = Len(b.queue) + 1 /\ c.head = b.head
             /\ \A i \in 1 .. Len(b.queue) : c.queue[i] = b.queue[i]
             /\ c.queue[Len(b.queue) + 1].event = e
             /\ c.pending = b.pending /\ c.degraded = b.degraded /\ c.closed = b.closed
             /\ c.queuedBytes = b.queuedBytes + 1
             /\ TrailOf(c, d) = Append(TrailOf(b, d), [event |-> e, parts |-> <<n>>])
             /\ SizeOK(b) => SizeOK(c)
<1> DEFINE x == newQueuedEvent(e, n, readyAt)
           c == Enqueue(b, e, n, readyAt)
<1>1. /\ b.queue \in Seq(QueueEntry) /\ Len(b.queue) \in Nat /\ b.head \in Nat
      /\ b.head <= Len(b.queue) /\ b.queuedBytes \in Int /\ b \in Struct
  BY StructParts DEF BrokerOK
<1>2. x \in QueueEntry /\ x.event = e /\ x.parts = <<n>> /\ x.size = 1
  <2>1. <<n>> \in Seq(1 .. MaxPublish)
    OBVIOUS
  <2> QED
    BY <2>1 DEF QueueEntry, newQueuedEvent
<1> HIDE DEF x
<1>3. /\ c.queue = Append(b.queue, x) /\ c.head = b.head /\ c.pending = b.pending
      /\ c.degraded = b.degraded /\ c.closed = b.closed /\ c.queuedBytes = b.queuedBytes + 1
      /\ c = [b EXCEPT !.queue = Append(b.queue, x), !.queuedBytes = b.queuedBytes + 1]
  BY DEF Enqueue, Struct, BrokerOK, x
<1>4. Append(b.queue, x) \in Seq(QueueEntry)
  BY <1>1, <1>2
<1>5. c \in Struct
  <2>1. b.queuedBytes + 1 \in Int
    BY <1>1
  <2> HIDE DEF c
  <2> QED
    BY <1>1, <1>3, <1>4, <2>1 DEF Struct
<1> HIDE DEF c
<1>6. /\ Len(c.queue) = Len(b.queue) + 1 /\ c.queue[Len(b.queue) + 1] = x
      /\ \A i \in 1 .. Len(b.queue) : c.queue[i] = b.queue[i]
  <2> DEFINE q == b.queue
  <2>1. q \in Seq(QueueEntry) /\ c.queue = Append(q, x)
    BY <1>1, <1>3
  <2> HIDE DEF q
  <2>2. /\ Len(Append(q, x)) = Len(q) + 1 /\ Append(q, x)[Len(q) + 1] = x
        /\ \A i \in 1 .. Len(q) : Append(q, x)[i] = q[i]
    BY <1>2, <2>1
  <2> QED
    BY <2>1, <2>2 DEF q
<1>7. BrokerOK(c)
  BY <1>1, <1>3, <1>5, <1>6 DEF BrokerOK
<1> DEFINE lq == Len(b.queue)
           h == b.head
<1>10. /\ lq \in Nat /\ h \in Nat /\ h <= lq /\ Len(c.queue) = lq + 1 /\ c.head = h
       /\ c.queue[lq + 1] = x /\ \A i \in 1 .. lq : c.queue[i] = b.queue[i]
  BY <1>1, <1>3, <1>6
<1>8. TrailOf(c, d) = Append(TrailOf(b, d), [event |-> e, parts |-> <<n>>])
  <2> DEFINE T == TrailOf(b, d)
             U == TrailOf(c, d)
             y == [event |-> e, parts |-> <<n>>]
             l == Len(d)
             M == l + (lq - h)
  <2>1. /\ T \in Seq(Item) /\ Len(T) = M /\ l \in Nat
        /\ \A i \in 1 .. l : T[i] = d[i]
        /\ \A j \in l + 1 .. Len(T) :
             /\ h + (j - l) \in h + 1 .. lq
             /\ T[j] = ItemAt(b.queue, h + (j - l))
    BY TrailParts
  <2>2. /\ U \in Seq(Item) /\ Len(U) = l + (Len(c.queue) - c.head)
        /\ \A i \in 1 .. l : U[i] = d[i]
        /\ \A j \in l + 1 .. Len(U) : U[j] = ItemAt(c.queue, c.head + (j - l))
    BY <1>7, TrailParts
  <2>4. \A i \in 1 .. lq : ItemAt(c.queue, i) = ItemAt(b.queue, i)
    BY <1>10 DEF ItemAt
  <2>5. ItemAt(c.queue, lq + 1) = y
    BY <1>2, <1>10 DEF ItemAt
  <2>6. y \in Item
    <3>1. <<n>> \in Seq(1 .. MaxPublish)
      OBVIOUS
    <3> QED
      BY <3>1 DEF Item
  <2> HIDE DEF T, U, y, l, lq, h
  <2>3. /\ Len(U) = l + (lq + 1 - h)
        /\ \A j \in l + 1 .. Len(U) : U[j] = ItemAt(c.queue, h + (j - l))
    BY <1>10, <2>2
  <2>7. M \in Nat /\ Len(U) = M + 1 /\ l <= M
    BY <1>10, <2>1, <2>3
  <2>8. ASSUME NEW j \in 1 .. M
        PROVE  U[j] = T[j]
    <3>1. CASE j \in 1 .. l
      BY <2>1, <2>2, <3>1
    <3>2. CASE j \in l + 1 .. M
      <4>1. j \in l + 1 .. Len(T) /\ j \in l + 1 .. Len(U) /\ h + (j - l) \in 1 .. lq
        BY <1>10, <2>1, <2>7, <3>2
      <4>2. T[j] = ItemAt(b.queue, h + (j - l)) /\ U[j] = ItemAt(c.queue, h + (j - l))
        BY <2>1, <2>3, <4>1
      <4> QED
        BY <2>4, <4>1, <4>2
    <3> QED
      BY <2>1, <2>7, <3>1, <3>2
  <2>9. U[M + 1] = y
    <3>1. M + 1 \in l + 1 .. Len(U) /\ h + ((M + 1) - l) = lq + 1
      BY <1>10, <2>1, <2>7
    <3>2. U[M + 1] = ItemAt(c.queue, h + ((M + 1) - l))
      BY <2>3, <3>1
    <3> QED
      BY <2>5, <3>1, <3>2
  <2> HIDE DEF M
  <2>10. U = Append(T, y)
    BY <2>1, <2>2, <2>6, <2>7, <2>8, <2>9, SMTT(30)
  <2> QED
    BY <2>10 DEF U, T, y
<1>9. ASSUME SizeOK(b)
      PROVE  SizeOK(c)
  <2> DEFINE q == Queued(b)
             r == Queued(c)
             m == lq - h
  <2>1. /\ q \in Seq(QueueEntry) /\ Len(q) = m
        /\ \A i \in 1 .. m : q[i] = b.queue[h + i] /\ h + i \in 1 .. lq
    BY QueuedParts
  <2>2. /\ r \in Seq(QueueEntry) /\ Len(r) = Len(c.queue) - c.head
        /\ \A i \in 1 .. Len(c.queue) - c.head : r[i] = c.queue[c.head + i]
    BY <1>7, QueuedParts
  <2>3. b.queuedBytes = SumOfSizes(q)
    BY <1>9 DEF SizeOK
  <2> HIDE DEF q, r, lq, h
  <2>4. Len(r) = lq + 1 - h /\ \A i \in 1 .. lq + 1 - h : r[i] = c.queue[h + i]
    BY <1>10, <2>2
  <2>5. m \in Nat /\ lq + 1 - h = m + 1 /\ h + (m + 1) = lq + 1
    BY <1>10
  <2> HIDE DEF m
  <2>6. r[m + 1] = x
    BY <1>10, <2>4, <2>5, SMTT(30)
  <2>7. \A i \in 1 .. m : r[i] = q[i]
    <3> SUFFICES ASSUME NEW i \in 1 .. m
                 PROVE  r[i] = q[i]
      OBVIOUS
    <3>1. i \in 1 .. lq + 1 - h
      BY <2>5
    <3> QED
      BY <1>10, <2>1, <2>4, <3>1, ZenonT(30)
  <2>8. r = Append(q, x)
    BY <1>2, <2>1, <2>2, <2>4, <2>5, <2>6, <2>7
  <2>9. SumOfSizes(r) = SumOfSizes(q) + 1
    BY <1>2, <2>1, <2>8, SumAppend
  <2> QED
    BY <1>3, <2>3, <2>9 DEF SizeOK, r
<1> QED
  BY <1>2, <1>3, <1>6, <1>7, <1>8, <1>9 DEF c

\* The same under one name.
Enqueued(b, c, e, n, d) ==
  /\ BrokerOK(c) /\ Len(c.queue) = Len(b.queue) + 1 /\ c.head = b.head
  /\ \A i \in 1 .. Len(b.queue) : c.queue[i] = b.queue[i]
  /\ c.queue[Len(b.queue) + 1].event = e
  /\ c.pending = b.pending /\ c.degraded = b.degraded /\ c.closed = b.closed
  /\ c.queuedBytes = b.queuedBytes + 1
  /\ TrailOf(c, d) = Append(TrailOf(b, d), [event |-> e, parts |-> <<n>>])
  /\ SizeOK(b) => SizeOK(c)

LEMMA EnqueueShaped ==
  ASSUME NEW b, BrokerOK(b), NEW e \in Queueable, NEW n \in 1 .. MaxPublish,
         NEW readyAt \in 0 .. MaxPublish, NEW d \in Seq(Item)
  PROVE  Enqueued(b, Enqueue(b, e, n, readyAt), e, n, d)
BY EnqueueStruct, Zenon DEF Enqueued

-----------------------------------------------------------------------------
(* What a publication does before the limits are checked. *)

\* The requests on the trail stay where they are.
Grown(T, U) ==
  /\ Len(T) <= Len(U)
  /\ \A i \in DOMAIN T : T[i].event.kind = "resync" => U[i].event = T[i].event

\* Publication of e after lg turned struct b into c.
Accepted(b, c, e, lg, d, dr) ==
  /\ BrokerOK(c) /\ PendingOK(c) /\ SizeOK(c)
  /\ c.degraded = b.degraded
  /\ TrailInv(TrailOf(c, d), Append(lg, e), dr)
  /\ Grown(TrailOf(b, d), TrailOf(c, d))

\* What a publication may rely on.
Before1(b, lg, d, dr) ==
  /\ BrokerOK(b) /\ PendingOK(b) /\ SizeOK(b) /\ d \in Seq(Item)
  /\ lg \in Seq(PublishedEvent) /\ Len(lg) < MaxPublish
  /\ TrailInv(TrailOf(b, d), lg, dr)

LEMMA GrownByAppend ==
  ASSUME NEW T \in Seq(Item), NEW x \in Item
  PROVE  Grown(T, Append(T, x))
BY DEF Grown

\* The next publication has a number.
LEMMA NextNumber ==
  ASSUME NEW lg \in Seq(PublishedEvent), Len(lg) < MaxPublish
  PROVE  /\ MaxPublish \in Nat /\ Len(lg) + 1 \in 1 .. MaxPublish
         /\ Len(lg) + 1 \in 0 .. MaxPublish /\ 0 \in 0 .. MaxPublish
BY BrokerAssumption

LEMMA NewItem ==
  ASSUME NEW e \in Queueable, NEW n \in 1 .. MaxPublish
  PROVE  [event |-> e, parts |-> <<n>>] \in Item
<1>1. <<n>> \in Seq(1 .. MaxPublish)
  OBVIOUS
<1> QED
  BY <1>1 DEF Item

\* A new entry that later events may join.
LEMMA DeferredAccepted ==
  ASSUME NEW b, NEW lg, NEW d, NEW dr, Before1(b, lg, d, dr),
         NEW e \in PublishedEvent, isDeferrableQueuedEvent(e)
  PROVE  Accepted(b, EnqueueDeferred(b, e, Len(lg) + 1), e, lg, d, dr)
<1> DEFINE n == Len(lg) + 1
           a == Enqueue(b, e, n, n)
           c == EnqueueDeferred(b, e, n)
           lq == Len(b.queue)
<1>1. /\ BrokerOK(b) /\ PendingOK(b) /\ SizeOK(b) /\ d \in Seq(Item)
      /\ lg \in Seq(PublishedEvent) /\ Len(lg) < MaxPublish
      /\ TrailInv(TrailOf(b, d), lg, dr)
  BY DEF Before1
<1>2. n \in 1 .. MaxPublish /\ n \in 0 .. MaxPublish /\ e \in Queueable /\ MaxPublish \in Nat
  BY <1>1, NextNumber, EventSorts
<1> HIDE DEF n
<1>3. /\ BrokerOK(a) /\ Len(a.queue) = lq + 1 /\ a.head = b.head
      /\ \A i \in 1 .. lq : a.queue[i] = b.queue[i]
      /\ a.queue[lq + 1].event = e /\ a.pending = b.pending /\ a.degraded = b.degraded
      /\ TrailOf(a, d) = Append(TrailOf(b, d), [event |-> e, parts |-> <<n>>])
      /\ SizeOK(a)
  <2>1. Enqueued(b, a, e, n, d)
    BY <1>1, <1>2, EnqueueShaped
  <2> QED
    BY <1>1, <2>1, Zenon DEF Enqueued
<1>4. e.key \in Keys
  BY <1>2, EventFacts
<1>5. /\ lq \in Nat /\ b.head \in Nat /\ b.head <= lq /\ b.pending \in [Keys -> Nat]
  BY <1>1, StructParts
<1>6. c = [a EXCEPT !.pending = [b.pending EXCEPT ![e.key] = lq + 1]]
  BY <1>3 DEF EnqueueDeferred
<1> HIDE DEF a, c
<1>7. a \in Struct
  BY <1>3 DEF BrokerOK
<1>8. [b.pending EXCEPT ![e.key] = lq + 1] \in [Keys -> Nat]
  <2>1. lq + 1 \in Nat
    BY <1>5
  <2> HIDE DEF lq
  <2> QED
    BY <1>5, <2>1
<1>9. /\ c \in Struct /\ c.queue = a.queue /\ c.head = a.head /\ c.queuedBytes = a.queuedBytes
      /\ c.degraded = a.degraded /\ c.pending = [b.pending EXCEPT ![e.key] = lq + 1]
  BY <1>6, <1>7, <1>8 DEF Struct
<1>10. BrokerOK(c)
  BY <1>3, <1>9 DEF BrokerOK
<1>11. TrailOf(c, d) = TrailOf(a, d) /\ Queued(c) = Queued(a)
  BY <1>9 DEF TrailOf, Queued
<1>12. SizeOK(c)
  BY <1>3, <1>9, <1>11 DEF SizeOK
<1>13. PendingOK(c)
  <2> SUFFICES ASSUME NEW k \in Keys, c.pending[k] # 0
               PROVE  /\ c.pending[k] \in c.head + 1 .. Len(c.queue)
                      /\ c.queue[c.pending[k]].event.key = k
                      /\ \A j \in c.pending[k] .. Len(c.queue) :
                           isDeferrableQueuedEvent(c.queue[j].event)
                      /\ \A j \in c.pending[k] + 1 .. Len(c.queue) : c.queue[j].event.key # k
    BY DEF PendingOK
  <2>1. CASE k = e.key
    <3>1. c.pending[k] = lq + 1
      BY <1>5, <1>9, <2>1
    <3>2. \A j \in lq + 1 .. lq + 1 : j = lq + 1
      BY <1>5
    <3>3. \A j \in (lq + 1) + 1 .. lq + 1 : FALSE
      BY <1>5
    <3>4. lq + 1 \in b.head + 1 .. lq + 1
      BY <1>5
    <3> HIDE DEF lq
    <3> QED
      BY <1>3, <1>9, <2>1, <3>1, <3>2, <3>3, <3>4
  <2>2. CASE k # e.key
    <3> DEFINE p == b.pending[k]
    <3>1. c.pending[k] = p /\ p # 0
      BY <1>5, <1>9, <2>2
    <3>2. /\ p \in b.head + 1 .. lq /\ b.queue[p].event.key = k
          /\ \A j \in p .. lq : isDeferrableQueuedEvent(b.queue[j].event)
          /\ \A j \in p + 1 .. lq : b.queue[j].event.key # k
      BY <1>1, <3>1 DEF PendingOK
    <3> HIDE DEF p, lq
    <3>3. \A j \in p .. lq + 1 : j = lq + 1 \/ (j \in p .. lq /\ j \in 1 .. lq)
      BY <1>5, <3>2
    <3>4. \A j \in p + 1 .. lq + 1 : j = lq + 1 \/ (j \in p + 1 .. lq /\ j \in 1 .. lq)
      BY <1>5, <3>2
    <3>5. p \in b.head + 1 .. lq + 1 /\ p \in 1 .. lq
      BY <1>5, <3>2
    <3>6. \A j \in p .. lq + 1 : isDeferrableQueuedEvent(c.queue[j].event)
      BY <1>3, <1>9, <3>2, <3>3
    <3>7. \A j \in p + 1 .. lq + 1 : c.queue[j].event.key # k
      BY <1>3, <1>9, <2>2, <3>2, <3>4
    <3> QED
      BY <1>3, <1>9, <3>1, <3>2, <3>5, <3>6, <3>7
  <2> QED
    BY <2>1, <2>2
<1>14. TrailOf(b, d) \in Seq(Item) /\ [event |-> e, parts |-> <<n>>] \in Item
  BY <1>1, <1>2, TrailParts, NewItem
<1>15. TrailInv(TrailOf(c, d), Append(lg, e), dr)
  BY <1>1, <1>2, <1>3, <1>11, <1>14, TrailAppend DEF n
<1>16. Grown(TrailOf(b, d), TrailOf(c, d))
  BY <1>3, <1>11, <1>14, GrownByAppend
<1> QED
  BY <1>3, <1>9, <1>10, <1>12, <1>13, <1>15, <1>16 DEF Accepted, c, n

\* The publication joins the entry that pending names, which is of its event.
LEMMA JoinAccepted ==
  ASSUME NEW b, NEW lg, NEW d, NEW dr, Before1(b, lg, d, dr),
         NEW e \in PublishedEvent, isDeferrableQueuedEvent(e),
         NEW i \in Nat \ {0}, b.pending[e.key] = i, b.queue[i].event = e, NEW x \in QueueEntry, x.event = e,
         Joined(b.queue[i].parts, x.parts, e, Len(lg) + 1)
  PROVE  Accepted(b, [b EXCEPT !.queue = [b.queue EXCEPT ![i] = x],
                               !.queuedBytes = b.queuedBytes - b.queue[i].size + x.size],
                  e, lg, d, dr)
<1> DEFINE lq == Len(b.queue)
           h == b.head
           l == Len(d)
           bytes == b.queuedBytes - b.queue[i].size + x.size
           q2 == [b.queue EXCEPT ![i] = x]
           c == [b EXCEPT !.queue = q2, !.queuedBytes = bytes]
           T == TrailOf(b, d)
           U == TrailOf(c, d)
<1>1. /\ BrokerOK(b) /\ PendingOK(b) /\ SizeOK(b) /\ d \in Seq(Item)
      /\ lg \in Seq(PublishedEvent) /\ Len(lg) < MaxPublish
      /\ TrailInv(T, lg, dr)
  BY DEF Before1
<1>2. /\ b \in Struct /\ b.queue \in Seq(QueueEntry) /\ lq \in Nat /\ h \in Nat /\ h <= lq
      /\ b.queuedBytes \in Int /\ DOMAIN b.queue = 1 .. lq
  BY <1>1, StructParts DEF BrokerOK
<1>3. e \in Queueable /\ e.key \in Keys
  BY EventSorts, EventFacts
<1>4. /\ i \in h + 1 .. lq
      /\ \A j \in i .. lq : isDeferrableQueuedEvent(b.queue[j].event)
      /\ \A j \in i + 1 .. lq : b.queue[j].event.key # e.key
  BY <1>1, <1>3 DEF PendingOK
<1>5. i \in 1 .. lq /\ b.queue[i] \in QueueEntry /\ b.queue[i].size \in Nat /\ x.size \in Nat
  <2>1. i \in 1 .. lq
    BY <1>2, <1>4
  <2> QED
    BY <1>1, <2>1, StructParts DEF QueueEntry
<1>6. /\ q2 \in Seq(QueueEntry) /\ Len(q2) = lq /\ DOMAIN q2 = 1 .. lq /\ q2[i] = x
      /\ \A j \in 1 .. lq : j # i => q2[j] = b.queue[j]
  BY <1>2, <1>5
<1>7. bytes \in Int
  BY <1>2, <1>5
<1> HIDE DEF q2, bytes
<1>8. /\ c \in Struct /\ c.queue = q2 /\ c.head = h /\ c.queuedBytes = bytes
      /\ c.pending = b.pending /\ c.degraded = b.degraded
  BY <1>2, <1>6, <1>7 DEF Struct
<1>9. BrokerOK(c)
  BY <1>2, <1>6, <1>8 DEF BrokerOK
<1> HIDE DEF c
<1>10. PendingOK(c)
  <2>1. \A j \in 1 .. lq : q2[j].event = b.queue[j].event
    BY <1>6
  <2>2. ASSUME NEW k \in Keys, b.pending[k] # 0
        PROVE  /\ b.pending[k] \in h + 1 .. lq /\ q2[b.pending[k]].event.key = k
               /\ \A j \in b.pending[k] .. lq : isDeferrableQueuedEvent(q2[j].event)
               /\ \A j \in b.pending[k] + 1 .. lq : q2[j].event.key # k
    <3> DEFINE p == b.pending[k]
    <3>1. /\ p \in h + 1 .. lq /\ b.queue[p].event.key = k
          /\ \A j \in p .. lq : isDeferrableQueuedEvent(b.queue[j].event)
          /\ \A j \in p + 1 .. lq : b.queue[j].event.key # k
      BY <1>1, <2>2 DEF PendingOK
    <3> HIDE DEF p, lq, h
    <3>2. p \in 1 .. lq /\ (\A j \in p .. lq : j \in 1 .. lq) /\ (\A j \in p + 1 .. lq : j \in 1 .. lq)
      BY <1>2, <3>1
    <3>3. \A j \in p .. lq : isDeferrableQueuedEvent(q2[j].event)
      BY <2>1, <3>1, <3>2
    <3>4. q2[p].event.key = k /\ \A j \in p + 1 .. lq : q2[j].event.key # k
      BY <2>1, <3>1, <3>2
    <3> QED
      BY <3>1, <3>3, <3>4 DEF p
  <2> QED
    BY <1>6, <1>8, <2>2 DEF PendingOK
<1>11. SizeOK(c)
  <2> DEFINE s == Queued(b)
             t == Queued(c)
             m == lq - h
  <2>1. /\ s \in Seq(QueueEntry) /\ Len(s) = m
        /\ \A j \in 1 .. m : s[j] = b.queue[h + j] /\ h + j \in 1 .. lq
    BY <1>1, QueuedParts
  <2>2. /\ t \in Seq(QueueEntry) /\ Len(t) = m /\ \A j \in 1 .. m : t[j] = q2[h + j]
    <3>1. /\ t \in Seq(QueueEntry) /\ Len(t) = Len(c.queue) - c.head
          /\ \A j \in 1 .. Len(c.queue) - c.head : t[j] = c.queue[c.head + j]
      BY <1>9, QueuedParts
    <3>2. Len(c.queue) = lq /\ c.head = h
      BY <1>6, <1>8
    <3> QED
      BY <1>8, <3>1, <3>2
  <2>3. b.queuedBytes = SumOfSizes(s)
    BY <1>1 DEF SizeOK
  <2> HIDE DEF s, t, lq, h
  <2>4. m \in Nat /\ i - h \in 1 .. m /\ h + (i - h) = i
    BY <1>2, <1>4
  <2> HIDE DEF m
  <2>5. DOMAIN s = 1 .. m
    BY <2>1
  <2>6. s[i - h] = b.queue[i] /\ t[i - h] = x
    BY <1>6, <2>1, <2>2, <2>4
  <2>7. \A j \in DOMAIN s : j # i - h => s[j].size = t[j].size
    <3> SUFFICES ASSUME NEW j \in 1 .. m, j # i - h
                 PROVE  s[j] = t[j]
      BY <2>5
    <3>1. h + j # i
      BY <1>2, <1>5, <2>4
    <3> QED
      BY <1>6, <2>1, <2>2, <3>1
  <2>8. SumOfSizes(t) = SumOfSizes(s) - s[i - h].size + t[i - h].size
    <3> DEFINE k == i - h
    <3>1. k \in DOMAIN s /\ Len(s) = Len(t) /\ \A j \in DOMAIN s : j # k => s[j].size = t[j].size
      BY <2>1, <2>2, <2>4, <2>5, <2>7
    <3> HIDE DEF k
    <3>2. SumOfSizes(t) = SumOfSizes(s) - s[k].size + t[k].size
      BY <2>1, <2>2, <3>1, SumReplace
    <3> QED
      BY <3>2 DEF k
  <2>9. c.queuedBytes = SumOfSizes(t)
    BY <1>8, <2>3, <2>6, <2>8 DEF bytes
  <2> QED
    BY <2>9 DEF SizeOK, t
<1> DEFINE z == l + (i - h)
<1>12. /\ T \in Seq(Item) /\ Len(T) = l + (lq - h) /\ l \in Nat
       /\ \A j \in 1 .. l : T[j] = d[j]
       /\ \A j \in l + 1 .. Len(T) :
            h + (j - l) \in h + 1 .. lq /\ T[j] = ItemAt(b.queue, h + (j - l))
  <2>1. TrailShape(b, d)
    BY <1>1, TrailShaped
  <2> QED
    BY <2>1, Zenon DEF TrailShape
<1>13. /\ U \in Seq(Item) /\ Len(U) = l + (lq - h)
       /\ \A j \in 1 .. l : U[j] = d[j]
       /\ \A j \in l + 1 .. Len(U) : U[j] = ItemAt(q2, h + (j - l))
  <2>1. TrailShape(c, d)
    BY <1>1, <1>9, TrailShaped
  <2>2. /\ U \in Seq(Item) /\ Len(U) = l + (Len(c.queue) - c.head)
        /\ \A j \in 1 .. l : U[j] = d[j]
        /\ \A j \in l + 1 .. Len(U) : U[j] = ItemAt(c.queue, c.head + (j - l))
    BY <2>1, Zenon DEF TrailShape
  <2>3. Len(c.queue) = lq /\ c.head = h /\ c.queue = q2
    BY <1>6, <1>8
  <2> HIDE DEF U
  <2> QED
    BY <2>2, <2>3
<1>14. ItemAt(b.queue, i) = [event |-> e, parts |-> b.queue[i].parts]
       /\ ItemAt(q2, i) = [event |-> e, parts |-> x.parts]
  BY <1>6 DEF ItemAt
<1>15. \A j \in 1 .. lq : /\ j # i => ItemAt(q2, j) = ItemAt(b.queue, j)
                          /\ ItemAt(b.queue, j).event = b.queue[j].event
  BY <1>6 DEF ItemAt
<1> HIDE DEF T, U, lq, h, l
<1>16. /\ z \in l + 1 .. Len(T) /\ h + (z - l) = i /\ z \in 1 .. Len(T) /\ Len(T) \in Nat
       /\ DOMAIN T = 1 .. Len(T) /\ Len(U) = Len(T) /\ DOMAIN U = 1 .. Len(T)
  <2>1. /\ z \in Nat /\ l + (lq - h) \in Nat /\ z <= l + (lq - h) /\ l + 1 <= z /\ 1 <= z
        /\ h + (z - l) = i
    <3>1. i \in Nat /\ h + 1 <= i /\ i <= lq
      BY <1>2, <1>4
    <3> QED
      BY <1>2, <1>12, <3>1
  <2> HIDE DEF z
  <2>2. Len(T) \in Nat /\ DOMAIN T = 1 .. Len(T) /\ Len(U) = Len(T) /\ DOMAIN U = 1 .. Len(T)
    BY <1>12, <1>13
  <2> QED
    BY <1>12, <2>1, <2>2
<1>17. T[z] = ItemAt(b.queue, i) /\ U[z] = ItemAt(q2, i)
  BY <1>12, <1>13, <1>16
<1>18. T[z].event = e /\ T[z].parts = b.queue[i].parts
  BY <1>14, <1>17
<1>19. \A j \in z .. Len(T) : /\ j \in l + 1 .. Len(T) /\ h + (j - l) \in i .. lq
                              /\ h + (j - l) \in 1 .. lq /\ j \in 1 .. Len(T)
                              /\ j # z => h + (j - l) \in i + 1 .. lq
  <2> SUFFICES ASSUME NEW j \in z .. Len(T)
               PROVE  /\ j \in l + 1 .. Len(T) /\ h + (j - l) \in i .. lq
                      /\ h + (j - l) \in 1 .. lq /\ j \in 1 .. Len(T)
                      /\ j # z => h + (j - l) \in i + 1 .. lq
    OBVIOUS
  <2>1. /\ z \in Nat /\ l + 1 <= z /\ 1 <= z /\ h + (z - l) = i /\ i \in Nat /\ 1 <= i
        /\ Len(T) = l + (lq - h) /\ Len(T) \in Nat
    <3>1. i \in Nat /\ h + 1 <= i /\ i <= lq
      BY <1>2, <1>4
    <3>2. l + 1 <= z /\ h + (z - l) = i /\ Len(T) \in Nat /\ z \in Nat
      BY <1>2, <1>12, <1>16
    <3> HIDE DEF z
    <3> QED
      BY <1>2, <1>12, <3>1, <3>2
  <2> HIDE DEF z
  <2>2. j \in Nat /\ z <= j /\ j <= Len(T)
    BY <2>1
  <2>3. l \in Nat /\ lq \in Nat /\ h \in Nat
    BY <1>2, <1>12
  <2>4. h + (j - l) \in Int /\ i <= h + (j - l) /\ h + (j - l) <= lq
        /\ (j # z => i + 1 <= h + (j - l))
    BY <2>1, <2>2, <2>3
  <2> QED
    BY <2>1, <2>2, <2>3, <2>4
<1> HIDE DEF z
<1>20. \A j \in z .. Len(T) : T[j].event = b.queue[h + (j - l)].event
  BY <1>12, <1>15, <1>19
<1>21. \A j \in z .. Len(T) : isDeferrableQueuedEvent(T[j].event)
  BY <1>4, <1>19, <1>20
<1>22. \A j \in z + 1 .. Len(T) : T[j].event.key # e.key
  <2> SUFFICES ASSUME NEW j \in z + 1 .. Len(T)
               PROVE  T[j].event.key # e.key
    OBVIOUS
  <2>1. j \in z .. Len(T) /\ j # z
    BY <1>16
  <2> QED
    BY <1>4, <1>19, <1>20, <2>1
<1>23. ASSUME NEW j \in 1 .. Len(T), j # z
       PROVE  U[j] = T[j]
  <2>1. CASE j \in 1 .. l
    BY <1>12, <1>13, <2>1
  <2>2. CASE j \in l + 1 .. Len(T)
    <3>1. h + (j - l) \in h + 1 .. lq /\ h + (j - l) # i
      BY <1>2, <1>12, <1>16, <1>23, <2>2, SMTT(30)
    <3>2. h + (j - l) \in 1 .. lq
      BY <1>2, <3>1
    <3> QED
      BY <1>12, <1>13, <1>15, <1>16, <2>2, <3>1, <3>2
  <2> QED
    BY <1>12, <1>16, <2>1, <2>2
<1>24. U = [T EXCEPT ![z] = [event |-> e, parts |-> x.parts]]
  <2> DEFINE y == [event |-> e, parts |-> x.parts]
             V == [T EXCEPT ![z] = y]
  <2>1. U[z] = y
    BY <1>14, <1>17
  <2> HIDE DEF y
  <2>2. DOMAIN V = DOMAIN U /\ \A j \in DOMAIN U : V[j] = U[j]
    BY <1>12, <1>16, <1>23, <2>1
  <2> QED
    BY <1>12, <1>13, <1>16, <1>23, <2>1 DEF y
<1>25. TrailInv(U, Append(lg, e), dr)
  <2>1. z \in DOMAIN T /\ Joined(T[z].parts, x.parts, e, Len(lg) + 1)
    BY <1>16, <1>18
  <2> QED
    BY <1>1, <1>12, <1>18, <1>21, <1>22, <1>24, <2>1, TrailJoin
<1>26. Grown(T, U)
  <2>1. e.kind # "resync"
    BY EventSorts
  <2> QED
    BY <1>16, <1>18, <1>23, <2>1 DEF Grown
<1> QED
  BY <1>8, <1>9, <1>10, <1>11, <1>25, <1>26 DEF Accepted, c, T, U, q2, bytes

\* Deltas of one stream coalesce.
LEMMA CoalescibleAccepted ==
  ASSUME NEW b, NEW lg, NEW d, NEW dr, Before1(b, lg, d, dr), NEW s \in Streams
  PROVE  Accepted(b, appendCoalescible(b, Delta(s), Len(lg) + 1), Delta(s), lg, d, dr)
<1> DEFINE e == Delta(s)
           n == Len(lg) + 1
           i == b.pending[e.key]
           x == mergeCoalescibleEvent(b.queue[i], n)
<1>1. e \in PublishedEvent /\ e.key = s /\ e.kind = "delta" /\ s \in Keys
  BY DEF PublishedEvent, Delta, Keys
<1>2. isDeferrableQueuedEvent(e) /\ e \in Queueable
  BY <1>1, EventSorts DEF isDeferrableQueuedEvent, isCoalescibleEvent
<1>3. /\ BrokerOK(b) /\ PendingOK(b) /\ lg \in Seq(PublishedEvent) /\ Len(lg) < MaxPublish
      /\ b.pending \in [Keys -> Nat] /\ Len(b.queue) \in Nat /\ b.head \in Nat
      /\ b.queue \in Seq(QueueEntry) /\ b.queuedBytes \in Int /\ b \in Struct
  BY StructParts DEF Before1, BrokerOK
<1>4. i \in Nat
  BY <1>1, <1>3
<1> HIDE DEF e
<1>5. CASE HasPending(b, e.key)
  <2>1. i \in Nat \ {0} /\ i \in 1 .. Len(b.queue)
    BY <1>3, <1>4, <1>5 DEF HasPending
  <2>2. b.queue[i].event.key = s /\ b.queue[i] \in QueueEntry /\ b.queue[i].event \in Queueable
        /\ b.queue[i].parts \in Seq(1 .. MaxPublish) /\ b.queue[i].size \in Nat
    BY <1>1, <1>3, <2>1, StructParts DEF PendingOK
  <2>3. b.queue[i].event = e
    <3>1. s \notin Agents
      BY BrokerAssumption, SMTT(30)
    <3> QED
      BY <1>1, <2>2, <3>1, EventFacts DEF e
  <2>4. /\ x \in QueueEntry /\ x.event = e /\ x.size = b.queue[i].size + 1
        /\ x.parts = Append(b.queue[i].parts, n)
    <3> DEFINE y == b.queue[i]
    <3>1. y \in QueueEntry /\ y.parts \in Seq(1 .. MaxPublish) /\ y.size \in Nat
      BY <2>2
    <3>2. n \in 1 .. MaxPublish /\ MaxPublish \in Nat
      BY <1>3, NextNumber
    <3> HIDE DEF n, y
    <3>3. Append(y.parts, n) \in Seq(1 .. MaxPublish) /\ y.size + 1 \in Nat
      BY <3>1, <3>2
    <3>4. x = [y EXCEPT !.parts = Append(y.parts, n), !.size = y.size + 1]
      BY DEF mergeCoalescibleEvent, y
    <3>5. /\ x \in QueueEntry /\ x.event = y.event /\ x.size = y.size + 1
          /\ x.parts = Append(y.parts, n)
      BY <3>1, <3>3, <3>4 DEF QueueEntry
    <3> QED
      BY <2>3, <3>5 DEF y
  <2>5. Joined(b.queue[i].parts, x.parts, e, n)
    BY <1>1, <2>4 DEF Joined
  <2>6. appendCoalescible(b, e, n)
          = [b EXCEPT !.queue = [b.queue EXCEPT ![i] = x],
                      !.queuedBytes = b.queuedBytes - b.queue[i].size + x.size]
    <3>1. \A u \in Int, v, w \in Nat : u + v - w = u - w + v
      OBVIOUS
    <3> HIDE DEF x, i
    <3>2. x.size \in Nat
      BY <2>2, <2>4
    <3>3. b.queuedBytes + x.size - b.queue[i].size = b.queuedBytes - b.queue[i].size + x.size
      BY <1>3, <2>2, <3>1, <3>2
    <3>4. appendCoalescible(b, e, n)
            = [b EXCEPT !.queue[i] = x, !.queuedBytes = @ + x.size - b.queue[i].size]
      BY <1>5 DEF appendCoalescible, x, i
    <3> QED
      BY <1>3, <3>3, <3>4 DEF Struct
  <2>7. b.pending[e.key] = i
    BY SMTT(30)
  <2> HIDE DEF x, i
  <2>8. Accepted(b, [b EXCEPT !.queue = [b.queue EXCEPT ![i] = x],
                              !.queuedBytes = b.queuedBytes - b.queue[i].size + x.size],
                 e, lg, d, dr)
    BY <1>1, <1>2, <2>1, <2>3, <2>4, <2>5, <2>7, JoinAccepted
  <2> QED
    BY <2>6, <2>8 DEF e
<1>6. CASE ~HasPending(b, e.key)
  <2>1. appendCoalescible(b, e, n) = EnqueueDeferred(b, e, n)
    BY <1>6 DEF appendCoalescible
  <2> QED
    BY <1>1, <1>2, <2>1, DeferredAccepted DEF e
<1> QED
  BY <1>5, <1>6

\* Live snapshots of one agent and state replace each other.
LEMMA ReplaceableAccepted ==
  ASSUME NEW b, NEW lg, NEW d, NEW dr, Before1(b, lg, d, dr), NEW a \in Agents,
         NEW state \in LiveStates \cup {"completed"}, isReplaceableEvent(AgentState(a, state))
  PROVE  Accepted(b, appendReplaceable(b, AgentState(a, state), Len(lg) + 1),
                  AgentState(a, state), lg, d, dr)
<1> DEFINE e == AgentState(a, state)
           n == Len(lg) + 1
           i == b.pending[e.key]
           x == newQueuedEvent(e, n, b.queue[i].readyAt)
<1>1. /\ e \in PublishedEvent /\ e.key = a /\ e.kind = "agent" /\ e.state = state
      /\ a \in Keys
  BY DEF PublishedEvent, AgentState, Keys
<1>2. isDeferrableQueuedEvent(e) /\ e \in Queueable /\ isReplaceableEvent(e)
  BY <1>1, EventSorts DEF isDeferrableQueuedEvent
<1>3. /\ BrokerOK(b) /\ PendingOK(b) /\ lg \in Seq(PublishedEvent) /\ Len(lg) < MaxPublish
      /\ b.pending \in [Keys -> Nat] /\ Len(b.queue) \in Nat /\ b.head \in Nat
      /\ b.queue \in Seq(QueueEntry) /\ b.queuedBytes \in Int /\ b \in Struct
  BY StructParts DEF Before1, BrokerOK
<1>4. i \in Nat
  BY <1>1, <1>3
<1> HIDE DEF e
<1>5. CASE HasPending(b, e.key) /\ b.queue[i].event.state = e.state
  <2>1. i \in Nat \ {0} /\ i \in 1 .. Len(b.queue)
    BY <1>3, <1>4, <1>5 DEF HasPending
  <2>2. b.queue[i].event.key = a /\ b.queue[i] \in QueueEntry /\ b.queue[i].event \in Queueable
        /\ b.queue[i].readyAt \in 0 .. MaxPublish /\ b.queue[i].size \in Nat
    BY <1>1, <1>3, <2>1, StructParts DEF PendingOK
  <2>3. b.queue[i].event = e
    <3>1. a \notin Streams
      BY BrokerAssumption
    <3>2. b.queue[i].event = AgentState(a, b.queue[i].event.state)
      BY <1>1, <2>2, <3>1, EventFacts, SMTT(30)
    <3> QED
      BY <1>1, <1>5, <3>2 DEF e
  <2>4. x \in QueueEntry /\ x.event = e /\ x.size = 1 /\ x.parts = <<n>>
    <3>1. n \in 1 .. MaxPublish /\ MaxPublish \in Nat
      BY <1>3, NextNumber
    <3> HIDE DEF n
    <3>2. <<n>> \in Seq(1 .. MaxPublish)
      <4> HIDE DEF x, i
      <4> QED
        BY <3>1
    <3> QED
      BY <1>2, <2>2, <3>2 DEF newQueuedEvent, QueueEntry
  <2>5. Joined(b.queue[i].parts, x.parts, e, n)
    <3> HIDE DEF x, i, n
    <3> QED
      BY <1>2, <2>4, SMTT(30) DEF Joined
  <2>6. appendReplaceable(b, e, n)
          = [b EXCEPT !.queue = [b.queue EXCEPT ![i] = x],
                      !.queuedBytes = b.queuedBytes - b.queue[i].size + x.size]
    <3>1. appendReplaceable(b, e, n)
            = [b EXCEPT !.queue[i] = newQueuedEvent(e, n, @.readyAt),
                        !.queuedBytes = @ - b.queue[i].size + 1]
      BY <1>5 DEF appendReplaceable
    <3> QED
      BY <1>3, <2>4, <3>1 DEF Struct
  <2>7. b.pending[e.key] = i
    OBVIOUS
  <2> HIDE DEF x, i
  <2>8. Accepted(b, [b EXCEPT !.queue = [b.queue EXCEPT ![i] = x],
                              !.queuedBytes = b.queuedBytes - b.queue[i].size + x.size],
                 e, lg, d, dr)
    BY <1>1, <1>2, <2>1, <2>3, <2>4, <2>5, <2>7, JoinAccepted
  <2> QED
    BY <2>6, <2>8 DEF e
<1>6. CASE ~(HasPending(b, e.key) /\ b.queue[i].event.state = e.state)
  <2>1. appendReplaceable(b, e, n) = EnqueueDeferred(b, e, n)
    BY <1>6 DEF appendReplaceable
  <2> QED
    BY <1>1, <1>2, <2>1, DeferredAccepted DEF e
<1> QED
  BY <1>5, <1>6

\* A lifecycle event is a barrier.
LEMMA LifecycleAccepted ==
  ASSUME NEW b, NEW lg, NEW d, NEW dr, Before1(b, lg, d, dr), NEW e \in PublishedEvent
  PROVE  /\ Accepted(b, appendLifecycle(b, e, Len(lg) + 1), e, lg, d, dr)
         /\ appendLifecycle(b, e, Len(lg) + 1).pending = NoPending
<1> DEFINE n == Len(lg) + 1
           q == b.queue
           due == [i \in DOMAIN q |-> IF i \in AfterBarrier(b) THEN [q[i] EXCEPT !.readyAt = 0]
                                      ELSE q[i]]
           a == [b EXCEPT !.queue = due, !.pending = NoPending]
           c == Enqueue(a, e, n, 0)
<1>1. /\ BrokerOK(b) /\ SizeOK(b) /\ d \in Seq(Item)
      /\ lg \in Seq(PublishedEvent) /\ Len(lg) < MaxPublish
      /\ TrailInv(TrailOf(b, d), lg, dr) /\ b \in Struct
  BY DEF Before1, BrokerOK
<1>2. n \in 1 .. MaxPublish /\ 0 \in 0 .. MaxPublish /\ e \in Queueable /\ MaxPublish \in Nat
  BY <1>1, NextNumber, EventSorts
<1> HIDE DEF n
<1>3. q \in Seq(QueueEntry) /\ Len(q) \in Nat /\ DOMAIN q = 1 .. Len(q)
      /\ \A i \in 1 .. Len(q) : q[i] \in QueueEntry
  BY <1>1, StructParts
<1>4. Retimed(q, due)
  <2>1. \A x \in QueueEntry :
          LET y == [x EXCEPT !.readyAt = 0]
          IN  /\ y \in QueueEntry /\ y.event = x.event /\ y.parts = x.parts
              /\ y.size = x.size
    BY <1>2 DEF QueueEntry
  <2> HIDE DEF q
  <2>2. \A i \in 1 .. Len(q) :
          /\ due[i] \in QueueEntry /\ due[i].event = q[i].event
          /\ due[i].parts = q[i].parts /\ due[i].size = q[i].size
    BY <1>3, <2>1
  <2>3. due \in [1 .. Len(q) -> QueueEntry]
    BY <1>3, <2>2
  <2> HIDE DEF due
  <2>4. due \in Seq(QueueEntry) /\ Len(due) = Len(q)
    BY <1>3, <2>3
  <2> QED
    BY <2>2, <2>4 DEF Retimed
<1>5. due \in Seq(QueueEntry)
  BY <1>4 DEF Retimed
<1> HIDE DEF due
<1>6. NoPending \in [Keys -> Nat] /\ \A k \in Keys : NoPending[k] = 0
  BY DEF NoPending
<1>7. /\ a \in Struct /\ a.queue = due /\ a.head = b.head /\ a.queuedBytes = b.queuedBytes
      /\ a.pending = NoPending /\ a.degraded = b.degraded
  BY <1>1, <1>5, <1>6 DEF Struct
<1> HIDE DEF a
<1>8. BrokerOK(a) /\ TrailOf(a, d) = TrailOf(b, d) /\ SizeOK(a)
  BY <1>1, <1>4, <1>7, RetimedStruct
<1>9. /\ BrokerOK(c) /\ c.pending = NoPending /\ c.degraded = b.degraded /\ SizeOK(c)
      /\ TrailOf(c, d) = Append(TrailOf(b, d), [event |-> e, parts |-> <<n>>])
  BY <1>1, <1>2, <1>7, <1>8, EnqueueStruct
<1>10. appendLifecycle(b, e, n) = c
  BY DEF appendLifecycle, c, a, due, q
<1> HIDE DEF c
<1>11. PendingOK(c)
  BY <1>6, <1>9 DEF PendingOK
<1>12. TrailOf(b, d) \in Seq(Item) /\ [event |-> e, parts |-> <<n>>] \in Item
  BY <1>1, <1>2, TrailParts, NewItem
<1>13. TrailInv(TrailOf(c, d), Append(lg, e), dr)
  BY <1>1, <1>2, <1>9, <1>12, TrailAppend DEF n
<1>14. Grown(TrailOf(b, d), TrailOf(c, d))
  BY <1>9, <1>12, GrownByAppend
<1> QED
  BY <1>9, <1>10, <1>11, <1>13, <1>14 DEF Accepted, n

-----------------------------------------------------------------------------
(* The limits. *)

\* The k-th number of a set.
Nth(S, k) == CHOOSE i \in S : Cardinality(S \cap 1 .. i) = k

\* The numbers of a set in their order.
LEMMA NthNumber ==
  ASSUME NEW len \in Nat, NEW S \in SUBSET (1 .. len)
  PROVE  /\ Cardinality(S) \in Nat
         /\ \A k \in 1 .. Cardinality(S) : Nth(S, k) \in S
         /\ \A j, k \in 1 .. Cardinality(S) : j < k => Nth(S, j) < Nth(S, k)
         /\ \A i \in S : \E k \in 1 .. Cardinality(S) : Nth(S, k) = i
<1> DEFINE size == Cardinality(S)
           rank == [i \in S |-> Cardinality(S \cap 1 .. i)]
<1>1. IsFiniteSet(1 .. len)
  BY FS_Interval
<1>2. IsFiniteSet(S) /\ size \in Nat
  BY <1>1, FS_Subset, FS_CardinalityType
<1>3. \A i \in S : /\ IsFiniteSet(S \cap 1 .. i) /\ rank[i] = Cardinality(S \cap 1 .. i)
                   /\ Cardinality(S \cap 1 .. i) <= size
                   /\ Cardinality(S \cap 1 .. i) \in Nat
                   /\ Cardinality(S \cap 1 .. i) # 0
  <2> SUFFICES ASSUME NEW i \in S
               PROVE  /\ IsFiniteSet(S \cap 1 .. i) /\ rank[i] = Cardinality(S \cap 1 .. i)
                      /\ Cardinality(S \cap 1 .. i) <= size
                      /\ Cardinality(S \cap 1 .. i) \in Nat
                      /\ Cardinality(S \cap 1 .. i) # 0
    OBVIOUS
  <2>1. S \cap 1 .. i \in SUBSET S
    OBVIOUS
  <2>2. IsFiniteSet(S \cap 1 .. i) /\ Cardinality(S \cap 1 .. i) <= size
        /\ Cardinality(S \cap 1 .. i) \in Nat
    BY <1>2, <2>1, FS_Subset, FS_CardinalityType
  <2>3. i \in S \cap 1 .. i
    OBVIOUS
  <2>4. Cardinality(S \cap 1 .. i) # 0
    BY <2>2, <2>3, FS_EmptySet
  <2> QED
    BY <2>2, <2>4
<1> HIDE DEF size, rank
<1>4. ASSUME NEW i \in S, NEW j \in S, i < j
      PROVE  rank[i] < rank[j]
  <2> DEFINE low == S \cap 1 .. i
             high == S \cap 1 .. j
  <2>1. low \in SUBSET high /\ j \in high /\ j \notin low
    BY <1>4
  <2>2. /\ IsFiniteSet(high) /\ rank[i] = Cardinality(low) /\ rank[j] = Cardinality(high)
        /\ Cardinality(low) \in Nat /\ Cardinality(high) \in Nat
    BY <1>3
  <2> HIDE DEF low, high
  <2>3. Cardinality(low) <= Cardinality(high)
    BY <2>1, <2>2, FS_Subset
  <2>4. Cardinality(low) # Cardinality(high)
    BY <2>1, <2>2, FS_Subset
  <2> QED
    BY <2>2, <2>3, <2>4
<1>5. rank \in [S -> 1 .. size]
  <2>1. ASSUME NEW i \in S
        PROVE  rank[i] \in 1 .. size
    <3> DEFINE c == Cardinality(S \cap 1 .. i)
    <3>1. rank[i] = c /\ c <= size /\ c \in Nat /\ c # 0
      BY <1>3
    <3> HIDE DEF c
    <3> QED
      BY <1>2, <3>1
  <2> QED
    BY <2>1 DEF rank
<1>6. \A i, j \in S : rank[i] = rank[j] => i = j
  <2> SUFFICES ASSUME NEW i \in S, NEW j \in S, rank[i] = rank[j], i # j
               PROVE  FALSE
    OBVIOUS
  <2>1. i < j \/ j < i
    OBVIOUS
  <2>2. rank[i] \in 1 .. size /\ rank[j] \in 1 .. size
    BY <1>5
  <2> QED
    BY <1>2, <1>4, <2>1, <2>2
<1>7. \A k \in 1 .. size : \E i \in S : rank[i] = k
  <2> SUFFICES ASSUME NEW k \in 1 .. size, \A i \in S : rank[i] # k
               PROVE  FALSE
    OBVIOUS
  <2> DEFINE rest == (1 .. size) \ {k}
  <2>1. IsFiniteSet(1 .. size) /\ Cardinality(1 .. size) = size
    BY <1>2, FS_Interval
  <2>2. IsFiniteSet(rest) /\ Cardinality(rest) = size - 1
    BY <2>1, FS_RemoveElement
  <2>3. rank \in [S -> rest]
    BY <1>5
  <2>4. Cardinality(rest) < Cardinality(S)
    BY <1>2, <2>2 DEF size
  <2> HIDE DEF rest
  <2>5. \E i, j \in S : i # j /\ rank[i] = rank[j]
    BY <1>2, <2>2, <2>3, <2>4, FS_PigeonHole
  <2> QED
    BY <1>6, <2>5
<1>8. \A k \in 1 .. size : Nth(S, k) \in S /\ rank[Nth(S, k)] = k
  <2> SUFFICES ASSUME NEW k \in 1 .. size
               PROVE  Nth(S, k) \in S /\ rank[Nth(S, k)] = k
    OBVIOUS
  <2>1. \E i \in S : Cardinality(S \cap 1 .. i) = k
    BY <1>3, <1>7
  <2>2. Nth(S, k) \in S /\ Cardinality(S \cap 1 .. Nth(S, k)) = k
    BY <2>1 DEF Nth
  <2> QED
    BY <1>3, <2>2
<1>9. ASSUME NEW j \in 1 .. size, NEW k \in 1 .. size, j < k
      PROVE  Nth(S, j) < Nth(S, k)
  <2> DEFINE x == Nth(S, j)
             y == Nth(S, k)
  <2>1. x \in S /\ y \in S /\ rank[x] = j /\ rank[y] = k
    BY <1>8
  <2> HIDE DEF x, y
  <2>2. x \in Nat /\ y \in Nat
    BY <2>1
  <2>3. ~(y < x)
    <3>1. y < x => rank[y] < rank[x]
      BY <1>4, <2>1
    <3> QED
      BY <1>9, <2>1, <3>1
  <2>4. x # y
    BY <1>9, <2>1
  <2>5. x < y
    BY <2>2, <2>3, <2>4
  <2> QED
    BY <2>5 DEF x, y
<1>10. \A i \in S : \E k \in 1 .. size : Nth(S, k) = i
  BY <1>5, <1>6, <1>8
<1> QED
  BY <1>2, <1>8, <1>9, <1>10 DEF size

\* The entries that stay.
Stay(b) == (b.head + 1 .. Len(b.queue)) \ Discarded(b)

\* What compaction discards, and whom it tells.
LEMMA DiscardedParts ==
  ASSUME NEW b, BrokerOK(b), OverLimit(b)
  PROVE  /\ Stay(b) \in SUBSET (1 .. Len(b.queue))
         /\ \A i \in Stay(b) :
              i \in b.head + 1 .. Len(b.queue) /\ ~isCoalescibleEvent(b.queue[i].event)
         /\ \A i \in Discarded(b) :
              i \in b.head + 1 .. Len(b.queue) /\ isCoalescibleEvent(b.queue[i].event)
         /\ Stay(b) \cap Discarded(b) = {}
         /\ Stay(b) \cup Discarded(b) = b.head + 1 .. Len(b.queue)
         /\ Affected(b) \subseteq RunKeys
         /\ IsFiniteSet(Affected(b))
<1>1. /\ Len(b.queue) \in Nat /\ b.head \in Nat
      /\ \A i \in 1 .. Len(b.queue) : b.queue[i].event \in Queueable
  BY StructParts
<1>2. Discarded(b) = {i \in b.head + 1 .. Len(b.queue) : isCoalescibleEvent(b.queue[i].event)}
  BY DEF Discarded
<1>3. Discarded(b) \in SUBSET (1 .. Len(b.queue))
  BY <1>1, <1>2
<1>4. Stay(b) \in SUBSET (1 .. Len(b.queue))
  BY <1>1 DEF Stay
<1>5. \A i \in Discarded(b) : b.queue[i].event.run \in RunKeys
  BY <1>1, <1>2, <1>3, EventFacts
<1>6. Affected(b) \subseteq RunKeys
  BY <1>5 DEF Affected, DiscardedRuns
<1>7. IsFiniteSet(Affected(b))
  <2> DEFINE D == Discarded(b)
             R == {b.queue[i].event.run : i \in D}
             f == [i \in D |-> b.queue[i].event.run]
  <2>1. IsFiniteSet(D)
    <3>1. IsFiniteSet(1 .. Len(b.queue))
      BY <1>1, FS_Interval, SMTT(30)
    <3> QED
      BY <1>3, <3>1, FS_Subset
  <2>2. f \in Surjection(D, R)
    BY DEF Surjection
  <2>3. IsFiniteSet(R)
    <3> HIDE DEF D, R, f
    <3> QED
      BY <2>1, <2>2, FS_Surjection
  <2>4. Affected(b) \in SUBSET R
    BY DEF Affected, DiscardedRuns
  <2> HIDE DEF R
  <2> QED
    BY <2>3, <2>4, FS_Subset
<1> QED
  BY <1>1, <1>2, <1>4, <1>6, <1>7 DEF Stay

\* An order of a finite set names every member.
LEMMA OrderParts ==
  ASSUME NEW S, IsFiniteSet(S), NEW order \in SetToSeqs(S)
  PROVE  /\ order \in Seq(S)
         /\ \A r \in S : \E k \in 1 .. Len(order) : order[k] = r
<1> DEFINE D == 1 .. Cardinality(S)
<1>1. Cardinality(S) \in Nat
  BY FS_CardinalityType
<1>2. order \in [D -> S] /\ \A i, j \in D : i # j => order[i] # order[j]
  BY DEF SetToSeqs
<1>3. order \in Seq(S) /\ Len(order) = Cardinality(S)
  BY <1>1, <1>2
<1>4. order \in Injection(D, S)
  BY <1>2 DEF Injection, IsInjective
<1>5. IsFiniteSet(D) /\ Cardinality(D) = Cardinality(S)
  BY <1>1, FS_Interval
<1> HIDE DEF D
<1>6. order \in Surjection(D, S)
  BY <1>4, <1>5, FS_Injection
<1>7. \A r \in S : \E k \in D : order[k] = r
  BY <1>6 DEF Surjection
<1> QED
  BY <1>3, <1>7 DEF D

\* The struct after compaction: what stays, in its order, and then a request for
\* every affected run.
LEMMA CompactStruct ==
  ASSUME NEW b, BrokerOK(b), OverLimit(b), NEW n \in 1 .. MaxPublish, MaxPublish \in Nat,
         NEW order \in SetToSeqs(Affected(b))
  PROVE  LET c == compactOverLimit(b, order, n)
             N == Cardinality(Stay(b))
         IN  /\ BrokerOK(c) /\ c.head = 0 /\ c.pending = NoPending /\ SizeOK(c)
             /\ N \in Nat /\ Len(order) \in Nat /\ Len(c.queue) = N + Len(order)
             /\ \A k \in 1 .. N : c.queue[k] = b.queue[Nth(Stay(b), k)]
             /\ \A k \in 1 .. Len(order) :
                  order[k] \in RunKeys /\ c.queue[N + k].event = Resync(order[k], "degraded")
             /\ \A r \in RunKeys : c.degraded[r] <=> b.degraded[r] \/ r \in DiscardedRuns(b)
<1> DEFINE c == compactOverLimit(b, order, n)
           stay == Stay(b)
           N == Cardinality(stay)
           rest == [k \in 1 .. N |-> b.queue[Nth(stay, k)]]
           req == [i \in DOMAIN order |-> newQueuedEvent(Resync(order[i], "degraded"), n, 0)]
           q == rest \o req
           bytes == SumOfSizes(rest) + Len(req)
           deg == [r \in RunKeys |-> b.degraded[r] \/ r \in DiscardedRuns(b)]
<1>1. /\ Len(b.queue) \in Nat /\ b \in Struct
      /\ \A i \in 1 .. Len(b.queue) : b.queue[i] \in QueueEntry
      /\ b.degraded \in [RunKeys -> BOOLEAN]
  BY StructParts DEF BrokerOK
<1>2. /\ stay \in SUBSET (1 .. Len(b.queue))
      /\ Affected(b) \subseteq RunKeys /\ IsFiniteSet(Affected(b))
  BY DiscardedParts
<1> HIDE DEF stay
<1>3. N \in Nat /\ \A k \in 1 .. N : Nth(stay, k) \in stay
  BY <1>1, <1>2, NthNumber
<1> HIDE DEF N
<1>4. rest \in Seq(QueueEntry) /\ Len(rest) = N
  <2>1. rest \in [1 .. N -> QueueEntry]
    BY <1>1, <1>2, <1>3
  <2> HIDE DEF rest
  <2> QED
    BY <1>3, <2>1
<1>5. order \in Seq(RunKeys) /\ Len(order) \in Nat /\ DOMAIN order = 1 .. Len(order)
      /\ \A k \in 1 .. Len(order) : order[k] \in RunKeys
  <2>1. order \in Seq(Affected(b))
    BY <1>2, OrderParts
  <2> QED
    BY <1>2, <2>1
<1>6. \A k \in 1 .. Len(order) :
        /\ req[k] \in QueueEntry /\ req[k].size = 1
        /\ req[k].event = Resync(order[k], "degraded")
  <2> SUFFICES ASSUME NEW k \in 1 .. Len(order)
               PROVE  /\ req[k] \in QueueEntry /\ req[k].size = 1
                      /\ req[k].event = Resync(order[k], "degraded")
    OBVIOUS
  <2>1. req[k] = newQueuedEvent(Resync(order[k], "degraded"), n, 0)
    BY <1>5
  <2>2. Resync(order[k], "degraded") \in Queueable
    BY <1>5, EventSorts
  <2>3. <<n>> \in Seq(1 .. MaxPublish) /\ 0 \in 0 .. MaxPublish
    OBVIOUS
  <2> HIDE DEF req
  <2> QED
    BY <2>1, <2>2, <2>3 DEF newQueuedEvent, QueueEntry
<1>7. req \in Seq(QueueEntry) /\ Len(req) = Len(order)
  <2>1. req \in [1 .. Len(order) -> QueueEntry]
    BY <1>5, <1>6
  <2> HIDE DEF req
  <2> QED
    BY <1>5, <2>1
<1> HIDE DEF rest, req
<1>8. /\ q \in Seq(QueueEntry) /\ Len(q) = N + Len(order)
      /\ \A k \in 1 .. N : q[k] = rest[k]
      /\ \A k \in 1 .. Len(order) : q[N + k] = req[k]
  BY <1>3, <1>4, <1>5, <1>7, SMTT(30)
<1>9. SumOfSizes(q) = bytes
  BY <1>4, <1>6, <1>7, SumConcat
<1>10. bytes \in Int
  <2>1. SumOfSizes(rest) \in Nat
    BY <1>4, FragmentsFinite
  <2> QED
    BY <1>5, <1>7, <2>1
<1>11. Remaining(b) = rest
  BY DEF Remaining, rest, N, stay, Stay, Nth
<1>12. c = [b EXCEPT !.queue = q, !.head = 0, !.queuedBytes = bytes,
                     !.pending = NoPending, !.degraded = deg]
  BY <1>1, <1>11 DEF compactOverLimit, req, Struct
<1>13. deg \in [RunKeys -> BOOLEAN] /\ NoPending \in [Keys -> Nat]
  BY <1>1 DEF NoPending
<1> HIDE DEF c, q, bytes, deg
<1>14. /\ c \in Struct /\ c.queue = q /\ c.head = 0 /\ c.queuedBytes = bytes
       /\ c.pending = NoPending /\ c.degraded = deg
  BY <1>1, <1>8, <1>10, <1>12, <1>13 DEF Struct
<1>15. BrokerOK(c)
  BY <1>3, <1>5, <1>8, <1>14 DEF BrokerOK
<1>16. SizeOK(c)
  <2>1. Queued(c) = q
    <3>1. /\ Queued(c) \in Seq(QueueEntry) /\ Len(Queued(c)) = Len(q)
          /\ \A i \in 1 .. Len(q) : Queued(c)[i] = q[0 + i]
      BY <1>3, <1>5, <1>8, <1>14, <1>15, QueuedParts, SMTT(30)
    <3>2. \A i \in 1 .. Len(q) : Queued(c)[i] = q[i]
      BY <1>8, <3>1
    <3> QED
      BY <1>8, <3>1, <3>2
  <2> QED
    BY <1>9, <1>14, <2>1 DEF SizeOK
<1>17. \A k \in 1 .. N : rest[k] = b.queue[Nth(stay, k)]
  BY DEF rest
<1>18. /\ \A k \in 1 .. N : c.queue[k] = b.queue[Nth(stay, k)]
       /\ \A k \in 1 .. Len(order) :
            order[k] \in RunKeys /\ c.queue[N + k].event = Resync(order[k], "degraded")
  BY <1>5, <1>6, <1>8, <1>14, <1>17
<1>19. \A r \in RunKeys : c.degraded[r] <=> b.degraded[r] \/ r \in DiscardedRuns(b)
  BY <1>1, <1>14 DEF deg
<1> QED
  BY <1>3, <1>5, <1>8, <1>14, <1>15, <1>16, <1>18, <1>19 DEF c, N, stay

\* The trail after compaction.
LEMMA CompactPlaces ==
  ASSUME NEW b, BrokerOK(b), OverLimit(b), NEW n \in 1 .. MaxPublish, MaxPublish \in Nat,
         NEW order \in SetToSeqs(Affected(b)), NEW d \in Seq(Item)
  PROVE  LET T == TrailOf(b, d)
             U == TrailOf(compactOverLimit(b, order, n), d)
             N == Cardinality(Stay(b))
         IN  /\ U \in Seq(Item) /\ Len(U) = Len(d) + N + Len(order)
             /\ \A i \in 1 .. Len(d) : U[i] = T[i]
             /\ \A k \in 1 .. N : U[Len(d) + k] = T[Len(d) + (Nth(Stay(b), k) - b.head)]
             /\ \A k \in 1 .. Len(order) :
                  U[Len(d) + N + k].event = Resync(order[k], "degraded")
<1> DEFINE T == TrailOf(b, d)
           c == compactOverLimit(b, order, n)
           U == TrailOf(c, d)
           stay == Stay(b)
           N == Cardinality(stay)
           l == Len(d)
           m == Len(order)
<1>1. /\ BrokerOK(c) /\ c.head = 0 /\ N \in Nat /\ m \in Nat /\ Len(c.queue) = N + m
      /\ \A k \in 1 .. N : c.queue[k] = b.queue[Nth(stay, k)]
      /\ \A k \in 1 .. m :
           order[k] \in RunKeys /\ c.queue[N + k].event = Resync(order[k], "degraded")
  <2>1. BrokerOK(c) /\ c.head = 0 /\ N \in Nat /\ m \in Nat /\ Len(c.queue) = N + m
    BY CompactStruct
  <2>2. \A k \in 1 .. N : c.queue[k] = b.queue[Nth(stay, k)]
    BY CompactStruct
  <2>3. \A k \in 1 .. m :
           order[k] \in RunKeys /\ c.queue[N + k].event = Resync(order[k], "degraded")
    BY CompactStruct
  <2> QED
    BY <2>1, <2>2, <2>3
<1>2. /\ Len(b.queue) \in Nat /\ b.head \in Nat /\ stay \in SUBSET (1 .. Len(b.queue))
      /\ \A i \in stay : i \in b.head + 1 .. Len(b.queue)
  BY StructParts, DiscardedParts
<1> HIDE DEF c, stay
<1>3. \A k \in 1 .. N : Nth(stay, k) \in b.head + 1 .. Len(b.queue)
  BY <1>2, NthNumber
<1> HIDE DEF N, m
<1>4. /\ \A i \in 1 .. l : T[i] = d[i]
      /\ \A i \in b.head + 1 .. Len(b.queue) : T[l + (i - b.head)] = ItemAt(b.queue, i)
  BY TrailParts
<1>5. /\ U \in Seq(Item) /\ Len(U) = l + (Len(c.queue) - c.head) /\ l \in Nat
      /\ \A i \in 1 .. l : U[i] = d[i]
      /\ \A i \in c.head + 1 .. Len(c.queue) : U[l + (i - c.head)] = ItemAt(c.queue, i)
  BY <1>1, TrailParts, ZenonT(30)
<1> HIDE DEF T, U, l
<1>6. Len(U) = l + N + m
  BY <1>1, <1>5
<1>7. \A i \in 1 .. N + m : U[l + i] = ItemAt(c.queue, i)
  <2> SUFFICES ASSUME NEW i \in 1 .. N + m
               PROVE  U[l + i] = ItemAt(c.queue, i)
    OBVIOUS
  <2>1. i \in c.head + 1 .. Len(c.queue) /\ i - c.head = i
    BY <1>1
  <2> QED
    BY <1>5, <2>1
<1>8. ASSUME NEW k \in 1 .. N
      PROVE  U[l + k] = T[l + (Nth(stay, k) - b.head)]
  <2>1. k \in 1 .. N + m
    BY <1>1
  <2>2. U[l + k] = ItemAt(c.queue, k)
    BY <1>7, <2>1
  <2>3. T[l + (Nth(stay, k) - b.head)] = ItemAt(b.queue, Nth(stay, k))
    BY <1>3, <1>4
  <2>4. c.queue[k] = b.queue[Nth(stay, k)]
    BY <1>1
  <2> QED
    BY <2>2, <2>3, <2>4 DEF ItemAt
<1>9. ASSUME NEW k \in 1 .. m
      PROVE  U[l + N + k].event = Resync(order[k], "degraded")
  <2>1. N + k \in 1 .. N + m /\ l + (N + k) = l + N + k
    BY <1>1, <1>5
  <2>2. U[l + (N + k)] = ItemAt(c.queue, N + k)
    BY <1>7, <2>1
  <2>3. c.queue[N + k].event = Resync(order[k], "degraded")
    BY <1>1
  <2> QED
    BY <2>1, <2>2, <2>3 DEF ItemAt
<1>10. \A i \in 1 .. l : U[i] = T[i]
  BY <1>4, <1>5
<1> QED
  BY <1>5, <1>6, <1>8, <1>9, <1>10 DEF T, U, c, N, stay, l, m

\* The drops that compacting b records.
Losses(b, n, received) ==
  UNION {{[id |-> b.queue[i].parts[j], by |-> n, received |-> received] :
            j \in DOMAIN b.queue[i].parts} : i \in Discarded(b)}

LEMMA LossesParts ==
  ASSUME NEW b, BrokerOK(b), NEW n \in 1 .. MaxPublish, NEW received \in Nat
  PROVE  /\ Losses(b, n, received) \subseteq Drop
         /\ \A x \in Losses(b, n, received) :
              /\ x.by = n /\ x.received = received
              /\ \E i \in Discarded(b) : \E j \in DOMAIN b.queue[i].parts :
                   x.id = b.queue[i].parts[j]
         /\ \A i \in Discarded(b) : \A j \in DOMAIN b.queue[i].parts :
              \E x \in Losses(b, n, received) : x.id = b.queue[i].parts[j]
         /\ ~OverLimit(b) => Losses(b, n, received) = {}
<1>1. \A i \in Discarded(b) : i \in 1 .. Len(b.queue)
  <2>1. Len(b.queue) \in Nat /\ b.head \in Nat
    BY StructParts
  <2> QED
    BY <2>1 DEF Discarded
<1>2. \A i \in Discarded(b) : \A j \in DOMAIN b.queue[i].parts :
        b.queue[i].parts[j] \in 1 .. MaxPublish
  <2> SUFFICES ASSUME NEW i \in Discarded(b), NEW j \in DOMAIN b.queue[i].parts
               PROVE  b.queue[i].parts[j] \in 1 .. MaxPublish
    OBVIOUS
  <2> DEFINE s == b.queue[i].parts
  <2>1. s \in Seq(1 .. MaxPublish) /\ j \in DOMAIN s
    BY <1>1, StructParts
  <2> HIDE DEF s
  <2>2. s[j] \in 1 .. MaxPublish
    BY <2>1, BrokerAssumption
  <2> QED
    BY <2>2 DEF s
<1> DEFINE rec(i, j) == [id |-> b.queue[i].parts[j], by |-> n, received |-> received]
<1>3. \A i \in Discarded(b) : \A j \in DOMAIN b.queue[i].parts :
        /\ rec(i, j) \in Drop /\ rec(i, j).id = b.queue[i].parts[j]
        /\ rec(i, j).by = n /\ rec(i, j).received = received
  BY <1>2 DEF Drop
<1>4. \A x : x \in Losses(b, n, received) <=>
        \E i \in Discarded(b) : \E j \in DOMAIN b.queue[i].parts : x = rec(i, j)
  BY DEF Losses
<1>5. ~OverLimit(b) => Discarded(b) = {}
  BY DEF Discarded
<1> HIDE DEF rec
<1>6. Losses(b, n, received) \subseteq Drop
  BY <1>3, <1>4
<1>7. ASSUME NEW x \in Losses(b, n, received)
      PROVE  /\ x.by = n /\ x.received = received
             /\ \E i \in Discarded(b) : \E j \in DOMAIN b.queue[i].parts :
                  x.id = b.queue[i].parts[j]
  BY <1>3, <1>4
<1>8. ASSUME NEW i \in Discarded(b), NEW j \in DOMAIN b.queue[i].parts
      PROVE  \E x \in Losses(b, n, received) : x.id = b.queue[i].parts[j]
  BY <1>3, <1>4
<1>9. ~OverLimit(b) => Losses(b, n, received) = {}
  BY <1>4, <1>5
<1> QED
  BY <1>6, <1>7, <1>8, <1>9

\* Compaction takes nothing but deltas off the trail, and records them.
LEMMA CompactTrail ==
  ASSUME NEW b, BrokerOK(b), OverLimit(b), NEW n \in 1 .. MaxPublish, MaxPublish \in Nat,
         NEW order \in SetToSeqs(Affected(b)), NEW d \in Seq(Item),
         NEW lg \in Seq(PublishedEvent), NEW dr, TrailInv(TrailOf(b, d), lg, dr)
  PROVE  TrailInv(TrailOf(compactOverLimit(b, order, n), d), lg,
                  dr \cup Losses(b, n, Len(d)))
<1> DEFINE T == TrailOf(b, d)
           U == TrailOf(compactOverLimit(b, order, n), d)
           stay == Stay(b)
           N == Cardinality(stay)
           l == Len(d)
           m == Len(order)
           lost == Losses(b, n, l)
           h == b.head
           lq == Len(b.queue)
<1>1. /\ U \in Seq(Item) /\ Len(U) = l + N + m
      /\ \A i \in 1 .. l : U[i] = T[i]
      /\ \A k \in 1 .. N : U[l + k] = T[l + (Nth(stay, k) - h)]
      /\ \A k \in 1 .. m : U[l + N + k].event = Resync(order[k], "degraded")
  BY CompactPlaces
<1>2. N \in Nat /\ m \in Nat /\ \A k \in 1 .. m : order[k] \in RunKeys
  BY CompactStruct
<1>3. /\ lq \in Nat /\ h \in Nat /\ h <= lq
      /\ stay \in SUBSET (1 .. lq)
      /\ \A i \in stay : i \in h + 1 .. lq
      /\ \A i \in Discarded(b) : i \in h + 1 .. lq /\ isCoalescibleEvent(b.queue[i].event)
      /\ stay \cap Discarded(b) = {}
      /\ stay \cup Discarded(b) = h + 1 .. lq
  BY StructParts, DiscardedParts
<1>4. /\ T \in Seq(Item) /\ Len(T) = l + (lq - h) /\ l \in Nat /\ DOMAIN T = 1 .. l + (lq - h)
      /\ \A i \in h + 1 .. lq : T[l + (i - h)] = ItemAt(b.queue, i)
  BY TrailParts
<1>5. /\ lost \subseteq Drop
      /\ \A x \in lost : \E i \in Discarded(b) : \E j \in DOMAIN b.queue[i].parts :
           x.id = b.queue[i].parts[j]
      /\ \A i \in Discarded(b) : \A j \in DOMAIN b.queue[i].parts :
           \E x \in lost : x.id = b.queue[i].parts[j]
  BY <1>4, LossesParts
<1> HIDE DEF stay, h, lq, l, T, U, m, lost
<1>6. /\ \A k \in 1 .. N : Nth(stay, k) \in stay
      /\ \A j, k \in 1 .. N : j < k => Nth(stay, j) < Nth(stay, k)
      /\ \A i \in stay : \E k \in 1 .. N : Nth(stay, k) = i
  BY <1>3, NthNumber
<1> HIDE DEF N
<1> DEFINE at == [k \in 1 .. N |-> Nth(stay, k) - h]
           f == [i \in 1 .. l + N |-> IF i <= l THEN i ELSE l + at[i - l]]
<1>7. /\ \A k \in 1 .. N : at[k] \in 1 .. lq - h /\ h + at[k] = Nth(stay, k)
      /\ \A j, k \in 1 .. N : j < k => at[j] < at[k]
  <2>1. ASSUME NEW k \in 1 .. N
        PROVE  Nth(stay, k) \in h + 1 .. lq
    BY <1>3, <1>6
  <2>2. \A j, k \in 1 .. N : at[k] = Nth(stay, k) - h
    OBVIOUS
  <2> HIDE DEF at
  <2>3. ASSUME NEW k \in 1 .. N
        PROVE  at[k] \in 1 .. lq - h /\ h + at[k] = Nth(stay, k)
    <3> DEFINE x == Nth(stay, k)
    <3>1. x \in h + 1 .. lq /\ at[k] = x - h
      BY <2>1, <2>2
    <3> HIDE DEF x
    <3>2. x - h \in 1 .. lq - h /\ h + (x - h) = x
      BY <1>3, <3>1
    <3> QED
      BY <3>1, <3>2 DEF x
  <2>4. ASSUME NEW j \in 1 .. N, NEW k \in 1 .. N, j < k
        PROVE  at[j] < at[k]
    <3>1. Nth(stay, j) < Nth(stay, k)
      BY <1>6, <2>4
    <3>2. Nth(stay, j) \in Int /\ Nth(stay, k) \in Int
      BY <1>3, <2>1
    <3> QED
      BY <1>3, <2>2, <3>1, <3>2
  <2> QED
    BY <2>3, <2>4
<1>8. \A k \in 1 .. N : T[l + at[k]] = U[l + k]
  BY <1>1
<1> HIDE DEF at
<1>9. f \in [1 .. l + N -> DOMAIN T]
  BY <1>2, <1>3, <1>4, <1>7, SMTT(30)
<1>10. \A i \in 1 .. l + N : f[i] = IF i <= l THEN i ELSE l + at[i - l]
  OBVIOUS
<1> HIDE DEF f
<1>11. \A i, j \in 1 .. l + N : i < j => f[i] < f[j]
  <2> SUFFICES ASSUME NEW i \in 1 .. l + N, NEW j \in 1 .. l + N, i < j
               PROVE  f[i] < f[j]
    OBVIOUS
  <2>1. CASE j <= l
    BY <1>2, <1>4, <1>10, <2>1
  <2>2. CASE i <= l /\ ~(j <= l)
    <3>1. j - l \in 1 .. N /\ f[j] = l + at[j - l] /\ f[i] = i
      BY <1>2, <1>4, <1>10, <2>2
    <3>2. at[j - l] \in 1 .. lq - h
      BY <1>7, <3>1
    <3> QED
      BY <1>2, <1>3, <1>4, <2>2, <3>1, <3>2
  <2>3. CASE ~(i <= l)
    <3>1. /\ j - l \in 1 .. N /\ f[j] = l + at[j - l]
          /\ i - l \in 1 .. N /\ f[i] = l + at[i - l] /\ i - l < j - l
      BY <1>2, <1>4, <1>10, <2>3
    <3>2. at[i - l] < at[j - l] /\ at[i - l] \in 1 .. lq - h /\ at[j - l] \in 1 .. lq - h
      BY <1>7, <3>1
    <3> QED
      BY <1>3, <1>4, <3>1, <3>2, SMTT(30)
  <2> QED
    BY <2>1, <2>2, <2>3
<1>12. \A i \in 1 .. l + N : U[i] = T[f[i]]
  <2> SUFFICES ASSUME NEW i \in 1 .. l + N
               PROVE  U[i] = T[f[i]]
    OBVIOUS
  <2>1. CASE i <= l
    BY <1>1, <1>10, <2>1
  <2>2. CASE ~(i <= l)
    <3>1. i - l \in 1 .. N /\ f[i] = l + at[i - l] /\ l + (i - l) = i
      BY <1>2, <1>4, <1>10, <2>2
    <3> QED
      BY <1>8, <3>1
  <2> QED
    BY <2>1, <2>2
<1>13. \A i \in l + N + 1 .. Len(U) : U[i].event.kind = "resync"
  <2> SUFFICES ASSUME NEW i \in l + N + 1 .. Len(U)
               PROVE  U[i].event.kind = "resync"
    OBVIOUS
  <2>1. i - (l + N) \in 1 .. m /\ l + N + (i - (l + N)) = i
    BY <1>1, <1>2, <1>4
  <2>2. U[i].event = Resync(order[i - (l + N)], "degraded") /\ order[i - (l + N)] \in RunKeys
    BY <1>1, <1>2, <2>1
  <2> QED
    BY <2>2, EventSorts
<1>14. \A i \in Discarded(b) :
         /\ l + (i - h) \in DOMAIN T /\ T[l + (i - h)].event.kind = "delta"
         /\ T[l + (i - h)].parts = b.queue[i].parts
         /\ \A k \in 1 .. l + N : f[k] # l + (i - h)
  <2> SUFFICES ASSUME NEW i \in Discarded(b)
               PROVE  /\ l + (i - h) \in DOMAIN T /\ T[l + (i - h)].event.kind = "delta"
                      /\ T[l + (i - h)].parts = b.queue[i].parts
                      /\ \A k \in 1 .. l + N : f[k] # l + (i - h)
    OBVIOUS
  <2>1. i \in h + 1 .. lq /\ isCoalescibleEvent(b.queue[i].event) /\ i \notin stay
    BY <1>3
  <2>2. l + (i - h) \in DOMAIN T
    BY <1>3, <1>4, <2>1
  <2>3. T[l + (i - h)] = ItemAt(b.queue, i)
    BY <1>4, <2>1
  <2>4. T[l + (i - h)].event = b.queue[i].event /\ T[l + (i - h)].parts = b.queue[i].parts
    BY <2>3 DEF ItemAt
  <2>5. ASSUME NEW k \in 1 .. l + N, f[k] = l + (i - h)
        PROVE  FALSE
    <3>1. CASE k <= l
      BY <1>3, <1>4, <1>10, <2>1, <2>5, <3>1
    <3>2. CASE ~(k <= l)
      <4>1. k - l \in 1 .. N /\ f[k] = l + at[k - l]
        BY <1>2, <1>4, <1>10, <3>2
      <4>2. h + at[k - l] = Nth(stay, k - l) /\ Nth(stay, k - l) \in stay
            /\ at[k - l] \in 1 .. lq - h
        BY <1>6, <1>7, <4>1
      <4>3. h + at[k - l] = i
        <5> DEFINE a == at[k - l]
        <5>1. l + a = l + (i - h) /\ a \in 1 .. lq - h
          BY <2>5, <4>1, <4>2
        <5> HIDE DEF a
        <5>2. l \in Nat /\ h \in Nat /\ i \in Int /\ a \in Int
          BY <1>3, <1>4, <2>1, <5>1
        <5>3. h + a = i
          BY <5>1, <5>2
        <5> QED
          BY <5>3 DEF a
      <4> QED
        BY <2>1, <4>2, <4>3
    <3> QED
      BY <3>1, <3>2
  <2> QED
    BY <2>1, <2>2, <2>4, <2>5 DEF isCoalescibleEvent
<1>15. ASSUME NEW j \in DOMAIN T
       PROVE  \/ \E i \in 1 .. l + N : f[i] = j
              \/ /\ T[j].event.kind = "delta"
                 /\ \A p : Holds(T[j], p) => \E x \in lost : x.id = p
  <2>1. CASE j <= l
    <3>1. j \in 1 .. l + N /\ f[j] = j
      BY <1>2, <1>3, <1>4, <1>10, <2>1
    <3> QED
      BY <3>1
  <2>2. CASE ~(j <= l)
    <3> DEFINE i == h + (j - l)
    <3>1. i \in h + 1 .. lq /\ l + (i - h) = j
      BY <1>3, <1>4, <2>2
    <3> HIDE DEF i
    <3>2. CASE i \in stay
      <4>1. PICK k \in 1 .. N : Nth(stay, k) = i
        BY <1>6, <3>2
      <4>2. h + at[k] = i /\ at[k] \in 1 .. lq - h
        BY <1>7, <4>1
      <4>3. l + k \in 1 .. l + N /\ ~(l + k <= l) /\ (l + k) - l = k
        BY <1>2, <1>4
      <4>4. f[l + k] = l + at[k]
        BY <1>10, <4>3
      <4>5. l + at[k] = j
        <5> DEFINE a == at[k]
        <5>1. h + a = i /\ a \in 1 .. lq - h
          BY <4>2
        <5> HIDE DEF a
        <5>2. h \in Nat /\ l \in Nat /\ a \in Int /\ h + a = i /\ l + (i - h) = j
          BY <1>3, <1>4, <3>1, <5>1
        <5>3. i - h = a
          BY <5>2
        <5>4. l + a = j
          BY <5>2, <5>3
        <5> QED
          BY <5>4 DEF a
      <4> QED
        BY <4>3, <4>4, <4>5
    <3>3. CASE i \in Discarded(b)
      <4>1. T[j].event.kind = "delta" /\ T[j].parts = b.queue[i].parts
        BY <1>14, <3>1, <3>3
      <4>2. ASSUME NEW p, Holds(T[j], p)
            PROVE  \E x \in lost : x.id = p
        <5>1. PICK u \in DOMAIN b.queue[i].parts : b.queue[i].parts[u] = p
          BY <4>1, <4>2 DEF Holds
        <5> QED
          BY <1>5, <3>3, <5>1
      <4> QED
        BY <4>1, <4>2
    <3> QED
      BY <1>3, <3>1, <3>2, <3>3
  <2> QED
    BY <2>1, <2>2
<1>16. ASSUME NEW x \in lost
       PROVE  \E j \in DOMAIN T : /\ T[j].event.kind = "delta" /\ Holds(T[j], x.id)
                                  /\ \A i \in 1 .. l + N : f[i] # j
  <2>1. PICK i \in Discarded(b) : \E u \in DOMAIN b.queue[i].parts : x.id = b.queue[i].parts[u]
    BY <1>5
  <2> DEFINE j == l + (i - h)
  <2>2. /\ j \in DOMAIN T /\ T[j].event.kind = "delta" /\ T[j].parts = b.queue[i].parts
        /\ \A k \in 1 .. l + N : f[k] # j
    BY <1>14
  <2> HIDE DEF j
  <2>3. Holds(T[j], x.id)
    BY <2>1, <2>2 DEF Holds
  <2> QED
    BY <2>2, <2>3
<1>17. l + N \in Nat /\ l + N <= Len(U) /\ TrailInv(T, lg, dr)
  BY <1>1, <1>2, <1>4 DEF T
<1>18. TrailInv(U, lg, dr \cup lost)
  <2> DEFINE M == l + N
  <2>1. M \in Nat /\ M <= Len(U) /\ f \in [1 .. M -> DOMAIN T]
    BY <1>9, <1>17
  <2>2. \A i, j \in 1 .. M : i < j => f[i] < f[j]
    BY <1>11
  <2>3. \A i \in 1 .. M : U[i] = T[f[i]]
    BY <1>12
  <2>4. \A i \in M + 1 .. Len(U) : U[i].event.kind = "resync"
    BY <1>13
  <2>5. \A j \in DOMAIN T :
          \/ \E i \in 1 .. M : f[i] = j
          \/ /\ T[j].event.kind = "delta"
             /\ \A p : Holds(T[j], p) => \E x \in lost : x.id = p
    BY <1>15
  <2>6. \A x \in lost : \E j \in DOMAIN T : /\ T[j].event.kind = "delta" /\ Holds(T[j], x.id)
                                            /\ \A i \in 1 .. M : f[i] # j
    BY <1>16
  <2> HIDE DEF M
  <2>7. Compaction(T, U, M, f, lost)
    BY <2>1, <2>2, <2>3, <2>4, <2>5, <2>6 DEF Compaction
  <2> QED
    BY <1>1, <1>4, <1>17, <2>7, TrailCompact
<1> QED
  BY <1>18 DEF T, U, lost, l

\* Deltas are queued within the limits.
Within(b) ==
  (\E i \in b.head + 1 .. Len(b.queue) : isCoalescibleEvent(b.queue[i].event)) => ~OverLimit(b)

LEMMA CompactWithin ==
  ASSUME NEW b, BrokerOK(b), OverLimit(b), NEW n \in 1 .. MaxPublish, MaxPublish \in Nat,
         NEW order \in SetToSeqs(Affected(b))
  PROVE  Within(compactOverLimit(b, order, n))
<1> DEFINE c == compactOverLimit(b, order, n)
           stay == Stay(b)
           N == Cardinality(stay)
           m == Len(order)
<1>1. c.head = 0 /\ N \in Nat /\ m \in Nat /\ Len(c.queue) = N + m
  BY CompactStruct
<1>2. \A k \in 1 .. N : c.queue[k] = b.queue[Nth(stay, k)]
  BY CompactStruct
<1>3. \A k \in 1 .. m :
        order[k] \in RunKeys /\ c.queue[N + k].event = Resync(order[k], "degraded")
  BY CompactStruct
<1>4. /\ Len(b.queue) \in Nat /\ stay \in SUBSET (1 .. Len(b.queue))
      /\ \A i \in stay : ~isCoalescibleEvent(b.queue[i].event)
  BY StructParts, DiscardedParts
<1> HIDE DEF c, stay
<1>5. \A k \in 1 .. N : Nth(stay, k) \in stay
  BY <1>4, NthNumber
<1> HIDE DEF N, m
<1>6. ASSUME NEW i \in 1 .. N + m
      PROVE  ~isCoalescibleEvent(c.queue[i].event)
  <2>1. CASE i \in 1 .. N
    BY <1>2, <1>4, <1>5, <2>1
  <2>2. CASE i \notin 1 .. N
    <3>1. i - N \in 1 .. m /\ N + (i - N) = i
      BY <1>1, <2>2
    <3>2. order[i - N] \in RunKeys /\ c.queue[i].event = Resync(order[i - N], "degraded")
      BY <1>3, <3>1
    <3> QED
      BY <3>2, EventSorts
  <2> QED
    BY <2>1, <2>2
<1>7. Within(c)
  BY <1>1, <1>6 DEF Within
<1> QED
  BY <1>7 DEF c

\* A discarded entry holds publications of its event.
LEMMA DiscardedEvent ==
  ASSUME NEW b, BrokerOK(b), NEW d \in Seq(Item), NEW lg \in Seq(PublishedEvent), NEW dr,
         TrailInv(TrailOf(b, d), lg, dr), NEW i \in Discarded(b)
  PROVE  /\ b.queue[i].parts # <<>>
         /\ \A j \in DOMAIN b.queue[i].parts : lg[b.queue[i].parts[j]] = b.queue[i].event
<1> DEFINE T == TrailOf(b, d)
           l == Len(d)
           h == b.head
           lq == Len(b.queue)
           y == T[l + (i - h)]
<1>1. /\ T \in Seq(Item) /\ DOMAIN T = 1 .. Len(T) /\ l \in Nat
      /\ \A k \in h + 1 .. lq :
           l + (k - h) \in l + 1 .. Len(T) /\ T[l + (k - h)] = ItemAt(b.queue, k)
  BY TrailParts
<1>2. i \in h + 1 .. lq /\ isCoalescibleEvent(b.queue[i].event)
  BY DEF Discarded
<1> HIDE DEF T, l, h, lq
<1>3. l + (i - h) \in DOMAIN T /\ y = ItemAt(b.queue, i)
  <2>1. l + (i - h) \in l + 1 .. Len(T) /\ y = ItemAt(b.queue, i)
    BY <1>1, <1>2
  <2> QED
    BY <1>1, <2>1
<1>4. y.event = b.queue[i].event /\ y.parts = b.queue[i].parts /\ y.event.kind # "resync"
  BY <1>2, <1>3 DEF ItemAt, isCoalescibleEvent
<1>5. HonestItem(y, lg)
  BY <1>3, <1>4 DEF TrailInv, Honest, T
<1> HIDE DEF y
<1>6. Len(y.parts) > 0 /\ \A j \in DOMAIN y.parts : lg[y.parts[j]] = y.event
  BY <1>5 DEF HonestItem
<1> QED
  BY <1>4, <1>6

\* What was asked for stays; of the drops of a compaction those that find the run
\* unmarked are followed by a request, and every discarded run has one.
LEMMA CompactTold ==
  ASSUME NEW b, BrokerOK(b), OverLimit(b), NEW n \in 1 .. MaxPublish, MaxPublish \in Nat,
         NEW order \in SetToSeqs(Affected(b)), NEW d \in Seq(Item),
         NEW lg \in Seq(PublishedEvent), NEW dr, TrailInv(TrailOf(b, d), lg, dr),
         dr \subseteq Drop, \A x \in dr : x.received <= Len(d)
  PROVE  LET c == compactOverLimit(b, order, n)
             U == TrailOf(c, d)
             lost == Losses(b, n, Len(d))
         IN  /\ \A x \in dr, r \in RunKeys : Told(TrailOf(b, d), r, x) => Told(U, r, x)
             /\ \A x \in lost : lg[x.id].run \in RunKeys \ Sessionless =>
                  b.degraded[lg[x.id].run] \/ Told(U, lg[x.id].run, x)
             /\ \A r \in DiscardedRuns(b) : \E x \in lost : lg[x.id].run = r
<1> DEFINE T == TrailOf(b, d)
           c == compactOverLimit(b, order, n)
           U == TrailOf(c, d)
           stay == Stay(b)
           N == Cardinality(stay)
           l == Len(d)
           m == Len(order)
           lost == Losses(b, n, l)
           h == b.head
           lq == Len(b.queue)
<1>1. /\ U \in Seq(Item) /\ Len(U) = l + N + m
      /\ \A i \in 1 .. l : U[i] = T[i]
      /\ \A k \in 1 .. N : U[l + k] = T[l + (Nth(stay, k) - h)]
      /\ \A k \in 1 .. m : U[l + N + k].event = Resync(order[k], "degraded")
  BY CompactPlaces
<1>2. N \in Nat /\ m \in Nat /\ \A k \in 1 .. m : order[k] \in RunKeys
  BY CompactStruct
<1>4. /\ lq \in Nat /\ h \in Nat /\ h <= lq
      /\ stay \in SUBSET (1 .. lq)
      /\ \A i \in Discarded(b) : i \in h + 1 .. lq /\ isCoalescibleEvent(b.queue[i].event)
      /\ stay \cup Discarded(b) = h + 1 .. lq
      /\ Affected(b) \subseteq RunKeys /\ IsFiniteSet(Affected(b))
  BY StructParts, DiscardedParts
<1>5. /\ T \in Seq(Item) /\ Len(T) = l + (lq - h) /\ l \in Nat /\ DOMAIN T = 1 .. Len(T)
      /\ \A i \in h + 1 .. lq :
           l + (i - h) \in l + 1 .. Len(T) /\ T[l + (i - h)] = ItemAt(b.queue, i)
      /\ \A j \in l + 1 .. Len(T) :
           h + (j - l) \in h + 1 .. lq /\ T[j] = ItemAt(b.queue, h + (j - l))
  BY TrailParts
<1>6. \A x \in lost :
        /\ x.by = n /\ x.received = l
        /\ \E i \in Discarded(b) : \E j \in DOMAIN b.queue[i].parts : x.id = b.queue[i].parts[j]
  BY <1>5, LossesParts
<1>7. \A r \in Affected(b) : \E k \in 1 .. m : order[k] = r
  BY <1>4, OrderParts
<1>8. TrailInv(T, lg, dr)
  OBVIOUS
<1>3. \A i \in Discarded(b) : \A j \in DOMAIN b.queue[i].parts :
        \E x \in lost : x.id = b.queue[i].parts[j]
  BY <1>5, LossesParts
<1> HIDE DEF stay, h, lq, l, T, U, m, lost
<1>9. \A i \in stay : \E k \in 1 .. N : Nth(stay, k) = i
  BY <1>4, NthNumber
<1> HIDE DEF N
<1>10. ASSUME NEW x \in dr, NEW r \in RunKeys, Told(T, r, x)
       PROVE  Told(U, r, x)
  <2>1. x.received \in Nat /\ x.received <= l
    BY DEF Drop, l
  <2>2. PICK i \in x.received + 1 .. Len(T) :
          T[i].event.kind = "resync" /\ T[i].event.run = r
    BY <1>10 DEF Told
  <2>3. CASE i <= l
    <3>1. i \in 1 .. l /\ i \in x.received + 1 .. Len(U)
      BY <1>1, <1>2, <1>5, <2>1, <2>2, <2>3
    <3> QED
      BY <1>1, <2>2, <3>1 DEF Told
  <2>4. CASE ~(i <= l)
    <3> DEFINE j == h + (i - l)
    <3>1. i \in l + 1 .. Len(T)
      BY <1>4, <1>5, <2>1, <2>2, <2>4
    <3>2. j \in h + 1 .. lq /\ T[i] = ItemAt(b.queue, j)
      BY <1>5, <3>1
    <3>3. i = l + (j - h)
      BY <1>4, <1>5, <3>1
    <3> HIDE DEF j
    <3>4. j \notin Discarded(b)
      <4>1. b.queue[j].event.kind = "resync"
        BY <2>2, <3>2 DEF ItemAt
      <4> QED
        BY <1>4, <4>1 DEF isCoalescibleEvent
    <3>5. PICK k \in 1 .. N : Nth(stay, k) = j
      BY <1>4, <1>9, <3>2, <3>4
    <3>6. U[l + k] = T[i]
      BY <1>1, <3>3, <3>5
    <3>7. l + k \in x.received + 1 .. Len(U)
      BY <1>1, <1>2, <1>5, <2>1, SMTT(30)
    <3> QED
      BY <2>2, <3>6, <3>7 DEF Told
  <2> QED
    BY <2>3, <2>4
<1>11. \A i \in Discarded(b) :
         /\ b.queue[i].parts # <<>>
         /\ \A j \in DOMAIN b.queue[i].parts : lg[b.queue[i].parts[j]] = b.queue[i].event
  BY DiscardedEvent
<1>12. ASSUME NEW i \in Discarded(b)
       PROVE  \E j \in DOMAIN b.queue[i].parts : TRUE
  <2>1. i \in 1 .. lq
    BY <1>4
  <2>2. b.queue[i].parts \in Seq(1 .. MaxPublish)
    BY <2>1, StructParts DEF lq
  <2> QED
    BY <1>11, <2>2
<1>13. ASSUME NEW x \in lost, lg[x.id].run \in RunKeys \ Sessionless, ~b.degraded[lg[x.id].run]
       PROVE  Told(U, lg[x.id].run, x)
  <2> DEFINE r == lg[x.id].run
  <2>1. PICK i \in Discarded(b) : \E j \in DOMAIN b.queue[i].parts : x.id = b.queue[i].parts[j]
    BY <1>6
  <2>2. b.queue[i].event.run = r /\ x.received = l
    BY <1>6, <1>11, <2>1
  <2> HIDE DEF r
  <2>3. r \in Affected(b)
    BY <1>13, <2>2 DEF Affected, DiscardedRuns, r
  <2>4. PICK k \in 1 .. m : order[k] = r
    BY <1>7, <2>3
  <2>5. l + N + k \in x.received + 1 .. Len(U)
    BY <1>1, <1>2, <1>5, <2>2, SMTT(30)
  <2>6. U[l + N + k].event = Resync(r, "degraded")
    BY <1>1, <2>4
  <2>7. Resync(r, "degraded").kind = "resync" /\ Resync(r, "degraded").run = r
    BY <1>13, EventSorts DEF r
  <2> QED
    BY <2>5, <2>6, <2>7 DEF Told, r
<1>14. ASSUME NEW r \in DiscardedRuns(b)
       PROVE  \E x \in lost : lg[x.id].run = r
  <2>1. PICK i \in Discarded(b) : b.queue[i].event.run = r
    BY DEF DiscardedRuns
  <2>2. PICK j \in DOMAIN b.queue[i].parts : TRUE
    BY <1>12
  <2>3. PICK x \in lost : x.id = b.queue[i].parts[j]
    BY <1>3
  <2> QED
    BY <1>11, <2>1, <2>3
<1> QED
  BY <1>10, <1>13, <1>14 DEF T, U, lost, l

\* Every drop of a compaction is announced, and those before stay announced. The
\* log that says who has ended does not have the publication that compacted yet.
LEMMA CompactAnnounced ==
  ASSUME NEW b, BrokerOK(b), OverLimit(b), NEW n \in 1 .. MaxPublish, MaxPublish \in Nat,
         NEW order \in SetToSeqs(Affected(b)), NEW d \in Seq(Item),
         NEW lg \in Seq(PublishedEvent), NEW dr, TrailInv(TrailOf(b, d), lg, dr),
         dr \subseteq Drop, \A x \in dr : x.received <= Len(d),
         NEW ends, Len(ends) \in Nat, Len(ends) < n, n = Len(lg),
         Announced(TrailOf(b, d), lg, ends, dr, b.degraded)
  PROVE  LET c == compactOverLimit(b, order, n)
         IN  Announced(TrailOf(c, d), lg, ends, dr \cup Losses(b, n, Len(d)), c.degraded)
<1> DEFINE T == TrailOf(b, d)
           U == TrailOf(compactOverLimit(b, order, n), d)
           lost == Losses(b, n, Len(d))
           deg == compactOverLimit(b, order, n).degraded
           old == b.degraded
<1>1. /\ \A x \in dr, r \in RunKeys : Told(T, r, x) => Told(U, r, x)
      /\ \A x \in lost : lg[x.id].run \in RunKeys \ Sessionless =>
           old[lg[x.id].run] \/ Told(U, lg[x.id].run, x)
      /\ \A r \in DiscardedRuns(b) : \E x \in lost : lg[x.id].run = r
  BY CompactTold
<1>2. \A r \in RunKeys : deg[r] <=> old[r] \/ r \in DiscardedRuns(b)
  BY CompactStruct
<1>3. \A x \in lost : x.by = n
  <2>1. Len(d) \in Nat
    OBVIOUS
  <2> QED
    BY <2>1, LossesParts
<1>4. \A x \in lost : lg[x.id].run \in RunKeys \ Sessionless => deg[lg[x.id].run]
  <2>1. ASSUME NEW x \in lost, lg[x.id].run \in RunKeys \ Sessionless
        PROVE  lg[x.id].run \in DiscardedRuns(b)
    <3>1. PICK i \in Discarded(b) :
            \E j \in DOMAIN b.queue[i].parts : x.id = b.queue[i].parts[j]
      <4>1. Len(d) \in Nat
        OBVIOUS
      <4> QED
        BY <4>1, LossesParts
    <3>2. b.queue[i].event.run = lg[x.id].run
      BY <3>1, DiscardedEvent
    <3> QED
      BY <2>1, <3>2 DEF DiscardedRuns
  <2> QED
    BY <1>2, <2>1
<1>5. ToldOrMarked(T, lg, ends, dr, old) /\ FirstTold(T, lg, dr, old)
  BY DEF Announced
<1> HIDE DEF T, U, lost, deg, old
<1>6. ToldOrMarked(U, lg, ends, dr \cup lost, deg)
  <2> SUFFICES ASSUME NEW r \in RunKeys \ Sessionless, NEW x \in dr \cup lost,
                      lg[x.id].run = r, ~Told(U, r, x)
               PROVE  deg[r] /\ ~\E i \in x.by .. Len(ends) : ends[i] = RunEnd(r)
    BY DEF ToldOrMarked
  <2>1. CASE x \in dr
    BY <1>1, <1>2, <1>5, <2>1 DEF ToldOrMarked
  <2>2. CASE x \in lost
    BY <1>3, <1>4, <2>2
  <2> QED
    BY <2>1, <2>2
<1>7. FirstTold(U, lg, dr \cup lost, deg)
  <2>1. \A x \in dr \cup lost : x.by <= Len(lg)
    BY <1>3, <1>5 DEF FirstTold
  <2>2. ASSUME NEW r \in RunKeys \ Sessionless, old[r]
        PROVE  \E e \in dr : lg[e.id].run = r /\ Told(U, r, e) /\ e.by <= n
    BY <1>1, <1>5, <2>2 DEF FirstTold
  <2>3. ASSUME NEW r \in RunKeys \ Sessionless, deg[r]
        PROVE  \E e \in dr \cup lost : lg[e.id].run = r /\ Told(U, r, e)
    <3>1. CASE old[r]
      BY <2>2, <3>1
    <3>2. CASE ~old[r]
      <4>1. r \in DiscardedRuns(b)
        BY <1>2, <2>3, <3>2
      <4>2. PICK x \in lost : lg[x.id].run = r
        BY <1>1, <4>1
      <4> QED
        BY <1>1, <3>2, <4>2
    <3> QED
      BY <3>1, <3>2
  <2>4. ASSUME NEW r \in RunKeys \ Sessionless, NEW x \in dr \cup lost, lg[x.id].run = r
        PROVE  \E e \in dr \cup lost :
                 lg[e.id].run = r /\ e.by <= x.by /\ Told(U, r, e)
    <3>1. CASE x \in dr
      BY <1>1, <1>5, <2>4, <3>1 DEF FirstTold
    <3>2. CASE x \in lost /\ old[r]
      BY <1>3, <2>2, <3>2
    <3>3. CASE x \in lost /\ ~old[r]
      <4>1. Told(U, r, x) /\ x.by <= x.by
        BY <1>1, <1>3, <2>4, <3>3
      <4> QED
        BY <2>4, <4>1
    <3> QED
      BY <3>1, <3>2, <3>3
  <2> QED
    BY <2>1, <2>3, <2>4 DEF FirstTold
<1>8. Announced(U, lg, ends, dr \cup lost, deg)
  BY <1>6, <1>7 DEF Announced
<1> QED
  BY <1>8 DEF U, lost, deg

\* Requests keep their places.
LEMMA GrownTold ==
  ASSUME NEW T \in Seq(Item), NEW U \in Seq(Item), Grown(T, U), NEW x \in Drop, NEW r,
         Told(T, r, x)
  PROVE  Told(U, r, x)
<1>1. Len(T) \in Nat /\ Len(U) \in Nat /\ DOMAIN T = 1 .. Len(T) /\ x.received \in Nat
  BY DEF Drop
<1>2. PICK i \in x.received + 1 .. Len(T) :
        T[i].event.kind = "resync" /\ T[i].event.run = r
  BY DEF Told
<1>3. i \in DOMAIN T /\ i \in x.received + 1 .. Len(U)
  BY <1>1, <1>2 DEF Grown
<1> QED
  BY <1>2, <1>3 DEF Grown, Told

\* What is announced stays so while requests keep their places.
LEMMA AnnouncedGrown ==
  ASSUME NEW T \in Seq(Item), NEW U \in Seq(Item), Grown(T, U),
         NEW lg \in Seq(PublishedEvent), NEW e, NEW dr, dr \subseteq Drop,
         \A x \in dr : x.id \in DOMAIN lg, NEW ends, NEW deg, Announced(T, lg, ends, dr, deg)
  PROVE  Announced(U, Append(lg, e), ends, dr, deg)
<1> DEFINE lg1 == Append(lg, e)
<1>1. /\ \A x \in dr : lg1[x.id] = lg[x.id] /\ x.by \in Int
      /\ Len(lg1) = Len(lg) + 1 /\ Len(lg) \in Nat
  BY DEF Drop
<1>2. \A x \in dr : \A r : Told(T, r, x) => Told(U, r, x)
  BY GrownTold
<1>3. ToldOrMarked(T, lg, ends, dr, deg) /\ FirstTold(T, lg, dr, deg)
  BY DEF Announced
<1> HIDE DEF lg1
<1>4. ToldOrMarked(U, lg1, ends, dr, deg)
  BY <1>1, <1>2, <1>3, Zenon DEF ToldOrMarked
<1>5. \A x \in dr : x.by <= Len(lg1)
  BY <1>1, <1>3 DEF FirstTold
<1>6. ASSUME NEW r \in RunKeys \ Sessionless, deg[r]
      PROVE  \E x \in dr : lg1[x.id].run = r /\ Told(U, r, x)
  <2>1. PICK x \in dr : lg[x.id].run = r /\ Told(T, r, x)
    BY <1>3, <1>6 DEF FirstTold
  <2> QED
    BY <1>1, <1>2, <2>1
<1>7. ASSUME NEW r \in RunKeys \ Sessionless, NEW x \in dr, lg1[x.id].run = r
      PROVE  \E y \in dr : lg1[y.id].run = r /\ y.by <= x.by /\ Told(U, r, y)
  <2>1. PICK y \in dr : lg[y.id].run = r /\ y.by <= x.by /\ Told(T, r, y)
    BY <1>1, <1>3, <1>7 DEF FirstTold
  <2> QED
    BY <1>1, <1>2, <2>1
<1>8. FirstTold(U, lg1, dr, deg)
  BY <1>5, <1>6, <1>7 DEF FirstTold
<1> QED
  BY <1>4, <1>8 DEF Announced, lg1

\* What a publication leaves; ends is the log that says who has ended.
Settled(c, lg, ends, d, dr) ==
  /\ BrokerOK(c) /\ PendingOK(c) /\ SizeOK(c) /\ Within(c)
  /\ dr \subseteq Drop /\ \A x \in dr : x.received <= Len(d)
  /\ TrailInv(TrailOf(c, d), lg, dr)
  /\ Announced(TrailOf(c, d), lg, ends, dr, c.degraded)

\* The limit check after e was appended.
LEMMA CheckedSettled ==
  ASSUME NEW b, NEW a, NEW e \in PublishedEvent, NEW lg, NEW d, NEW dr,
         Before1(b, lg, d, dr), Accepted(b, a, e, lg, d, dr),
         dr \subseteq Drop, \A x \in dr : x.received <= Len(d),
         Announced(TrailOf(b, d), lg, lg, dr, b.degraded),
         NEW order \in SetToSeqs(Affected(a))
  PROVE  Settled(compactOverLimit(a, order, Len(lg) + 1), Append(lg, e), lg, d,
                 dr \cup Losses(a, Len(lg) + 1, Len(d)))
<1> DEFINE n == Len(lg) + 1
           lg1 == Append(lg, e)
           c == compactOverLimit(a, order, n)
           lost == Losses(a, n, Len(d))
<1>1. /\ BrokerOK(b) /\ d \in Seq(Item) /\ lg \in Seq(PublishedEvent) /\ Len(lg) < MaxPublish
      /\ TrailInv(TrailOf(b, d), lg, dr)
  BY DEF Before1
<1>2. /\ BrokerOK(a) /\ PendingOK(a) /\ SizeOK(a) /\ a.degraded = b.degraded
      /\ TrailInv(TrailOf(a, d), lg1, dr) /\ Grown(TrailOf(b, d), TrailOf(a, d))
  BY DEF Accepted
<1>3. n \in 1 .. MaxPublish /\ MaxPublish \in Nat
  BY <1>1, NextNumber
<1>4. lg1 \in Seq(PublishedEvent) /\ Len(lg) \in Nat /\ Len(lg) < n /\ Len(d) \in Nat
  BY <1>1
<1>5. \A x \in dr : x.id \in DOMAIN lg
  BY <1>1 DEF TrailInv, Lost
<1>6. TrailOf(b, d) \in Seq(Item) /\ TrailOf(a, d) \in Seq(Item)
  BY <1>1, <1>2, TrailParts
<1>7. Announced(TrailOf(a, d), lg1, lg, dr, a.degraded)
  BY <1>1, <1>2, <1>5, <1>6, AnnouncedGrown
<1> HIDE DEF n
<1>8. /\ lost \subseteq Drop /\ \A x \in lost : x.received <= Len(d)
      /\ ~OverLimit(a) => lost = {}
  <2>1. /\ lost \subseteq Drop /\ \A x \in lost : x.received = Len(d)
        /\ ~OverLimit(a) => lost = {}
    BY <1>2, <1>3, <1>4, LossesParts
  <2> QED
    BY <1>4, <2>1
<1> HIDE DEF c, lost, lg1
<1>9. dr \cup lost \subseteq Drop /\ \A x \in dr \cup lost : x.received <= Len(d)
  BY <1>8
<1>10. CASE OverLimit(a)
  <2>1. BrokerOK(c) /\ SizeOK(c) /\ c.pending = NoPending
    BY <1>2, <1>3, <1>10, CompactStruct DEF c
  <2>2. PendingOK(c)
    BY <2>1 DEF PendingOK, NoPending
  <2>3. Within(c)
    BY <1>2, <1>3, <1>10, CompactWithin DEF c
  <2>4. TrailInv(TrailOf(c, d), lg1, dr \cup lost)
    BY <1>1, <1>2, <1>3, <1>4, <1>10, CompactTrail DEF c, lost
  <2>5. Announced(TrailOf(c, d), lg1, lg, dr \cup lost, c.degraded)
    <3>1. n = Len(lg1)
      BY <1>1 DEF n, lg1
    <3> QED
      BY <1>1, <1>2, <1>3, <1>4, <1>7, <1>10, <3>1, CompactAnnounced DEF c, lost
  <2>6. Settled(c, lg1, lg, d, dr \cup lost)
    BY <1>9, <2>1, <2>2, <2>3, <2>4, <2>5 DEF Settled
  <2> QED
    BY <2>6 DEF c, n, lost, lg1
<1>11. CASE ~OverLimit(a)
  <2>1. c = a
    BY <1>11 DEF c, compactOverLimit
  <2>2. dr \cup lost = dr
    BY <1>8, <1>11
  <2>3. Within(c)
    BY <1>11, <2>1 DEF Within
  <2>4. Settled(c, lg1, lg, d, dr \cup lost)
    BY <1>2, <1>7, <1>9, <2>1, <2>2, <2>3 DEF Settled
  <2> QED
    BY <2>4 DEF c, n, lost, lg1
<1> QED
  BY <1>10, <1>11

\* A publication that ends no run.
LEMMA AnnouncedPlain ==
  ASSUME NEW T, NEW lg1, NEW lg \in Seq(PublishedEvent), NEW e, \A r : e # RunEnd(r),
         NEW dr, NEW deg, dr \subseteq Drop, Announced(T, lg1, lg, dr, deg)
  PROVE  Announced(T, lg1, Append(lg, e), dr, deg)
<1> DEFINE ends == Append(lg, e)
<1>1. Len(lg) \in Nat /\ Len(ends) = Len(lg) + 1 /\ ends[Len(lg) + 1] = e
      /\ \A i \in 1 .. Len(lg) : ends[i] = lg[i]
  OBVIOUS
<1> HIDE DEF ends
<1>2. ASSUME NEW x \in dr, NEW r, NEW i \in x.by .. Len(ends), ends[i] = RunEnd(r)
      PROVE  \E j \in x.by .. Len(lg) : lg[j] = RunEnd(r)
  <2>1. x.by \in Nat \ {0}
    <3>1. x.by \in 1 .. MaxPublish
      BY DEF Drop
    <3> QED
      BY <3>1, BrokerAssumption
  <2>2. i # Len(lg) + 1
    BY <1>1, <1>2
  <2>3. i \in x.by .. Len(lg) /\ i \in 1 .. Len(lg)
    BY <1>1, <1>2, <2>1, <2>2
  <2> QED
    BY <1>1, <1>2, <2>3
<1>3. ToldOrMarked(T, lg1, lg, dr, deg) /\ FirstTold(T, lg1, dr, deg)
  BY DEF Announced
<1>4. ToldOrMarked(T, lg1, ends, dr, deg)
  BY <1>2, <1>3, Zenon DEF ToldOrMarked
<1> QED
  BY <1>3, <1>4 DEF Announced, ends

\* A publication that ends run r0, which a degraded run is told at the end.
LEMMA AnnouncedEnd ==
  ASSUME NEW T \in Seq(Item), NEW U \in Seq(Item), Grown(T, U), NEW r0 \in RunKeys,
         NEW lg1, NEW lg \in Seq(PublishedEvent), NEW dr, dr \subseteq Drop,
         NEW deg, NEW deg1, Announced(T, lg1, lg, dr, deg),
         \A r \in RunKeys : r # r0 => deg1[r] = deg[r], deg1[r0] => deg[r0],
         r0 \notin Sessionless /\ deg[r0] => \A x \in dr : Told(U, r0, x)
  PROVE  Announced(U, lg1, Append(lg, RunEnd(r0)), dr, deg1)
<1> DEFINE ends == Append(lg, RunEnd(r0))
<1>1. Len(lg) \in Nat /\ Len(ends) = Len(lg) + 1 /\ ends[Len(lg) + 1] = RunEnd(r0)
      /\ \A i \in 1 .. Len(lg) : ends[i] = lg[i]
  OBVIOUS
<1>2. \A x \in dr : \A r : Told(T, r, x) => Told(U, r, x)
  BY GrownTold
<1>3. \A r : r # r0 => RunEnd(r) # RunEnd(r0)
  BY DEF RunEnd
<1>4. ToldOrMarked(T, lg1, lg, dr, deg) /\ FirstTold(T, lg1, dr, deg)
  BY DEF Announced
<1> HIDE DEF ends
<1>5. ASSUME NEW x \in dr, NEW r \in RunKeys \ Sessionless, lg1[x.id].run = r
      PROVE  \/ Told(U, r, x)
             \/ deg1[r] /\ ~\E i \in x.by .. Len(ends) : ends[i] = RunEnd(r)
  <2>1. x.by \in Nat \ {0}
    <3>1. x.by \in 1 .. MaxPublish
      BY DEF Drop
    <3> QED
      BY <3>1, BrokerAssumption
  <2>2. CASE Told(T, r, x)
    BY <1>2, <2>2
  <2>3. CASE deg[r] /\ ~\E i \in x.by .. Len(lg) : lg[i] = RunEnd(r)
    <3>1. CASE r = r0
      BY <2>3, <3>1
    <3>2. CASE r # r0
      <4>1. deg1[r]
        BY <2>3, <3>2
      <4>2. ASSUME NEW i \in x.by .. Len(ends), ends[i] = RunEnd(r)
            PROVE  FALSE
        <5>1. i # Len(lg) + 1
          BY <1>1, <1>3, <3>2, <4>2
        <5>2. i \in x.by .. Len(lg) /\ i \in 1 .. Len(lg)
          BY <1>1, <2>1, <4>2, <5>1
        <5> QED
          BY <1>1, <2>3, <4>2, <5>2
      <4> QED
        BY <4>1, <4>2
    <3> QED
      BY <3>1, <3>2
  <2> QED
    BY <1>4, <1>5, <2>2, <2>3 DEF ToldOrMarked
<1>6. ToldOrMarked(U, lg1, ends, dr, deg1)
  BY <1>5, Zenon DEF ToldOrMarked
<1>7. \A r \in RunKeys : deg1[r] => deg[r]
  OBVIOUS
<1>8. FirstTold(U, lg1, dr, deg1)
  BY <1>2, <1>4, <1>7 DEF FirstTold
<1> QED
  BY <1>6, <1>8 DEF Announced, ends

-----------------------------------------------------------------------------
(* Producers. *)

LEMMA LimitWithin ==
  ASSUME NEW c, BrokerOK(c), Within(c)
  PROVE  LimitOK(c)
<1>1. /\ c.queuedBytes \in Int /\ Len(c.queue) \in Nat /\ c.head \in Nat
      /\ MaxBytes \in Nat /\ MaxEvents \in Nat
  BY StructParts, BrokerAssumption
<1>2. ~OverLimit(c) => c.queuedBytes <= MaxBytes + 1 /\ Len(c.queue) - c.head <= MaxEvents + 1
  BY <1>1 DEF OverLimit
<1> QED
  BY <1>2 DEF LimitOK, Within

\* What holds after a publication.
Published(c, lg, d, dr) ==
  /\ BrokerOK(c) /\ PendingOK(c) /\ SizeOK(c) /\ LimitOK(c)
  /\ dr \subseteq Drop /\ \A x \in dr : x.received <= Len(d)
  /\ TrailInv(TrailOf(c, d), lg, dr)
  /\ Announced(TrailOf(c, d), lg, lg, dr, c.degraded)

LEMMA PlainPublished ==
  ASSUME NEW lg \in Seq(PublishedEvent), NEW e, \A r : e # RunEnd(r), NEW c, NEW d, NEW dr,
         Settled(c, Append(lg, e), lg, d, dr)
  PROVE  Published(c, Append(lg, e), d, dr)
<1> DEFINE lg1 == Append(lg, e)
<1>1. /\ BrokerOK(c) /\ PendingOK(c) /\ SizeOK(c) /\ Within(c)
      /\ dr \subseteq Drop /\ \A x \in dr : x.received <= Len(d)
      /\ TrailInv(TrailOf(c, d), lg1, dr)
      /\ Announced(TrailOf(c, d), lg1, lg, dr, c.degraded)
  BY DEF Settled
<1>2. Announced(TrailOf(c, d), lg1, lg1, dr, c.degraded)
  BY <1>1, AnnouncedPlain
<1>3. LimitOK(c)
  BY <1>1, LimitWithin
<1> HIDE DEF lg1
<1>4. Published(c, lg1, d, dr)
  BY <1>1, <1>2, <1>3 DEF Published
<1> QED
  BY <1>4 DEF lg1

\* The broker forgets that a run is degraded.
Forget(c, r) == [c EXCEPT !.degraded[r] = FALSE]

LEMMA Undegraded ==
  ASSUME NEW c, BrokerOK(c), NEW r \in RunKeys, NEW d \in Seq(Item)
  PROVE  LET f == Forget(c, r)
         IN  /\ BrokerOK(f) /\ TrailOf(f, d) = TrailOf(c, d)
             /\ SizeOK(c) => SizeOK(f)
             /\ LimitOK(c) => LimitOK(f)
             /\ PendingOK(c) => PendingOK(f)
             /\ \A s \in RunKeys : s # r => f.degraded[s] = c.degraded[s]
             /\ ~f.degraded[r]
<1> DEFINE f == Forget(c, r)
<1>1. c \in Struct /\ c.queue \in Seq(QueueEntry)
  BY StructParts DEF BrokerOK
<1>2. /\ f \in Struct /\ f.head = c.head /\ f.queue = c.queue
      /\ f.queuedBytes = c.queuedBytes /\ f.pending = c.pending
      /\ \A s \in RunKeys : s # r => f.degraded[s] = c.degraded[s]
      /\ ~f.degraded[r]
  BY <1>1 DEF Struct, Forget
<1> HIDE DEF f
<1>3. Retimed(c.queue, f.queue)
  BY <1>1, <1>2 DEF Retimed
<1>4. /\ BrokerOK(f) /\ TrailOf(f, d) = TrailOf(c, d)
      /\ SizeOK(c) => SizeOK(f)
      /\ LimitOK(c) => LimitOK(f)
      /\ PendingOK(c) /\ f.pending = c.pending => PendingOK(f)
  BY <1>2, <1>3, RetimedStruct
<1> QED
  BY <1>2, <1>4 DEF f

\* A resync request at the end of a struct within the limits.
LEMMA ResyncStruct ==
  ASSUME NEW c, BrokerOK(c), PendingOK(c), SizeOK(c), Within(c), NEW r \in RunKeys,
         NEW n \in 1 .. MaxPublish, NEW d \in Seq(Item), NEW lg, NEW dr,
         TrailInv(TrailOf(c, d), lg, dr), c.pending = NoPending
  PROVE  LET f == Enqueue(c, Resync(r, "final"), n, 0)
         IN  /\ BrokerOK(f) /\ PendingOK(f) /\ SizeOK(f) /\ LimitOK(f)
             /\ f.degraded = c.degraded
             /\ TrailOf(f, d) \in Seq(Item) /\ TrailInv(TrailOf(f, d), lg, dr)
             /\ Grown(TrailOf(c, d), TrailOf(f, d))
             /\ Len(TrailOf(f, d)) \in Nat /\ Len(d) < Len(TrailOf(f, d))
             /\ TrailOf(f, d)[Len(TrailOf(f, d))].event = Resync(r, "final")
<1> DEFINE e == Resync(r, "final")
           f == Enqueue(c, e, n, 0)
           x == [event |-> e, parts |-> <<n>>]
           T == TrailOf(c, d)
           U == TrailOf(f, d)
<1>1. /\ e \in Queueable /\ e.kind = "resync" /\ e.state = "final" /\ ~isCoalescibleEvent(e)
  BY EventSorts
<1>2. 0 \in 0 .. MaxPublish
  BY BrokerAssumption
<1> HIDE DEF e
<1>3. /\ BrokerOK(f) /\ Len(f.queue) = Len(c.queue) + 1 /\ f.head = c.head
      /\ \A i \in 1 .. Len(c.queue) : f.queue[i] = c.queue[i]
      /\ f.queue[Len(c.queue) + 1].event = e
      /\ f.pending = c.pending /\ f.degraded = c.degraded
      /\ f.queuedBytes = c.queuedBytes + 1
      /\ U = Append(T, x) /\ SizeOK(f)
  <2>1. Enqueued(c, f, e, n, d)
    BY <1>1, <1>2, EnqueueShaped
  <2> QED
    BY <2>1, Zenon DEF Enqueued
<1>4. PendingOK(f)
  BY <1>3 DEF PendingOK, NoPending
<1>5. /\ c.queuedBytes \in Int /\ Len(c.queue) \in Nat /\ c.head \in Nat
      /\ c.head <= Len(c.queue) /\ MaxBytes \in Nat /\ MaxEvents \in Nat
  BY StructParts, BrokerAssumption
<1> HIDE DEF f
<1>6. LimitOK(f)
  <2> SUFFICES ASSUME NEW i \in f.head + 1 .. Len(f.queue),
                      isCoalescibleEvent(f.queue[i].event)
               PROVE  /\ f.queuedBytes <= MaxBytes + 1
                      /\ Len(f.queue) - f.head <= MaxEvents + 1
                      /\ f.queue[Len(f.queue)].event.state = "final"
    BY DEF LimitOK
  <2>1. i # Len(c.queue) + 1
    BY <1>1, <1>3
  <2>2. i \in c.head + 1 .. Len(c.queue) /\ i \in 1 .. Len(c.queue)
    <3>1. i \in c.head + 1 .. Len(c.queue) + 1
      BY <1>3
    <3> QED
      BY <1>5, <2>1, <3>1, SMTT(30)
  <2>3. ~OverLimit(c)
    BY <1>3, <2>2 DEF Within
  <2>4. c.queuedBytes <= MaxBytes /\ Len(c.queue) - c.head <= MaxEvents
    BY <1>5, <2>3, SMTT(30) DEF OverLimit
  <2>5. f.queue[Len(f.queue)].event.state = "final"
    BY <1>1, <1>3
  <2>6. f.queuedBytes <= MaxBytes + 1
    BY <1>3, <1>5, <2>4
  <2>7. Len(f.queue) - f.head <= MaxEvents + 1
    <3>1. Len(f.queue) = Len(c.queue) + 1 /\ f.head = c.head
      BY <1>3
    <3> QED
      BY <1>5, <2>4, <3>1, SMTT(30)
  <2> QED
    BY <2>5, <2>6, <2>7
<1>7. T \in Seq(Item) /\ Len(d) \in Nat /\ Len(T) = Len(d) + (Len(c.queue) - c.head)
  BY TrailParts
<1>8. x \in Item /\ x.event = e
  BY <1>1, NewItem
<1> HIDE DEF x, U
<1>9. U \in Seq(Item) /\ TrailInv(U, lg, dr) /\ Grown(T, U)
  BY <1>1, <1>3, <1>7, <1>8, TrailResync, GrownByAppend
<1> HIDE DEF T
<1>10. Len(U) = Len(T) + 1 /\ U[Len(T) + 1] = x /\ Len(T) \in Nat
  BY <1>3, <1>7
<1>11. Len(U) \in Nat /\ Len(d) < Len(U) /\ U[Len(U)].event = e
  BY <1>5, <1>7, <1>8, <1>10
<1> QED
  BY <1>3, <1>4, <1>6, <1>9, <1>11 DEF f, U, T, e

LEMMA SelfGrown ==
  ASSUME NEW T \in Seq(Item)
  PROVE  Grown(T, T)
  BY DEF Grown

\* The end of a run: a degraded one is told to resynchronise once more.
LEMMA EndPublished ==
  ASSUME NEW lg \in Seq(PublishedEvent), Len(lg) < MaxPublish, NEW r \in Runs,
         NEW c, c.pending = NoPending, NEW d \in Seq(Item), NEW dr,
         Settled(c, Append(lg, RunEnd(r)), lg, d, dr)
  PROVE  Published(IF c.degraded[r]
                     THEN [appendResync(c, r, "final", Len(lg) + 1) EXCEPT !.degraded[r] = FALSE]
                     ELSE c,
                   Append(lg, RunEnd(r)), d, dr)
<1> DEFINE e == RunEnd(r)
           lg1 == Append(lg, e)
           n == Len(lg) + 1
           T == TrailOf(c, d)
           g == appendResync(c, r, "final", n)
           f == Forget(g, r)
<1>1. /\ BrokerOK(c) /\ PendingOK(c) /\ SizeOK(c) /\ Within(c)
      /\ dr \subseteq Drop /\ \A x \in dr : x.received <= Len(d)
      /\ TrailInv(T, lg1, dr) /\ Announced(T, lg1, lg, dr, c.degraded)
  BY DEF Settled
<1>2. n \in 1 .. MaxPublish /\ r \in RunKeys
  BY NextNumber DEF RunKeys
<1>3. T \in Seq(Item) /\ LimitOK(c) /\ Len(d) \in Nat
  BY <1>1, TrailParts, LimitWithin
<1>4. Grown(T, T)
  BY <1>3, SelfGrown
<1> DEFINE K(h) == /\ Announced(TrailOf(h, d), lg1, lg1, dr, h.degraded)
                   /\ BrokerOK(h) /\ PendingOK(h) /\ SizeOK(h) /\ LimitOK(h)
                   /\ TrailInv(TrailOf(h, d), lg1, dr)
<1>5. \A h : K(h) => Published(h, lg1, d, dr)
  BY <1>1 DEF Published
<1> HIDE DEF n, lg1
<1>6. CASE ~c.degraded[r]
  <2>1. Announced(T, lg1, Append(lg, RunEnd(r)), dr, c.degraded)
    BY <1>1, <1>2, <1>3, <1>4, <1>6, AnnouncedEnd
  <2>2. Published(c, lg1, d, dr)
    BY <1>1, <1>3, <1>5, <2>1 DEF lg1
  <2> QED
    BY <1>6, <2>2 DEF lg1
<1>7. CASE c.degraded[r] /\ r \in Sessionless
  <2>1. g = c
    BY <1>7 DEF appendResync
  <2>2. /\ BrokerOK(f) /\ PendingOK(f) /\ SizeOK(f) /\ LimitOK(f) /\ TrailOf(f, d) = T
        /\ \A s \in RunKeys : s # r => f.degraded[s] = c.degraded[s]
        /\ ~f.degraded[r]
    BY <1>1, <1>2, <1>3, <2>1, Undegraded
  <2> HIDE DEF g, f
  <2>3. Announced(T, lg1, Append(lg, RunEnd(r)), dr, f.degraded)
    BY <1>1, <1>2, <1>3, <1>4, <1>7, <2>2, AnnouncedEnd
  <2>4. Published(f, lg1, d, dr)
    BY <1>1, <1>5, <2>2, <2>3 DEF lg1
  <2> QED
    BY <1>7, <2>4 DEF lg1, f, g, n, Forget
<1>8. CASE c.degraded[r] /\ r \notin Sessionless
  <2>1. g = Enqueue(c, Resync(r, "final"), n, 0)
    BY <1>8 DEF appendResync
  <2> DEFINE U == TrailOf(g, d)
  <2>2. /\ BrokerOK(g) /\ PendingOK(g) /\ SizeOK(g) /\ LimitOK(g)
        /\ g.degraded = c.degraded
        /\ U \in Seq(Item) /\ TrailInv(U, lg1, dr) /\ Grown(T, U)
        /\ Len(U) \in Nat /\ Len(d) < Len(U) /\ U[Len(U)].event = Resync(r, "final")
    BY <1>1, <1>2, <2>1, ResyncStruct
  <2> HIDE DEF g, U
  <2>3. /\ BrokerOK(f) /\ PendingOK(f) /\ SizeOK(f) /\ LimitOK(f) /\ TrailOf(f, d) = U
        /\ \A s \in RunKeys : s # r => f.degraded[s] = c.degraded[s]
        /\ ~f.degraded[r]
    BY <1>2, <2>2, Undegraded DEF U
  <2> HIDE DEF f, T
  <2>4. ASSUME NEW x \in dr
        PROVE  Told(U, r, x)
    <3>1. x.received \in Nat /\ x.received <= Len(d)
      BY <1>1 DEF Drop
    <3>2. Len(U) \in x.received + 1 .. Len(U)
      BY <1>3, <2>2, <3>1
    <3>3. Resync(r, "final").kind = "resync" /\ Resync(r, "final").run = r
      BY <1>2, EventSorts
    <3> QED
      BY <2>2, <3>2, <3>3 DEF Told
  <2>5. Announced(U, lg1, Append(lg, RunEnd(r)), dr, f.degraded)
    BY <1>1, <1>2, <1>3, <2>2, <2>3, <2>4, AnnouncedEnd, SMTT(30)
  <2>6. Published(f, lg1, d, dr)
    BY <1>5, <2>2, <2>3, <2>5 DEF lg1
  <2> QED
    BY <1>8, <2>6 DEF lg1, f, g, n, Forget
<1> QED
  BY <1>6, <1>7, <1>8

\* Who is woken goes back to the loop.
LEMMA SignalStep ==
  ASSUME ConsumersOK, signal
  PROVE  ConsumersOK' /\ NoLostWakeUp'
<1>1. ASSUME NEW c \in Consumers
      PROVE  /\ consumer'[c] \in [at : {"loop", "timer", "empty", "done"}, until : 0 .. MaxPublish]
             /\ consumer'[c].at \notin {"timer", "empty"}
  <2>1. /\ consumer[c] \in [at : {"loop", "timer", "empty", "done"}, until : 0 .. MaxPublish]
        /\ 0 \in 0 .. MaxPublish
    BY BrokerAssumption DEF ConsumersOK
  <2>2. consumer'[c] = IF consumer[c].at \in {"timer", "empty"}
                         THEN [at |-> "loop", until |-> 0] ELSE consumer[c]
    BY DEF signal
  <2>3. CASE consumer[c].at \in {"timer", "empty"}
    <3>1. consumer'[c] = [at |-> "loop", until |-> 0]
      BY <2>2, <2>3
    <3> QED
      BY <2>1, <3>1
  <2>4. CASE consumer[c].at \notin {"timer", "empty"}
    BY <2>1, <2>2, <2>4
  <2> QED
    BY <2>3, <2>4
<1>2. consumer' \in [Consumers ->
        [at : {"loop", "timer", "empty", "done"}, until : 0 .. MaxPublish]]
  BY <1>1 DEF signal
<1>3. NoLostWakeUp'
  BY <1>1 DEF NoLostWakeUp
<1> QED
  BY <1>2, <1>3 DEF ConsumersOK

\* What every publication has in common.
LEMMA Publishing ==
  ASSUME BrokerInv, NEW e \in PublishedEvent, Len(log) < MaxPublish, log' = Append(log, e),
         delivered' = delivered, signal, Published(broker', log', delivered', dropped')
  PROVE  BrokerInv'
<1>1. /\ BrokerOK(broker') /\ PendingOK(broker') /\ SizeOK(broker') /\ LimitOK(broker')
      /\ dropped' \subseteq Drop /\ \A x \in dropped' : x.received <= Len(delivered')
      /\ TrailInv(TrailOf(broker', delivered'), log', dropped')
      /\ Announced(TrailOf(broker', delivered'), log', log', dropped', broker'.degraded)
  BY DEF Published
<1>2. log \in Seq(PublishedEvent) /\ delivered \in Seq(Item) /\ ConsumersOK
  BY DEF BrokerInv, HistoryOK
<1>3. log' \in Seq(PublishedEvent) /\ Len(log') <= MaxPublish
  <2>1. MaxPublish \in Nat
    BY BrokerAssumption
  <2> QED
    BY <1>2, <2>1
<1>4. HistoryOK'
  BY <1>1, <1>2, <1>3 DEF HistoryOK
<1>5. ConsumersOK' /\ NoLostWakeUp'
  BY <1>2, SignalStep
<1> QED
  BY <1>1, <1>4, <1>5 DEF BrokerInv

LEMMA PublishStep ==
  ASSUME BrokerInv, Publish
  PROVE  BrokerInv'
<1> DEFINE n == Len(log) + 1
<1>1. /\ dropped \subseteq Drop /\ \A x \in dropped : x.received <= Len(delivered)
      /\ Announced(TrailOf(broker, delivered), log, log, dropped, broker.degraded)
      /\ log \in Seq(PublishedEvent) /\ delivered \in Seq(Item)
      /\ TrailInv(TrailOf(broker, delivered), log, dropped) /\ BrokerOK(broker)
      /\ PendingOK(broker) /\ SizeOK(broker)
  BY DEF BrokerInv, HistoryOK
<1>2. Len(log) < MaxPublish => Before1(broker, log, delivered, dropped)
  BY <1>1 DEF Before1
<1>3. \A e, a : Publication(e, a) =>
        /\ Len(log) < MaxPublish /\ log' = Append(log, e) /\ delivered' = delivered /\ signal
        /\ dropped' = dropped \cup Losses(a, n, Len(delivered))
  BY DEF Publication, Losses
<1>4. ASSUME NEW s \in Streams, PublishDelta(s)
      PROVE  BrokerInv'
  <2> DEFINE e == Delta(s)
             a == appendCoalescible(broker, e, n)
  <2>1. Publication(e, a) /\ broker' \in Checked(a)
    BY <1>4 DEF PublishDelta
  <2>2. e \in PublishedEvent /\ \A r : e # RunEnd(r)
    BY DEF PublishedEvent, Delta, RunEnd
  <2>3. /\ Len(log) < MaxPublish /\ log' = Append(log, e) /\ delivered' = delivered /\ signal
        /\ dropped' = dropped \cup Losses(a, n, Len(delivered))
    BY <1>3, <2>1
  <2>4. Accepted(broker, a, e, log, delivered, dropped)
    BY <1>2, <2>3, CoalescibleAccepted
  <2> HIDE DEF e, a
  <2>5. PICK order \in SetToSeqs(Affected(a)) : broker' = compactOverLimit(a, order, n)
    BY <2>1 DEF Checked
  <2>6. Settled(broker', log', log, delivered', dropped')
    BY <1>1, <1>2, <2>2, <2>3, <2>4, <2>5, CheckedSettled
  <2>7. Published(broker', log', delivered', dropped')
    BY <1>1, <2>2, <2>3, <2>6, PlainPublished
  <2> QED
    BY <2>2, <2>3, <2>7, Publishing
<1>5. ASSUME NEW ag \in Agents, NEW state \in LiveStates \cup {"completed"},
             PublishAgentState(ag, state)
      PROVE  BrokerInv'
  <2> DEFINE e == AgentState(ag, state)
             a == IF isReplaceableEvent(e) THEN appendReplaceable(broker, e, n)
                                           ELSE appendLifecycle(broker, e, n)
  <2>1. Publication(e, a) /\ broker' \in Checked(a)
    BY <1>5 DEF PublishAgentState
  <2>2. e \in PublishedEvent /\ \A r : e # RunEnd(r)
    BY DEF PublishedEvent, AgentState, RunEnd
  <2>3. /\ Len(log) < MaxPublish /\ log' = Append(log, e) /\ delivered' = delivered /\ signal
        /\ dropped' = dropped \cup Losses(a, n, Len(delivered))
    BY <1>3, <2>1
  <2>4. Accepted(broker, a, e, log, delivered, dropped)
    <3>1. CASE isReplaceableEvent(e)
      BY <1>2, <2>3, <3>1, ReplaceableAccepted
    <3>2. CASE ~isReplaceableEvent(e)
      BY <1>2, <2>2, <2>3, <3>2, LifecycleAccepted
    <3> QED
      BY <3>1, <3>2
  <2> HIDE DEF e, a
  <2>5. PICK order \in SetToSeqs(Affected(a)) : broker' = compactOverLimit(a, order, n)
    BY <2>1 DEF Checked
  <2>6. Settled(broker', log', log, delivered', dropped')
    BY <1>1, <1>2, <2>2, <2>3, <2>4, <2>5, CheckedSettled
  <2>7. Published(broker', log', delivered', dropped')
    BY <1>1, <2>2, <2>3, <2>6, PlainPublished
  <2> QED
    BY <2>2, <2>3, <2>7, Publishing
<1>6. ASSUME NEW r \in Runs, PublishRunEnd(r)
      PROVE  BrokerInv'
  <2> DEFINE e == RunEnd(r)
             a == appendLifecycle(broker, e, n)
             last(c) == IF c.degraded[r]
                          THEN [appendResync(c, r, "final", n) EXCEPT !.degraded[r] = FALSE]
                          ELSE c
  <2>1. Publication(e, a) /\ \E c \in Checked(a) : broker' = last(c)
    BY <1>6 DEF PublishRunEnd
  <2>2. e \in PublishedEvent
    BY DEF PublishedEvent
  <2>3. /\ Len(log) < MaxPublish /\ log' = Append(log, e) /\ delivered' = delivered /\ signal
        /\ dropped' = dropped \cup Losses(a, n, Len(delivered))
    BY <1>3, <2>1
  <2>4. Accepted(broker, a, e, log, delivered, dropped) /\ a.pending = NoPending
    BY <1>2, <2>2, <2>3, LifecycleAccepted
  <2> HIDE DEF a
  <2>5. PICK order \in SetToSeqs(Affected(a)) : broker' = last(compactOverLimit(a, order, n))
    BY <2>1 DEF Checked
  <2> DEFINE c == compactOverLimit(a, order, n)
  <2>6. Settled(c, log', log, delivered', dropped')
    BY <1>1, <1>2, <2>2, <2>3, <2>4, CheckedSettled
  <2>7. c.pending = NoPending
    <3>1. CASE OverLimit(a)
      <4>1. BrokerOK(a)
        BY <2>4 DEF Accepted
      <4>2. n \in 1 .. MaxPublish /\ MaxPublish \in Nat
        BY <1>1, <2>3, NextNumber
      <4> HIDE DEF n
      <4> QED
        BY <3>1, <4>1, <4>2, CompactStruct
    <3>2. CASE ~OverLimit(a)
      BY <2>4, <3>2 DEF compactOverLimit
    <3> QED
      BY <3>1, <3>2
  <2>8. broker' = last(c)
    BY <2>5
  <2> HIDE DEF c
  <2>9. Published(last(c), log', delivered', dropped')
    BY <1>1, <2>3, <2>6, <2>7, EndPublished
  <2>10. Published(broker', log', delivered', dropped')
    BY <2>8, <2>9
  <2> QED
    BY <2>2, <2>3, <2>10, Publishing
<1> QED
  BY <1>4, <1>5, <1>6 DEF Publish

-----------------------------------------------------------------------------
(* Delivery. *)

\* The struct after the first entry was taken, before the slice is shifted.
Advanced(b) ==
  LET x == b.queue[b.head + 1]
      key == x.event.key
  IN [b EXCEPT !.head = b.head + 1, !.queuedBytes = b.queuedBytes - x.size,
               !.pending = IF isDeferrableQueuedEvent(x.event) /\ b.pending[key] <= b.head + 1
                             THEN [b.pending EXCEPT ![key] = 0] ELSE b.pending]

\* What every step of the struct keeps.
StructInv(b) == BrokerOK(b) /\ PendingOK(b) /\ SizeOK(b) /\ LimitOK(b)

\* Two structs that hold the same entries.
LEMMA SameQueued ==
  ASSUME NEW b, BrokerOK(b), NEW c, BrokerOK(c), Len(c.queue) - c.head = Len(b.queue) - b.head,
         \A i \in 1 .. Len(b.queue) - b.head : c.queue[c.head + i] = b.queue[b.head + i],
         c.queuedBytes = b.queuedBytes, NEW d \in Seq(Item)
  PROVE  /\ TrailOf(c, d) = TrailOf(b, d)
         /\ SizeOK(b) => SizeOK(c)
         /\ LimitOK(b) => LimitOK(c)
<1> DEFINE len == Len(b.queue) - b.head
<1>1. /\ Len(b.queue) \in Nat /\ b.head \in Nat /\ b.head <= Len(b.queue)
      /\ Len(c.queue) \in Nat /\ c.head \in Nat /\ c.head <= Len(c.queue)
  BY StructParts
<1>2. TrailOf(c, d) = TrailOf(b, d)
  <2> DEFINE T == TrailOf(b, d)
             U == TrailOf(c, d)
  <2>1. /\ T \in Seq(Item) /\ Len(T) = Len(d) + len /\ Len(d) \in Nat
        /\ \A i \in 1 .. Len(d) : T[i] = d[i]
        /\ \A j \in Len(d) + 1 .. Len(T) :
             T[j] = ItemAt(b.queue, b.head + (j - Len(d)))
    BY TrailParts
  <2>2. /\ U \in Seq(Item) /\ Len(U) = Len(d) + len
        /\ \A i \in 1 .. Len(d) : U[i] = d[i]
        /\ \A j \in Len(d) + 1 .. Len(U) :
             U[j] = ItemAt(c.queue, c.head + (j - Len(d)))
    BY TrailParts
  <2> HIDE DEF T, U
  <2>3. len \in Nat
    BY <1>1
  <2>4. ASSUME NEW i \in 1 .. Len(d) + len
        PROVE  T[i] = U[i]
    <3>1. CASE i \in 1 .. Len(d)
      BY <2>1, <2>2, <3>1
    <3>2. CASE i \notin 1 .. Len(d)
      <4> DEFINE k == i - Len(d)
      <4>1. i \in Len(d) + 1 .. Len(d) + len /\ k \in 1 .. len
        BY <2>1, <2>3, <3>2
      <4>2. T[i] = ItemAt(b.queue, b.head + k) /\ U[i] = ItemAt(c.queue, c.head + k)
        BY <2>1, <2>2, <4>1
      <4>3. c.queue[c.head + k] = b.queue[b.head + k]
        BY <4>1
      <4> QED
        BY <4>2, <4>3 DEF ItemAt
    <3> QED
      BY <3>1, <3>2
  <2>5. T = U
    <3> HIDE DEF len
    <3> QED
      BY <2>1, <2>2, <2>3, <2>4
  <2> QED
    BY <2>5 DEF T, U
<1>3. Queued(c) = Queued(b)
  <2> DEFINE p == Queued(b)
             q == Queued(c)
  <2>1. /\ p \in Seq(QueueEntry) /\ Len(p) = len
        /\ \A i \in 1 .. len : p[i] = b.queue[b.head + i]
    BY QueuedParts
  <2>2. /\ q \in Seq(QueueEntry) /\ Len(q) = len
        /\ \A i \in 1 .. len : q[i] = c.queue[c.head + i]
    BY QueuedParts
  <2>3. \A i \in 1 .. len : p[i] = q[i]
    BY <2>1, <2>2
  <2> HIDE DEF p, q, len
  <2>4. p = q
    BY <2>1, <2>2, <2>3
  <2> QED
    BY <2>4 DEF p, q
<1>4. ASSUME LimitOK(b)
      PROVE  LimitOK(c)
  <2> SUFFICES ASSUME NEW i \in c.head + 1 .. Len(c.queue), isCoalescibleEvent(c.queue[i].event)
               PROVE  /\ c.queuedBytes <= MaxBytes + 1
                      /\ Len(c.queue) - c.head <= MaxEvents + 1
                      /\ OverLimit(c) => c.queue[Len(c.queue)].event.state = "final"
    BY DEF LimitOK
  <2> DEFINE k == i - c.head
  <2>1. k \in 1 .. len /\ c.head + k = i /\ b.head + k \in b.head + 1 .. Len(b.queue)
    <3>1. \A hb, lb, hc, lc \in Nat : \A j \in hc + 1 .. lc :
            lc - hc = lb - hb => /\ j - hc \in 1 .. lb - hb /\ hc + (j - hc) = j
                                 /\ hb + (j - hc) \in hb + 1 .. lb
      OBVIOUS
    <3> QED
      BY <1>1, <3>1
  <2>2. isCoalescibleEvent(b.queue[b.head + k].event)
    BY <2>1
  <2>3. /\ b.queuedBytes <= MaxBytes + 1
        /\ Len(b.queue) - b.head <= MaxEvents + 1
        /\ OverLimit(b) => b.queue[Len(b.queue)].event.state = "final"
    BY <1>4, <2>1, <2>2 DEF LimitOK
  <2>4. OverLimit(c) <=> OverLimit(b)
    BY DEF OverLimit
  <2>5. c.queue[Len(c.queue)] = b.queue[Len(b.queue)]
    <3>1. len \in 1 .. len /\ c.head + len = Len(c.queue) /\ b.head + len = Len(b.queue)
      <4> DEFINE lb == Len(b.queue)
                 hb == b.head
                 lc == Len(c.queue)
                 hc == c.head
      <4>1. /\ lb \in Nat /\ hb \in Nat /\ lc \in Nat /\ hc \in Nat /\ lc - hc = lb - hb
            /\ k \in 1 .. lb - hb
        BY <1>1, <2>1
      <4> HIDE DEF k, lb, hb, lc, hc
      <4>2. lb - hb \in 1 .. lb - hb /\ hc + (lb - hb) = lc /\ hb + (lb - hb) = lb
        BY <4>1
      <4> QED
        BY <4>2 DEF lb, hb, lc, hc
    <3>2. c.queue[c.head + len] = b.queue[b.head + len]
      BY <3>1
    <3> QED
      BY <3>1, <3>2
  <2> QED
    BY <2>3, <2>4, <2>5
<1> QED
  BY <1>2, <1>3, <1>4 DEF SizeOK

\* The first entry leaves the queue.
LEMMA AdvancedStruct ==
  ASSUME NEW b, StructInv(b), b.head < Len(b.queue), NEW d \in Seq(Item)
  PROVE  LET x == b.queue[b.head + 1]
             c == Advanced(b)
         IN  /\ StructInv(c) /\ c.degraded = b.degraded /\ c.closed = b.closed
             /\ Append(d, materializeQueuedEvent(x)) \in Seq(Item)
             /\ TrailOf(c, Append(d, materializeQueuedEvent(x))) = TrailOf(b, d)
<1> DEFINE x == b.queue[b.head + 1]
           key == x.event.key
           pend == IF isDeferrableQueuedEvent(x.event) /\ b.pending[key] <= b.head + 1
                     THEN [b.pending EXCEPT ![key] = 0] ELSE b.pending
           c == Advanced(b)
           y == materializeQueuedEvent(x)
           d1 == Append(d, y)
<1>1. BrokerOK(b) /\ PendingOK(b) /\ SizeOK(b) /\ LimitOK(b) /\ b \in Struct
  BY DEF StructInv, BrokerOK
<1>2. /\ Len(b.queue) \in Nat /\ b.head \in Nat /\ b.queuedBytes \in Int
      /\ b.pending \in [Keys -> Nat] /\ b.head + 1 \in 1 .. Len(b.queue)
      /\ \A i \in 1 .. Len(b.queue) : b.queue[i] \in QueueEntry /\ b.queue[i].size \in Nat
      /\ x.event \in Queueable
  <2>1. b.head \in Nat /\ Len(b.queue) \in Nat
    BY <1>1, StructParts
  <2>2. b.head + 1 \in 1 .. Len(b.queue)
    BY <2>1
  <2> QED
    BY <1>1, <2>1, <2>2, StructParts
<1>3. x \in QueueEntry /\ x.size \in Nat
  BY <1>2
<1>4. isDeferrableQueuedEvent(x.event) => key \in Keys
  BY <1>2, EventFacts
<1>5. pend \in [Keys -> Nat]
  BY <1>2, <1>4
<1>6. c = [b EXCEPT !.head = b.head + 1, !.queuedBytes = b.queuedBytes - x.size, !.pending = pend]
  BY DEF Advanced
<1> HIDE DEF x, pend, c
<1>7. b.head + 1 \in Nat /\ b.queuedBytes - x.size \in Int
  BY <1>2, <1>3
<1>8. /\ c \in Struct /\ c.head = b.head + 1 /\ c.queue = b.queue
      /\ c.queuedBytes = b.queuedBytes - x.size /\ c.pending = pend
      /\ c.degraded = b.degraded /\ c.closed = b.closed
  BY <1>1, <1>5, <1>6, <1>7 DEF Struct
<1>9. BrokerOK(c)
  BY <1>2, <1>8 DEF BrokerOK
<1>10. PendingOK(c)
  <2> SUFFICES ASSUME NEW k \in Keys, pend[k] # 0
               PROVE  /\ pend[k] \in b.head + 1 + 1 .. Len(b.queue)
                      /\ b.queue[pend[k]].event.key = k
                      /\ \A j \in pend[k] .. Len(b.queue) : isDeferrableQueuedEvent(b.queue[j].event)
                      /\ \A j \in pend[k] + 1 .. Len(b.queue) : b.queue[j].event.key # k
    BY <1>8 DEF PendingOK
  <2>1. pend[k] = b.pending[k]
    BY <1>2, <1>4 DEF pend
  <2>2. /\ b.pending[k] \in b.head + 1 .. Len(b.queue)
        /\ b.queue[b.pending[k]].event.key = k
        /\ \A j \in b.pending[k] .. Len(b.queue) : isDeferrableQueuedEvent(b.queue[j].event)
        /\ \A j \in b.pending[k] + 1 .. Len(b.queue) : b.queue[j].event.key # k
    BY <1>1, <2>1 DEF PendingOK
  <2>3. b.pending[k] # b.head + 1
    <3> SUFFICES ASSUME b.pending[k] = b.head + 1
                 PROVE  FALSE
      OBVIOUS
    <3>1. key = k
      BY <2>2 DEF x
    <3>2. isDeferrableQueuedEvent(x.event)
      BY <1>2, <2>2 DEF x
    <3>3. b.pending[key] <= b.head + 1
      BY <1>2, <3>1
    <3>4. pend[k] = 0
      BY <1>2, <3>1, <3>2, <3>3 DEF pend
    <3> QED
      BY <3>4
  <2>4. b.pending[k] \in b.head + 1 + 1 .. Len(b.queue)
    BY <1>2, <2>2, <2>3
  <2> QED
    BY <2>1, <2>2, <2>4
<1>11. SizeOK(c)
  <2> DEFINE p == Queued(b)
             q == Queued(c)
  <2>1. /\ p \in Seq(QueueEntry) /\ Len(p) = Len(b.queue) - b.head
        /\ \A i \in 1 .. Len(b.queue) - b.head : p[i] = b.queue[b.head + i]
    BY <1>1, QueuedParts
  <2>2. /\ q \in Seq(QueueEntry) /\ Len(q) = Len(b.queue) - (b.head + 1)
        /\ \A i \in 1 .. Len(b.queue) - (b.head + 1) : q[i] = b.queue[b.head + 1 + i]
    BY <1>8, <1>9, QueuedParts
  <2> HIDE DEF p, q
  <2>3. Len(p) = Len(q) + 1
    BY <1>2, <2>1, <2>2, SMTT(30)
  <2>4. ASSUME NEW i \in 1 .. Len(q)
        PROVE  q[i].size = p[i + 1].size
    <3>1. i + 1 \in 1 .. Len(b.queue) - b.head /\ i \in 1 .. Len(b.queue) - (b.head + 1)
          /\ b.head + (i + 1) = b.head + 1 + i
      BY <1>2, <2>2, SMTT(30)
    <3>2. p[i + 1] = b.queue[b.head + (i + 1)] /\ q[i] = b.queue[b.head + 1 + i]
      BY <2>1, <2>2, <3>1
    <3> QED
      BY <3>1, <3>2
  <2>5. SumOfSizes(p) = SumOfSizes(q) + p[1].size
    BY <2>1, <2>2, <2>3, <2>4, SumTail
  <2>6. p[1] = x
    <3>1. 1 \in 1 .. Len(b.queue) - b.head
      BY <1>2
    <3> QED
      BY <2>1, <3>1 DEF x
  <2>7. SumOfSizes(q) \in Nat /\ SumOfSizes(p) = b.queuedBytes
    BY <1>1, <2>2, FragmentsFinite DEF SizeOK, p
  <2>8. SumOfSizes(q) = b.queuedBytes - x.size
    BY <1>3, <2>5, <2>6, <2>7
  <2> QED
    BY <1>8, <2>8 DEF SizeOK, q
<1>12. LimitOK(c)
  <2> SUFFICES ASSUME NEW i \in b.head + 1 + 1 .. Len(b.queue),
                      isCoalescibleEvent(b.queue[i].event)
               PROVE  /\ b.queuedBytes - x.size <= MaxBytes + 1
                      /\ Len(b.queue) - (b.head + 1) <= MaxEvents + 1
                      /\ OverLimit(c) => b.queue[Len(b.queue)].event.state = "final"
    BY <1>8 DEF LimitOK
  <2>1. i \in b.head + 1 .. Len(b.queue)
    BY <1>2
  <2>2. /\ b.queuedBytes <= MaxBytes + 1
        /\ Len(b.queue) - b.head <= MaxEvents + 1
        /\ OverLimit(b) => b.queue[Len(b.queue)].event.state = "final"
    BY <1>1, <2>1 DEF LimitOK
  <2>3. MaxBytes \in Nat /\ MaxEvents \in Nat
    BY BrokerAssumption
  <2>4. OverLimit(c) => OverLimit(b)
    <3>1. /\ \A u \in Int, s \in Nat : u - s > MaxBytes => u > MaxBytes
          /\ \A u, v \in Nat : u - (v + 1) > MaxEvents => u - v > MaxEvents
      BY <2>3
    <3> QED
      BY <1>2, <1>3, <1>8, <3>1 DEF OverLimit
  <2>5. b.queuedBytes - x.size <= MaxBytes + 1
    BY <1>2, <1>3, <2>2, <2>3
  <2>6. Len(b.queue) - (b.head + 1) <= MaxEvents + 1
    BY <1>2, <2>2, <2>3, SMTT(30)
  <2> QED
    BY <2>2, <2>4, <2>5, <2>6
<1>13. y \in Item /\ y = ItemAt(b.queue, b.head + 1)
  BY <1>3, Materialized DEF ItemAt, x
<1> HIDE DEF y
<1>14. /\ d1 \in Seq(Item) /\ Len(d1) = Len(d) + 1 /\ Len(d) \in Nat
       /\ \A i \in 1 .. Len(d) : d1[i] = d[i]
       /\ d1[Len(d) + 1] = y
  BY <1>13
<1> HIDE DEF d1
<1>15. TrailOf(c, d1) = TrailOf(b, d)
  <2> DEFINE T == TrailOf(b, d)
             U == TrailOf(c, d1)
             l == Len(d)
             h == b.head
             lq == Len(b.queue)
  <2>1. /\ T \in Seq(Item) /\ Len(T) = l + (lq - h)
        /\ \A i \in 1 .. l : T[i] = d[i]
        /\ \A j \in l + 1 .. Len(T) : T[j] = ItemAt(b.queue, h + (j - l))
    BY <1>1, TrailParts
  <2>2. /\ U \in Seq(Item) /\ Len(U) = l + 1 + (lq - (h + 1))
        /\ \A i \in 1 .. l + 1 : U[i] = d1[i]
        /\ \A j \in l + 1 + 1 .. Len(U) : U[j] = ItemAt(b.queue, h + 1 + (j - (l + 1)))
    <3>1. /\ U \in Seq(Item) /\ Len(U) = Len(d1) + (Len(c.queue) - c.head)
          /\ \A i \in 1 .. Len(d1) : U[i] = d1[i]
          /\ \A j \in Len(d1) + 1 .. Len(U) :
               U[j] = ItemAt(c.queue, c.head + (j - Len(d1)))
      BY <1>9, <1>14, TrailParts
    <3>2. Len(d1) = l + 1 /\ c.queue = b.queue /\ Len(c.queue) = lq /\ c.head = h + 1
      BY <1>8, <1>14
    <3> HIDE DEF U, l, lq, h
    <3> QED
      BY <3>1, <3>2
  <2>3. l \in Nat /\ h \in Nat /\ lq \in Nat /\ h < lq
    BY <1>2, <1>14
  <2>4. y = ItemAt(b.queue, h + 1) /\ d1[l + 1] = y /\ \A i \in 1 .. l : d1[i] = d[i]
    BY <1>13, <1>14
  <2> HIDE DEF T, U, l, h, lq
  <2>5. Len(U) = Len(T)
    BY <2>1, <2>2, <2>3
  <2>6. ASSUME NEW i \in 1 .. Len(T)
        PROVE  T[i] = U[i]
    <3>1. CASE i \in 1 .. l
      <4>1. i \in 1 .. l + 1
        BY <2>3, <3>1
      <4> QED
        BY <2>1, <2>2, <2>4, <3>1, <4>1
    <3>2. CASE i = l + 1
      <4>1. i \in l + 1 .. Len(T) /\ h + (i - l) = h + 1 /\ i \in 1 .. l + 1
        BY <2>1, <2>3, <3>2
      <4> QED
        BY <2>1, <2>2, <2>4, <3>2, <4>1
    <3>3. CASE i \notin 1 .. l /\ i # l + 1
      <4>1. i \in l + 1 .. Len(T) /\ i \in l + 1 + 1 .. Len(U)
            /\ h + 1 + (i - (l + 1)) = h + (i - l)
        BY <2>1, <2>3, <2>5, <3>3
      <4> QED
        BY <2>1, <2>2, <4>1
    <3> QED
      BY <3>1, <3>2, <3>3
  <2>7. T = U
    BY <2>1, <2>2, <2>5, <2>6
  <2> QED
    BY <2>7 DEF T, U
<1> QED
  BY <1>8, <1>9, <1>10, <1>11, <1>12, <1>14, <1>15 DEF StructInv, c, x, y, d1

\* The slice is emptied or shifted.
LEMMA CompactedStruct ==
  ASSUME NEW b, StructInv(b), NEW d \in Seq(Item)
  PROVE  LET c == compact(b)
         IN  /\ StructInv(c) /\ c.degraded = b.degraded /\ c.closed = b.closed
             /\ TrailOf(c, d) = TrailOf(b, d)
<1> DEFINE c == compact(b)
<1>1. BrokerOK(b) /\ PendingOK(b) /\ SizeOK(b) /\ LimitOK(b) /\ b \in Struct
  BY DEF StructInv, BrokerOK
<1>2. /\ b.queue \in Seq(QueueEntry) /\ Len(b.queue) \in Nat /\ b.head \in Nat
      /\ b.head <= Len(b.queue) /\ b.pending \in [Keys -> Nat]
  BY <1>1, StructParts
<1>3. CASE b.head = Len(b.queue)
  <2>1. c = [b EXCEPT !.queue = <<>>, !.head = 0]
    BY <1>2, <1>3 DEF compact
  <2> HIDE DEF c
  <2>2. /\ c \in Struct /\ c.queue = <<>> /\ c.head = 0 /\ c.queuedBytes = b.queuedBytes
        /\ c.pending = b.pending /\ c.degraded = b.degraded /\ c.closed = b.closed
    <3> DEFINE nil == <<>>
    <3>1. nil \in Seq(QueueEntry)
      OBVIOUS
    <3>2. c = [b EXCEPT !.queue = nil, !.head = 0]
      BY <2>1
    <3> HIDE DEF nil
    <3>3. /\ c \in Struct /\ c.queue = nil /\ c.head = 0 /\ c.queuedBytes = b.queuedBytes
          /\ c.pending = b.pending /\ c.degraded = b.degraded /\ c.closed = b.closed
      BY <1>1, <3>1, <3>2 DEF Struct
    <3> QED
      BY <3>3 DEF nil
  <2>3. Len(c.queue) = 0
    BY <2>2
  <2>4. BrokerOK(c)
    BY <2>2, <2>3 DEF BrokerOK
  <2>5. PendingOK(c)
    <3>1. ASSUME NEW k \in Keys, b.pending[k] # 0
          PROVE  FALSE
      <4>1. b.pending[k] \in b.head + 1 .. Len(b.queue)
        BY <1>1, <3>1 DEF PendingOK
      <4> QED
        BY <1>2, <1>3, <4>1
    <3> QED
      BY <2>2, <3>1 DEF PendingOK
  <2>6. Len(c.queue) - c.head = Len(b.queue) - b.head
    BY <1>2, <1>3, <2>2, <2>3
  <2>7. \A i \in 1 .. Len(b.queue) - b.head : c.queue[c.head + i] = b.queue[b.head + i]
    <3>1. Len(b.queue) - b.head = 0
      BY <1>2, <1>3
    <3> QED
      BY <3>1
  <2>8. TrailOf(c, d) = TrailOf(b, d) /\ SizeOK(c) /\ LimitOK(c)
    BY <1>1, <2>2, <2>4, <2>6, <2>7, SameQueued
  <2> QED
    BY <2>2, <2>4, <2>5, <2>8 DEF StructInv, c
<1>4. CASE b.head < Len(b.queue) /\ b.head >= CompactAt /\ b.head * 2 >= Len(b.queue)
  <2> DEFINE s == [b EXCEPT !.queue = Queued(b), !.head = 0]
             newest(k) == {i \in AfterBarrier(s) :
                             /\ s.queue[i].event.key = k
                             /\ \A j \in i + 1 .. Len(s.queue) : s.queue[j].event.key # k}
             pend == [k \in Keys |-> IF newest(k) = {} THEN 0
                                     ELSE CHOOSE i \in newest(k) : TRUE]
  <2>1. c = [s EXCEPT !.pending = pend]
    <3>1. b.head # Len(b.queue)
      BY <1>2, <1>4
    <3>2. c = rebuildPending([b EXCEPT !.queue = Queued(b), !.head = 0])
      BY <1>4, <3>1 DEF compact
    <3> QED
      BY <3>2 DEF rebuildPending
  <2>2. /\ Queued(b) \in Seq(QueueEntry) /\ Len(Queued(b)) = Len(b.queue) - b.head
        /\ \A i \in 1 .. Len(b.queue) - b.head : Queued(b)[i] = b.queue[b.head + i]
    BY <1>1, QueuedParts
  <2>3. /\ s \in Struct /\ s.queue = Queued(b) /\ s.head = 0 /\ s.queuedBytes = b.queuedBytes
        /\ s.degraded = b.degraded /\ s.closed = b.closed
    BY <1>1, <2>2 DEF Struct
  <2> HIDE DEF c, s
  <2>4. Len(s.queue) \in Nat
    BY <2>2, <2>3
  <2>5. \A k \in Keys : pend[k] # 0 => pend[k] \in newest(k)
    OBVIOUS
  <2>6. \A k : \A i \in newest(k) :
          /\ i \in 1 .. Len(s.queue) /\ s.queue[i].event.key = k
          /\ \A j \in i .. Len(s.queue) : isDeferrableQueuedEvent(s.queue[j].event)
          /\ \A j \in i + 1 .. Len(s.queue) : s.queue[j].event.key # k
    BY <2>3, <2>4 DEF AfterBarrier
  <2>7. \A k \in Keys : pend[k] # 0 =>
          /\ pend[k] \in 1 .. Len(s.queue) /\ s.queue[pend[k]].event.key = k
          /\ \A j \in pend[k] .. Len(s.queue) : isDeferrableQueuedEvent(s.queue[j].event)
          /\ \A j \in pend[k] + 1 .. Len(s.queue) : s.queue[j].event.key # k
    <3> HIDE DEF newest, pend
    <3> QED
      BY <2>5, <2>6
  <2>8. pend \in [Keys -> Nat]
    <3>1. \A k \in Keys : pend[k] \in Nat
      <4> HIDE DEF newest, pend
      <4> QED
        BY <2>4, <2>7
    <3>2. DOMAIN pend = Keys /\ pend = [k \in Keys |-> pend[k]]
      OBVIOUS
    <3> HIDE DEF newest, pend
    <3> QED
      BY <3>1, <3>2
  <2> HIDE DEF newest, pend
  <2>9. /\ c \in Struct /\ c.queue = Queued(b) /\ c.head = 0 /\ c.queuedBytes = b.queuedBytes
        /\ c.degraded = b.degraded /\ c.closed = b.closed /\ c.pending = pend
    BY <2>1, <2>3, <2>8 DEF Struct
  <2>10. BrokerOK(c)
    BY <2>3, <2>4, <2>9 DEF BrokerOK
  <2>11. PendingOK(c)
    <3>1. 0 + 1 = 1
      OBVIOUS
    <3> QED
      BY <2>3, <2>7, <2>9, <3>1 DEF PendingOK
  <2>12. Len(c.queue) - c.head = Len(b.queue) - b.head
    BY <1>2, <2>2, <2>9
  <2>13. \A i \in 1 .. Len(b.queue) - b.head : c.queue[c.head + i] = b.queue[b.head + i]
    BY <2>2, <2>9
  <2>14. TrailOf(c, d) = TrailOf(b, d) /\ SizeOK(c) /\ LimitOK(c)
    BY <1>1, <2>9, <2>10, <2>12, <2>13, SameQueued
  <2> QED
    BY <2>9, <2>10, <2>11, <2>14 DEF StructInv, c
<1>5. CASE ~(b.head = Len(b.queue)) /\
           ~(b.head < Len(b.queue) /\ b.head >= CompactAt /\ b.head * 2 >= Len(b.queue))
  <2>1. c = b
    BY <1>5 DEF compact
  <2> QED
    BY <2>1
<1> QED
  BY <1>3, <1>4, <1>5

\* Next takes the first entry.
LEMMA TakeStruct ==
  ASSUME NEW b, StructInv(b), b.head < Len(b.queue), NEW d \in Seq(Item)
  PROVE  LET y == materializeQueuedEvent(b.queue[b.head + 1])
             c == Take(b)
         IN  /\ StructInv(c) /\ c.degraded = b.degraded /\ c.closed = b.closed
             /\ y \in Item /\ Append(d, y) \in Seq(Item)
             /\ TrailOf(c, Append(d, y)) = TrailOf(b, d)
<1> DEFINE y == materializeQueuedEvent(b.queue[b.head + 1])
           a == Advanced(b)
           d1 == Append(d, y)
<1>1. /\ StructInv(a) /\ a.degraded = b.degraded /\ a.closed = b.closed
      /\ d1 \in Seq(Item) /\ TrailOf(a, d1) = TrailOf(b, d)
  BY AdvancedStruct
<1>2. y \in Item
  <2>1. b.queue[b.head + 1] \in QueueEntry
    <3>1. BrokerOK(b)
      BY DEF StructInv
    <3>2. b.head + 1 \in 1 .. Len(b.queue)
      <4>1. b.head \in Nat /\ Len(b.queue) \in Nat
        BY <3>1, StructParts
      <4> QED
        BY <4>1
    <3> QED
      BY <3>1, <3>2, StructParts
  <2> QED
    BY <2>1, Materialized
<1>3. Take(b) = compact(a)
  <2>1. b \in Struct
    BY DEF StructInv, BrokerOK
  <2> QED
    BY <2>1 DEF Take, Advanced, Struct
<1> HIDE DEF a, d1
<1>4. /\ StructInv(compact(a)) /\ compact(a).degraded = a.degraded
      /\ compact(a).closed = a.closed /\ TrailOf(compact(a), d1) = TrailOf(a, d1)
  BY <1>1, CompactedStruct
<1> QED
  BY <1>1, <1>2, <1>3, <1>4 DEF d1

-----------------------------------------------------------------------------
(* Consumers, and time. *)

\* A step that leaves the histories alone and the trail as it is.
LEMMA QuietStep ==
  ASSUME BrokerInv, UNCHANGED <<log, delivered, dropped>>, StructInv(broker'),
         TrailOf(broker', delivered) = TrailOf(broker, delivered),
         broker'.degraded = broker.degraded, ConsumersOK', NoLostWakeUp'
  PROVE  BrokerInv'
<1>1. /\ TrailInv(TrailOf(broker, delivered), log, dropped)
      /\ Announced(TrailOf(broker, delivered), log, log, dropped, broker.degraded)
      /\ HistoryOK
  BY DEF BrokerInv
<1>2. TrailOf(broker', delivered') = TrailOf(broker, delivered) /\ log' = log
      /\ dropped' = dropped /\ delivered' = delivered
  OBVIOUS
<1>3. HistoryOK'
  BY <1>1, <1>2 DEF HistoryOK
<1>4. /\ TrailInv(TrailOf(broker', delivered'), log', dropped')
      /\ Announced(TrailOf(broker', delivered'), log', log', dropped', broker'.degraded)
  BY <1>1, <1>2
<1> QED
  BY <1>3, <1>4 DEF BrokerInv, StructInv

LEMMA CloseStep ==
  ASSUME BrokerInv, Close
  PROVE  BrokerInv'
<1> DEFINE q == broker.queue
           r == [i \in DOMAIN q |-> IF i > broker.head THEN [q[i] EXCEPT !.readyAt = 0] ELSE q[i]]
<1>1. BrokerOK(broker) /\ StructInv(broker) /\ broker \in Struct /\ delivered \in Seq(Item)
      /\ ConsumersOK
  BY DEF BrokerInv, StructInv, BrokerOK, HistoryOK
<1>2. /\ q \in Seq(QueueEntry) /\ Len(q) \in Nat /\ DOMAIN q = 1 .. Len(q)
      /\ \A i \in 1 .. Len(q) : q[i] \in QueueEntry
  BY <1>1, StructParts
<1>3. broker' = [broker EXCEPT !.closed = TRUE, !.queue = r]
  BY <1>1 DEF Close, Struct
<1> HIDE DEF q
<1>4. Retimed(q, r)
  <2>1. \A x \in QueueEntry :
          LET y == [x EXCEPT !.readyAt = 0]
          IN  /\ y \in QueueEntry /\ y.event = x.event /\ y.parts = x.parts
              /\ y.size = x.size
    BY BrokerAssumption DEF QueueEntry
  <2>2. \A i \in 1 .. Len(q) :
          /\ r[i] \in QueueEntry /\ r[i].event = q[i].event
          /\ r[i].parts = q[i].parts /\ r[i].size = q[i].size
    BY <1>2, <2>1
  <2>3. r \in [1 .. Len(q) -> QueueEntry]
    BY <1>2, <2>2
  <2> HIDE DEF r
  <2>4. r \in Seq(QueueEntry) /\ Len(r) = Len(q)
    BY <1>2, <2>3
  <2> QED
    BY <2>2, <2>4 DEF Retimed
<1>5. r \in Seq(QueueEntry)
  BY <1>4 DEF Retimed
<1> HIDE DEF r
<1>6. /\ broker' \in Struct /\ broker'.queue = r /\ broker'.head = broker.head
      /\ broker'.queuedBytes = broker.queuedBytes /\ broker'.pending = broker.pending
      /\ broker'.degraded = broker.degraded
  BY <1>1, <1>3, <1>5 DEF Struct
<1>7. StructInv(broker') /\ TrailOf(broker', delivered) = TrailOf(broker, delivered)
  <2>1. PendingOK(broker) /\ SizeOK(broker) /\ LimitOK(broker) /\ Retimed(broker.queue, broker'.queue)
    BY <1>1, <1>4, <1>6 DEF StructInv, q
  <2> QED
    BY <1>1, <1>6, <2>1, RetimedStruct DEF StructInv
<1>8. ConsumersOK' /\ NoLostWakeUp'
  BY <1>1, SignalStep DEF Close
<1>9. UNCHANGED <<log, delivered, dropped>>
  BY DEF Close
<1> QED
  BY <1>6, <1>7, <1>8, <1>9, QuietStep

\* Time passes for the entries and for the timers alike.
LEMMA ElapseStep ==
  ASSUME BrokerInv, Elapse
  PROVE  BrokerInv'
<1>1. /\ BrokerOK(broker) /\ StructInv(broker) /\ broker \in Struct /\ delivered \in Seq(Item)
      /\ ConsumersOK /\ NoLostWakeUp
  BY DEF BrokerInv, StructInv, BrokerOK, HistoryOK
<1>2. MaxPublish \in Nat
  BY BrokerAssumption
<1> DEFINE over(t, n) == IF n <= t THEN 0 ELSE n
           q == broker.queue
<1>3. PICK i \in broker.head + 1 .. Len(broker.queue) :
        LET t == broker.queue[i].readyAt
        IN  /\ t > 0
            /\ broker' = [broker EXCEPT !.queue =
                 [j \in DOMAIN broker.queue |->
                    [broker.queue[j] EXCEPT !.readyAt = over(t, @)]]]
            /\ consumer' = [c \in Consumers |-> [consumer[c] EXCEPT !.until = over(t, @)]]
  BY DEF Elapse
<1> DEFINE t == broker.queue[i].readyAt
           r == [j \in DOMAIN q |-> [q[j] EXCEPT !.readyAt = over(t, q[j].readyAt)]]
<1>4. /\ q \in Seq(QueueEntry) /\ Len(q) \in Nat /\ DOMAIN q = 1 .. Len(q)
      /\ \A j \in 1 .. Len(q) : q[j] \in QueueEntry /\ q[j].readyAt \in 0 .. MaxPublish
      /\ broker.head \in Nat /\ broker.head <= Len(q)
  BY <1>1, StructParts
<1>5. t \in 0 .. MaxPublish
  <2>1. i \in 1 .. Len(q)
    BY <1>4
  <2> QED
    BY <1>4, <2>1
<1>6. broker' = [broker EXCEPT !.queue = r]
  BY <1>3
<1>7. consumer' = [c \in Consumers |-> [consumer[c] EXCEPT !.until = over(t, consumer[c].until)]]
  BY <1>1, <1>3 DEF ConsumersOK
<1>8. /\ \A n \in 0 .. MaxPublish : over(t, n) \in 0 .. MaxPublish
      /\ \A m, n \in 0 .. MaxPublish : m <= n => over(t, m) <= over(t, n)
  BY <1>2, <1>5
<1> HIDE DEF q, t, over
<1>9. \A j \in 1 .. Len(q) :
        /\ r[j] \in QueueEntry /\ r[j].event = q[j].event /\ r[j].parts = q[j].parts
        /\ r[j].size = q[j].size /\ r[j].readyAt = over(t, q[j].readyAt)
  <2>1. \A x \in QueueEntry, n \in 0 .. MaxPublish :
          LET y == [x EXCEPT !.readyAt = n]
          IN  /\ y \in QueueEntry /\ y.event = x.event /\ y.parts = x.parts
              /\ y.size = x.size /\ y.readyAt = n
    BY DEF QueueEntry
  <2> QED
    BY <1>4, <1>8, <2>1, ZenonT(30)
<1>10. Retimed(q, r)
  <2>1. r \in [1 .. Len(q) -> QueueEntry]
    BY <1>4, <1>9
  <2> HIDE DEF r
  <2>2. r \in Seq(QueueEntry) /\ Len(r) = Len(q)
    BY <1>4, <2>1
  <2> QED
    BY <1>9, <2>2 DEF Retimed
<1>11. r \in Seq(QueueEntry) /\ Len(r) = Len(q)
  BY <1>10 DEF Retimed
<1> HIDE DEF r
<1>12. /\ broker' \in Struct /\ broker'.queue = r /\ broker'.head = broker.head
       /\ broker'.queuedBytes = broker.queuedBytes /\ broker'.pending = broker.pending
       /\ broker'.degraded = broker.degraded /\ broker'.closed = broker.closed
  BY <1>1, <1>6, <1>11 DEF Struct
<1>13. StructInv(broker') /\ TrailOf(broker', delivered) = TrailOf(broker, delivered)
  <2>1. PendingOK(broker) /\ SizeOK(broker) /\ LimitOK(broker) /\ Retimed(broker.queue, broker'.queue)
    BY <1>1, <1>10, <1>12 DEF StructInv, q
  <2> QED
    BY <1>1, <1>12, <2>1, RetimedStruct DEF StructInv
<1>14. ASSUME NEW c \in Consumers
       PROVE  /\ consumer'[c] \in [at : {"loop", "timer", "empty", "done"}, until : 0 .. MaxPublish]
              /\ consumer'[c].at = consumer[c].at
              /\ consumer'[c].until = over(t, consumer[c].until)
              /\ consumer[c].until \in 0 .. MaxPublish
  <2>1. consumer[c] \in [at : {"loop", "timer", "empty", "done"}, until : 0 .. MaxPublish]
    BY <1>1 DEF ConsumersOK
  <2>2. over(t, consumer[c].until) \in 0 .. MaxPublish
    BY <1>8, <2>1
  <2> QED
    BY <1>7, <2>1, <2>2
<1>15. ConsumersOK'
  BY <1>7, <1>14 DEF ConsumersOK
<1>16. NoLostWakeUp'
  <2> SUFFICES ASSUME NEW c \in Consumers
               PROVE  /\ consumer'[c].at = "empty" => Empty' /\ ~broker'.closed
                      /\ consumer'[c].at = "timer" /\ ~Empty' =>
                           consumer'[c].until <= HeadEntry'.readyAt
    BY DEF NoLostWakeUp
  <2>1. Empty' <=> Empty
    BY <1>11, <1>12 DEF Empty, q
  <2>2. ~Empty => broker.head + 1 \in 1 .. Len(q)
    BY <1>4 DEF Empty, q
  <2>3. ~Empty => /\ HeadEntry'.readyAt = over(t, HeadEntry.readyAt)
                  /\ HeadEntry.readyAt \in 0 .. MaxPublish
    BY <1>4, <1>9, <1>12, <2>2 DEF HeadEntry, q
  <2>4. /\ consumer[c].at = "empty" => Empty /\ ~broker.closed
        /\ consumer[c].at = "timer" /\ ~Empty => consumer[c].until <= HeadEntry.readyAt
    BY <1>1 DEF NoLostWakeUp
  <2>5. consumer'[c].at = "empty" => Empty' /\ ~broker'.closed
    BY <1>12, <1>14, <2>1, <2>4
  <2>6. consumer'[c].at = "timer" /\ ~Empty' => consumer'[c].until <= HeadEntry'.readyAt
    BY <1>8, <1>14, <2>1, <2>3, <2>4
  <2> QED
    BY <2>5, <2>6
<1>17. UNCHANGED <<log, delivered, dropped>>
  BY DEF Elapse
<1> QED
  BY <1>12, <1>13, <1>15, <1>16, <1>17, QuietStep

LEMMA DeliverStep ==
  ASSUME BrokerInv, NEW c \in Consumers, Deliver(c)
  PROVE  BrokerInv'
<1> DEFINE y == materializeQueuedEvent(HeadEntry)
<1>1. /\ BrokerOK(broker) /\ StructInv(broker) /\ delivered \in Seq(Item)
      /\ log \in Seq(PublishedEvent) /\ Len(log) <= MaxPublish
      /\ dropped \subseteq Drop /\ \A d \in dropped : d.received <= Len(delivered)
      /\ ConsumersOK /\ NoLostWakeUp
      /\ TrailInv(TrailOf(broker, delivered), log, dropped)
      /\ Announced(TrailOf(broker, delivered), log, log, dropped, broker.degraded)
  BY DEF BrokerInv, StructInv, HistoryOK
<1>2. /\ ~Empty /\ HeadEntry.readyAt = 0 /\ delivered' = Append(delivered, y)
      /\ broker' = Take(broker) /\ UNCHANGED <<consumer, log, dropped>>
  BY DEF Deliver
<1>3. broker.head < Len(broker.queue)
  <2>1. broker.head \in Nat /\ Len(broker.queue) \in Nat /\ broker.head <= Len(broker.queue)
    BY <1>1, StructParts
  <2>2. broker.head # Len(broker.queue)
    BY <1>2 DEF Empty
  <2> QED
    BY <2>1, <2>2
<1>4. /\ StructInv(broker') /\ broker'.degraded = broker.degraded
      /\ broker'.closed = broker.closed
      /\ y \in Item /\ delivered' \in Seq(Item)
      /\ TrailOf(broker', delivered') = TrailOf(broker, delivered)
  BY <1>1, <1>2, <1>3, TakeStruct DEF HeadEntry
<1> HIDE DEF y
<1>5. HistoryOK'
  <2>1. Len(delivered') = Len(delivered) + 1 /\ Len(delivered) \in Nat
    BY <1>1, <1>2, <1>4
  <2>2. ASSUME NEW d \in dropped
        PROVE  d.received <= Len(delivered')
    <3>1. d.received \in Nat /\ d.received <= Len(delivered)
      BY <1>1 DEF Drop
    <3> QED
      BY <2>1, <3>1
  <2> QED
    BY <1>1, <1>2, <1>4, <2>2 DEF HistoryOK
<1>6. ConsumersOK'
  BY <1>1, <1>2 DEF ConsumersOK
<1>7. NoLostWakeUp'
  <2> SUFFICES ASSUME NEW b \in Consumers
               PROVE  /\ consumer'[b].at = "empty" => Empty' /\ ~broker'.closed
                      /\ consumer'[b].at = "timer" /\ ~Empty' =>
                           consumer'[b].until <= HeadEntry'.readyAt
    BY DEF NoLostWakeUp
  <2>1. /\ consumer[b].at # "empty"
        /\ consumer[b].at = "timer" => consumer[b].until <= 0
    BY <1>1, <1>2 DEF NoLostWakeUp
  <2>2. consumer[b].until \in Nat
    <3>1. consumer[b].until \in 0 .. MaxPublish
      BY <1>1 DEF ConsumersOK
    <3> QED
      BY <3>1, BrokerAssumption
  <2>3. ~Empty' => HeadEntry'.readyAt \in Nat
    <3>1. BrokerOK(broker')
      BY <1>4 DEF StructInv
    <3>2. /\ broker'.head \in Nat /\ Len(broker'.queue) \in Nat
          /\ broker'.head <= Len(broker'.queue)
          /\ \A i \in 1 .. Len(broker'.queue) : broker'.queue[i].readyAt \in 0 .. MaxPublish
      BY <3>1, StructParts
    <3>3. ~Empty' => broker'.head + 1 \in 1 .. Len(broker'.queue)
      BY <3>2 DEF Empty
    <3> QED
      BY <3>2, <3>3, BrokerAssumption DEF HeadEntry
  <2>4. ~Empty' /\ consumer[b].until <= 0 => consumer[b].until <= HeadEntry'.readyAt
    BY <2>2, <2>3
  <2> QED
    BY <1>2, <2>1, <2>4
<1> QED
  BY <1>1, <1>2, <1>4, <1>5, <1>6, <1>7 DEF BrokerInv, StructInv

\* A consumer moves, and the queue stays as it is.
LEMMA ConsumerMoves ==
  ASSUME BrokerInv, NEW c \in Consumers, NEW at \in {"loop", "timer", "empty", "done"},
         NEW until \in 0 .. MaxPublish, Goto(c, at, until),
         UNCHANGED <<broker, log, delivered, dropped>>,
         at = "empty" => Empty /\ ~broker.closed,
         at = "timer" => ~Empty /\ until = HeadEntry.readyAt
  PROVE  BrokerInv'
<1>1. ConsumersOK /\ NoLostWakeUp /\ StructInv(broker) /\ delivered \in Seq(Item)
  BY DEF BrokerInv, StructInv, HistoryOK
<1>2. consumer' = [consumer EXCEPT ![c] = [at |-> at, until |-> until]]
  BY DEF Goto
<1>3. ConsumersOK'
  BY <1>1, <1>2 DEF ConsumersOK
<1>4. Empty' = Empty /\ HeadEntry' = HeadEntry /\ broker' = broker
  BY DEF Empty, HeadEntry
<1>5. at = "timer" => until <= HeadEntry.readyAt
  <2>1. until \in Nat
    BY BrokerAssumption
  <2> QED
    BY <2>1
<1>6. ASSUME NEW b \in Consumers
      PROVE  /\ consumer'[b].at = "empty" => Empty' /\ ~broker'.closed
             /\ consumer'[b].at = "timer" /\ ~Empty' =>
                  consumer'[b].until <= HeadEntry'.readyAt
  <2>1. CASE b = c
    <3>1. consumer'[b] = [at |-> at, until |-> until]
      BY <1>1, <1>2, <2>1 DEF ConsumersOK
    <3>2. consumer'[b].at = at /\ consumer'[b].until = until
      BY <3>1
    <3> QED
      BY <1>4, <1>5, <3>2
  <2>2. CASE b # c
    <3>1. consumer'[b] = consumer[b]
      BY <1>1, <1>2, <2>2 DEF ConsumersOK
    <3>2. /\ consumer[b].at = "empty" => Empty /\ ~broker.closed
          /\ consumer[b].at = "timer" /\ ~Empty => consumer[b].until <= HeadEntry.readyAt
      BY <1>1 DEF NoLostWakeUp
    <3> QED
      BY <1>4, <3>1, <3>2
  <2> QED
    BY <2>1, <2>2
<1>7. NoLostWakeUp'
  BY <1>6 DEF NoLostWakeUp
<1>8. /\ UNCHANGED <<log, delivered, dropped>> /\ StructInv(broker')
      /\ TrailOf(broker', delivered) = TrailOf(broker, delivered)
      /\ broker'.degraded = broker.degraded
  BY <1>1, <1>4
<1> QED
  BY <1>3, <1>7, <1>8, QuietStep

LEMMA NextEventStep ==
  ASSUME BrokerInv, NEW c \in Consumers, NextEvent(c)
  PROVE  BrokerInv'
<1>1. 0 \in 0 .. MaxPublish
  BY BrokerAssumption
<1>2. CASE Deliver(c)
  BY <1>2, DeliverStep
<1>3. CASE WaitForWindow(c)
  <2>1. /\ ~Empty /\ Goto(c, "timer", HeadEntry.readyAt)
        /\ UNCHANGED <<broker, log, delivered, dropped>>
    BY <1>3 DEF WaitForWindow
  <2>2. HeadEntry.readyAt \in 0 .. MaxPublish
    <3>1. BrokerOK(broker)
      BY DEF BrokerInv
    <3>2. /\ broker.head \in Nat /\ Len(broker.queue) \in Nat
          /\ broker.head <= Len(broker.queue)
          /\ \A i \in 1 .. Len(broker.queue) : broker.queue[i].readyAt \in 0 .. MaxPublish
      BY <3>1, StructParts
    <3>3. broker.head + 1 \in 1 .. Len(broker.queue)
      BY <2>1, <3>2 DEF Empty
    <3> QED
      BY <3>2, <3>3 DEF HeadEntry
  <2> QED
    BY <2>1, <2>2, ConsumerMoves
<1>4. CASE TimerFires(c)
  <2>1. Goto(c, "loop", 0) /\ UNCHANGED <<broker, log, delivered, dropped>>
    BY <1>4 DEF TimerFires
  <2> QED
    BY <1>1, <2>1, ConsumerMoves
<1>5. CASE WaitForEvent(c)
  <2>1. /\ Goto(c, "empty", 0) /\ UNCHANGED <<broker, log, delivered, dropped>>
        /\ Empty /\ ~broker.closed
    BY <1>5 DEF WaitForEvent
  <2> QED
    BY <1>1, <2>1, ConsumerMoves
<1>6. CASE EndOfEvents(c)
  <2>1. Goto(c, "done", 0) /\ UNCHANGED <<broker, log, delivered, dropped>>
    BY <1>6 DEF EndOfEvents
  <2> QED
    BY <1>1, <2>1, ConsumerMoves
<1> QED
  BY <1>2, <1>3, <1>4, <1>5, <1>6 DEF NextEvent

\* The queue is empty at first.
LEMMA InitInv ==
  ASSUME Init
  PROVE  BrokerInv
<1> DEFINE nil == <<>>
<1>1. /\ broker = [queue |-> nil, head |-> 0, queuedBytes |-> 0, closed |-> FALSE,
                   pending |-> NoPending, degraded |-> [r \in RunKeys |-> FALSE]]
      /\ consumer = [c \in Consumers |-> [at |-> "loop", until |-> 0]]
      /\ log = nil /\ delivered = nil /\ dropped = {}
  BY DEF Init
<1>2. /\ nil \in Seq(QueueEntry) /\ nil \in Seq(PublishedEvent) /\ nil \in Seq(Item)
      /\ Len(nil) = 0 /\ DOMAIN nil = {}
  OBVIOUS
<1>3. MaxPublish \in Nat /\ 0 \in 0 .. MaxPublish /\ MaxBytes \in Nat /\ MaxEvents \in Nat
  BY BrokerAssumption
<1> HIDE DEF nil
<1>4. NoPending \in [Keys -> Nat] /\ \A k \in Keys : NoPending[k] = 0
  BY DEF NoPending
<1>5. /\ broker \in Struct /\ broker.queue = nil /\ broker.head = 0 /\ broker.queuedBytes = 0
      /\ broker.pending = NoPending
  BY <1>1, <1>2, <1>4 DEF Struct
<1>6. BrokerOK(broker)
  BY <1>2, <1>5 DEF BrokerOK
<1>7. PendingOK(broker)
  BY <1>4, <1>5 DEF PendingOK
<1>8. SizeOK(broker)
  <2> DEFINE p == Queued(broker)
  <2>1. p \in Seq(QueueEntry) /\ Len(p) = 0
    <3>1. Len(broker.queue) - broker.head = 0
      BY <1>2, <1>5
    <3> QED
      BY <1>6, <3>1, QueuedParts
  <2> HIDE DEF p
  <2>2. p = <<>>
    BY <2>1
  <2> QED
    BY <1>5, <2>2, SumEmpty DEF SizeOK, p
<1>9. LimitOK(broker)
  <2>1. broker.head + 1 .. Len(broker.queue) = {}
    BY <1>2, <1>5
  <2> QED
    BY <2>1 DEF LimitOK
<1>10. HistoryOK
  BY <1>1, <1>2, <1>3 DEF HistoryOK
<1>11. ConsumersOK /\ NoLostWakeUp
  <2>1. \A c \in Consumers : consumer[c] = [at |-> "loop", until |-> 0]
    BY <1>1
  <2> QED
    BY <1>1, <1>3, <2>1 DEF ConsumersOK, NoLostWakeUp
<1>12. TrailInv(TrailOf(broker, delivered), log, dropped)
  <2> DEFINE T == TrailOf(broker, delivered)
  <2>1. T \in Seq(Item) /\ DOMAIN T = {}
    <3>1. Len(delivered) + (Len(broker.queue) - broker.head) = 0 /\ delivered \in Seq(Item)
      BY <1>1, <1>2, <1>5
    <3>2. T \in Seq(Item) /\ DOMAIN T = 1 .. 0
      BY <1>6, <3>1, TrailParts
    <3> QED
      BY <3>2
  <2> HIDE DEF T
  <2>2. DOMAIN log = {} /\ dropped = {}
    BY <1>1, <1>2
  <2>3. TrailInv(T, log, dropped)
    BY <2>1, <2>2 DEF TrailInv, Honest, Ordered, Kept, Lost, Shown
  <2> QED
    BY <2>3 DEF T
<1>13. Announced(TrailOf(broker, delivered), log, log, dropped, broker.degraded)
  BY <1>1 DEF Announced, ToldOrMarked, FirstTold
<1> QED
  BY <1>6, <1>7, <1>8, <1>9, <1>10, <1>11, <1>12, <1>13 DEF BrokerInv

-----------------------------------------------------------------------------
(* The theorems. *)

LEMMA NextInv ==
  ASSUME BrokerInv, [Next]_vars
  PROVE  BrokerInv'
<1>1. CASE Publish
  BY <1>1, PublishStep
<1>2. CASE Close
  BY <1>2, CloseStep
<1>3. CASE Elapse
  BY <1>3, ElapseStep
<1>4. ASSUME NEW c \in Consumers, NextEvent(c)
      PROVE  BrokerInv'
  BY <1>4, NextEventStep
<1>5. CASE UNCHANGED vars
  <2>1. /\ broker' = broker /\ consumer' = consumer /\ log' = log
        /\ delivered' = delivered /\ dropped' = dropped
    BY <1>5 DEF vars
  <2>2. HistoryOK' /\ ConsumersOK'
    BY <2>1 DEF BrokerInv, HistoryOK, ConsumersOK
  <2>3. NoLostWakeUp'
    BY <2>1 DEF BrokerInv, NoLostWakeUp, Empty, HeadEntry
  <2> QED
    BY <2>1, <2>2, <2>3 DEF BrokerInv
<1> QED
  BY <1>1, <1>2, <1>3, <1>4, <1>5 DEF Next

\* The struct and its trail stay well-formed, pending names what may still be joined,
\* queuedBytes is the size of what is queued, and the trail holds every publication
\* that was not replaced or dropped.
THEOREM BrokerInvariant ==
  Spec => []BrokerInv
<1>1. Init => BrokerInv
  BY InitInv
<1>2. BrokerInv /\ [Next]_vars => BrokerInv'
  BY NextInv
<1> QED
  BY <1>1, <1>2, PTL DEF Spec

\* What the consumer has received, and is still going to receive, is the trail.
LEMMA TrailIs ==
  ASSUME BrokerInv
  PROVE  Trail = TrailOf(broker, delivered)
<1> DEFINE T == TrailOf(broker, delivered)
           q == Queued(broker)
           s == [i \in DOMAIN q |-> materializeQueuedEvent(q[i])]
           l == Len(delivered)
           len == Len(broker.queue) - broker.head
<1>1. BrokerOK(broker) /\ delivered \in Seq(Item)
  BY DEF BrokerInv, HistoryOK
<1>2. /\ Len(broker.queue) \in Nat /\ broker.head \in Nat /\ broker.head <= Len(broker.queue)
  BY <1>1, StructParts
<1>3. /\ q \in Seq(QueueEntry) /\ Len(q) = len
      /\ \A i \in 1 .. len : q[i] = broker.queue[broker.head + i]
  BY <1>1, QueuedParts
<1>4. len \in Nat /\ l \in Nat
  BY <1>1, <1>2
<1>5. /\ T \in Seq(Item) /\ Len(T) = l + len
      /\ \A i \in 1 .. l : T[i] = delivered[i]
      /\ \A j \in l + 1 .. Len(T) :
           T[j] = ItemAt(broker.queue, broker.head + (j - l))
  BY <1>1, TrailParts
<1>6. Trail = delivered \o s
  BY DEF Trail
<1> HIDE DEF T, q, l, len
<1>7. \A i \in 1 .. len : s[i] \in Item /\ s[i] = ItemAt(broker.queue, broker.head + i)
  <2>1. ASSUME NEW i \in 1 .. len
        PROVE  s[i] \in Item /\ s[i] = ItemAt(broker.queue, broker.head + i)
    <3>1. q[i] \in QueueEntry /\ i \in DOMAIN q
      BY <1>3, <1>4
    <3>2. s[i] = materializeQueuedEvent(q[i])
      BY <3>1
    <3>3. q[i] = broker.queue[broker.head + i]
      BY <1>3
    <3> HIDE DEF s
    <3> QED
      BY <3>1, <3>2, <3>3, Materialized DEF ItemAt
  <2> QED
    BY <2>1
<1>8. s \in Seq(Item) /\ Len(s) = len
  <2>1. DOMAIN q = 1 .. len
    BY <1>3, <1>4
  <2>2. s \in [1 .. len -> Item]
    BY <1>7, <2>1
  <2> HIDE DEF s
  <2> QED
    BY <1>4, <2>2
<1> HIDE DEF s
<1> DEFINE U == delivered \o s
<1>9. /\ U \in Seq(Item) /\ Len(U) = l + len
      /\ \A i \in 1 .. l : U[i] = delivered[i]
      /\ \A k \in 1 .. len : U[l + k] = s[k]
  BY <1>1, <1>4, <1>8 DEF l
<1> HIDE DEF U
<1>10. ASSUME NEW i \in 1 .. l + len
       PROVE  T[i] = U[i]
  <2>1. CASE i \in 1 .. l
    BY <1>5, <1>9, <2>1
  <2>2. CASE i \notin 1 .. l
    <3>1. i \in l + 1 .. Len(T) /\ i - l \in 1 .. len /\ l + (i - l) = i
      BY <1>4, <1>5, <2>2
    <3> QED
      BY <1>5, <1>7, <1>9, <3>1
  <2> QED
    BY <2>1, <2>2
<1>11. T = U
  BY <1>4, <1>5, <1>9, <1>10
<1> QED
  BY <1>6, <1>11 DEF T, U

\* Every field of the struct, and of the threads in Next, keeps its type.
LEMMA TypeHolds ==
  ASSUME BrokerInv
  PROVE  TypeOK
<1>1. /\ BrokerOK(broker) /\ HistoryOK /\ ConsumersOK /\ PendingOK(broker) /\ SizeOK(broker)
  BY DEF BrokerInv
<1>2. /\ broker.queue \in Seq(QueueEntry) /\ Len(broker.queue) \in Nat
      /\ broker.head \in Nat /\ broker.head <= Len(broker.queue)
      /\ broker.closed \in BOOLEAN /\ broker.pending \in [Keys -> Nat]
      /\ broker.degraded \in [RunKeys -> BOOLEAN]
  BY <1>1, StructParts
<1>3. Queueable \subseteq Event
  BY EventFacts
<1>4. PublishedEvent \subseteq Event
  BY <1>3 DEF Queueable
<1>5. broker.queue \in Seq(Entry)
  <2>1. QueueEntry \subseteq Entry
    BY <1>3 DEF QueueEntry, Entry
  <2> QED
    BY <1>2, <2>1
<1>6. broker.queuedBytes \in Nat
  <2>1. Queued(broker) \in Seq(QueueEntry)
    BY <1>1, QueuedParts
  <2> QED
    BY <1>1, <2>1, FragmentsFinite DEF SizeOK
<1>7. broker.pending \in [Keys -> 0 .. Len(broker.queue)]
  <2>1. ASSUME NEW k \in Keys
        PROVE  broker.pending[k] \in 0 .. Len(broker.queue)
    <3>1. broker.pending[k] # 0 => broker.pending[k] \in broker.head + 1 .. Len(broker.queue)
      BY <1>1 DEF PendingOK
    <3>2. broker.pending[k] \in Nat
      BY <1>2
    <3> QED
      BY <1>2, <3>1, <3>2
  <2> QED
    BY <1>2, <2>1
<1>8. log \in Seq(Event)
  BY <1>1, <1>4 DEF HistoryOK
<1>9. delivered \in Seq([event : Event, parts : Seq(1 .. MaxPublish)])
  <2> DEFINE R == [event : Event, parts : Seq(1 .. MaxPublish)]
             I == Item
  <2>1. I \subseteq R
    BY <1>3 DEF Item
  <2>2. delivered \in Seq(I)
    BY <1>1 DEF HistoryOK
  <2> HIDE DEF R, I
  <2>3. delivered \in Seq(R)
    BY <2>1, <2>2
  <2> QED
    BY <2>3 DEF R
<1>10. dropped \subseteq [id : 1 .. MaxPublish, by : 1 .. MaxPublish,
                          received : 0 .. Len(delivered)]
  <2>1. Len(delivered) \in Nat
    BY <1>1 DEF HistoryOK
  <2>2. ASSUME NEW x \in dropped
        PROVE  x \in [id : 1 .. MaxPublish, by : 1 .. MaxPublish, received : 0 .. Len(delivered)]
    <3>1. x \in Drop /\ x.received <= Len(delivered)
      BY <1>1 DEF HistoryOK
    <3>2. x.received \in Nat
      BY <3>1 DEF Drop
    <3>3. x.received \in 0 .. Len(delivered)
      BY <2>1, <3>1, <3>2
    <3> QED
      BY <3>1, <3>3 DEF Drop
  <2> QED
    BY <2>2
<1>11. broker.head \in 0 .. Len(broker.queue)
  BY <1>2
<1> QED
  BY <1>1, <1>2, <1>5, <1>6, <1>7, <1>8, <1>9, <1>10, <1>11 DEF TypeOK, ConsumersOK

\* Type correctness of the event broker.
THEOREM BrokerTyped ==
  Spec => []TypeOK
<1>1. BrokerInv => TypeOK
  BY TypeHolds
<1> QED
  BY <1>1, BrokerInvariant, PTL

-----------------------------------------------------------------------------
(* What the invariant says of the trail. *)

\* An item that is no request holds its publications, and only those.
LEMMA ItemOfTrail ==
  ASSUME NEW T \in Seq(Item), NEW lg \in Seq(PublishedEvent), NEW dr, TrailInv(T, lg, dr),
         NEW i \in DOMAIN T, T[i].event.kind # "resync"
  PROVE  /\ HonestItem(T[i], lg) /\ Len(T[i].parts) \in Nat \ {0}
         /\ DOMAIN T[i].parts = 1 .. Len(T[i].parts)
         /\ T[i].event \in PublishedEvent
         /\ \A m \in DOMAIN T[i].parts : T[i].parts[m] \in DOMAIN lg
         /\ T[i].event.kind # "delta" =>
              /\ T[i].parts = <<T[i].parts[1]>> /\ T[i].parts[1] \in DOMAIN lg
              /\ lg[T[i].parts[1]] = T[i].event
              /\ T[i] = [event |-> lg[T[i].parts[1]], parts |-> <<T[i].parts[1]>>]
<1>1. HonestItem(T[i], lg)
  BY DEF TrailInv, Honest
<1> DEFINE x == T[i]
           s == x.parts
<1>2. /\ x.event \in Queueable /\ s \in Seq(1 .. MaxPublish)
      /\ x = [event |-> x.event, parts |-> s]
      /\ Len(s) \in Nat /\ DOMAIN s = 1 .. Len(s)
  BY TrailItem
<1>3. x.event \in PublishedEvent
  BY <1>2, EventFacts
<1>4. Len(s) > 0 /\ (x.event.kind # "delta" => Len(s) = 1)
      /\ \A m \in DOMAIN s : s[m] \in DOMAIN lg /\ lg[s[m]] = x.event
  BY <1>1 DEF HonestItem
<1> HIDE DEF s
<1>5. Len(s) \in Nat \ {0}
  BY <1>2, <1>4
<1>6. ASSUME x.event.kind # "delta"
      PROVE  /\ s = <<s[1]>> /\ s[1] \in DOMAIN lg /\ lg[s[1]] = x.event
             /\ x = [event |-> lg[s[1]], parts |-> <<s[1]>>]
  <2>1. Len(s) = 1 /\ 1 \in DOMAIN s
    BY <1>2, <1>4, <1>6
  <2>2. s = <<s[1]>>
    BY <1>2, <2>1
  <2>3. s[1] \in DOMAIN lg /\ lg[s[1]] = x.event
    BY <1>4, <2>1
  <2> HIDE DEF x
  <2> QED
    BY <1>2, <2>2, <2>3
<1> QED
  BY <1>1, <1>2, <1>3, <1>4, <1>5, <1>6 DEF s

\* An item of one publication holds it.
LEMMA HoldsAlone ==
  ASSUME NEW T \in Seq(Item), NEW lg \in Seq(PublishedEvent), NEW dr, TrailInv(T, lg, dr),
         NEW i \in DOMAIN T, NEW p, Holds(T[i], p)
  PROVE  /\ p \in DOMAIN lg /\ lg[p] = T[i].event
         /\ lg[p].kind # "delta" => /\ T[i] = [event |-> lg[p], parts |-> <<p>>]
                                    /\ T[i].parts[1] = p
<1>1. T[i].event.kind # "resync"
  BY DEF Holds
<1>2. PICK m \in DOMAIN T[i].parts : T[i].parts[m] = p
  BY DEF Holds
<1>3. p \in DOMAIN lg /\ lg[p] = T[i].event
  BY <1>1, <1>2, ItemOfTrail DEF HonestItem
<1>4. ASSUME lg[p].kind # "delta"
      PROVE  T[i] = [event |-> lg[p], parts |-> <<p>>] /\ T[i].parts[1] = p
  <2>1. T[i].event.kind # "delta"
    BY <1>3, <1>4
  <2>2. Len(T[i].parts) = 1 /\ DOMAIN T[i].parts = 1 .. Len(T[i].parts)
    BY <1>1, <2>1, ItemOfTrail DEF HonestItem
  <2>3. m = 1
    BY <2>2
  <2>4. T[i] = [event |-> lg[T[i].parts[1]], parts |-> <<T[i].parts[1]>>]
    BY <1>1, <2>1, ItemOfTrail
  <2> QED
    BY <1>2, <2>3, <2>4
<1> QED
  BY <1>3, <1>4

\* Lifecycle events are none of the other sorts.
LEMMA LifecycleSort ==
  ASSUME NEW e \in Queueable, IsLifecycle(e)
  PROVE  e.kind # "delta" /\ e.kind # "resync" /\ ~isReplaceableEvent(e)
  BY DEF IsLifecycle, isDeferrableQueuedEvent, isCoalescibleEvent

LEMMA LosslessHolds ==
  ASSUME BrokerInv
  PROVE  LifecycleLossless
<1> DEFINE T == TrailOf(broker, delivered)
           kept == {i \in DOMAIN T : IsLifecycle(T[i].event)}
           sent == {p \in DOMAIN log : IsLifecycle(log[p])}
<1>1. /\ TrailInv(T, log, dropped) /\ log \in Seq(PublishedEvent)
      /\ BrokerOK(broker) /\ delivered \in Seq(Item)
  BY DEF BrokerInv, HistoryOK
<1>2. T \in Seq(Item)
  BY <1>1, TrailParts
<1>3. Trail = T
  BY TrailIs
<1> HIDE DEF T
<1>4. \A p \in DOMAIN log : log[p] \in PublishedEvent /\ log[p] \in Queueable
  BY <1>1, EventSorts
<1>5. ASSUME NEW p \in sent
      PROVE  \E i \in kept : T[i] = [event |-> log[p], parts |-> <<p>>]
  <2>1. log[p].kind # "delta" /\ ~isReplaceableEvent(log[p])
    BY <1>4, LifecycleSort
  <2>2. PICK i \in DOMAIN T : Holds(T[i], p)
    BY <1>1, <2>1 DEF TrailInv, Kept
  <2>3. T[i] = [event |-> log[p], parts |-> <<p>>] /\ log[p] = T[i].event
    BY <1>1, <1>2, <2>1, <2>2, HoldsAlone
  <2> QED
    BY <2>3
<1>6. ASSUME NEW i \in kept
      PROVE  /\ \E p \in sent : T[i] = [event |-> log[p], parts |-> <<p>>]
             /\ T[i].event.kind # "resync" /\ 1 \in DOMAIN T[i].parts
  <2>1. T[i].event \in Queueable
    BY <1>2, TrailItem
  <2>2. T[i].event.kind # "delta" /\ T[i].event.kind # "resync"
    BY <2>1, LifecycleSort
  <2> DEFINE p == T[i].parts[1]
  <2>3. /\ p \in DOMAIN log /\ log[p] = T[i].event
        /\ T[i] = [event |-> log[p], parts |-> <<p>>]
        /\ Len(T[i].parts) \in Nat \ {0} /\ DOMAIN T[i].parts = 1 .. Len(T[i].parts)
    BY <1>1, <1>2, <2>2, ItemOfTrail
  <2>4. 1 \in DOMAIN T[i].parts
    BY <2>3
  <2>5. p \in sent
    BY <2>3
  <2> HIDE DEF p
  <2> QED
    BY <2>2, <2>3, <2>4, <2>5
<1>7. ASSUME NEW i \in kept, NEW j \in kept, i < j
      PROVE  T[i].parts[1] < T[j].parts[1]
  <2>1. Related(T[i], T[j])
    BY <1>6 DEF Related
  <2>2. Before(T[i], T[j])
    BY <1>1, <1>7, <2>1 DEF TrailInv, Ordered
  <2> QED
    BY <1>6, <2>2 DEF Before
<1> QED
  BY <1>3, <1>5, <1>6, <1>7 DEF LifecycleLossless

\* Lifecycle events are lossless and ordered, whatever is coalesced or dropped.
THEOREM Lossless ==
  Spec => []LifecycleLossless
<1>1. BrokerInv => LifecycleLossless
  BY LosslessHolds
<1> QED
  BY <1>1, BrokerInvariant, PTL

LEMMA BarriersHold ==
  ASSUME BrokerInv
  PROVE  BarriersSeparate
<1> DEFINE T == TrailOf(broker, delivered)
<1>1. TrailInv(T, log, dropped)
  BY DEF BrokerInv
<1>2. Trail = T
  BY TrailIs
<1> HIDE DEF T
<1>3. ASSUME NEW i \in DOMAIN T, NEW j \in DOMAIN T, T[i].event.kind # "resync",
             T[j].event.kind # "resync", i < j,
             IsLifecycle(T[i].event) \/ IsLifecycle(T[j].event)
      PROVE  Before(T[i], T[j])
  <2>1. Related(T[i], T[j])
    BY <1>3 DEF Related
  <2> QED
    BY <1>1, <1>3, <2>1 DEF TrailInv, Ordered
<1> QED
  BY <1>2, <1>3 DEF BarriersSeparate, Before

\* Nothing crosses a lifecycle event.
THEOREM Barriers ==
  Spec => []BarriersSeparate
<1>1. BrokerInv => BarriersSeparate
  BY BarriersHold
<1> QED
  BY <1>1, BrokerInvariant, PTL

LEMMA DeltasHold ==
  ASSUME BrokerInv
  PROVE  DeltasExactlyOnce
<1> DEFINE T == TrailOf(broker, delivered)
<1>1. /\ TrailInv(T, log, dropped) /\ log \in Seq(PublishedEvent)
      /\ BrokerOK(broker) /\ delivered \in Seq(Item)
  BY DEF BrokerInv, HistoryOK
<1>2. T \in Seq(Item)
  BY <1>1, TrailParts
<1>3. Trail = T
  BY TrailIs
<1> HIDE DEF T
<1>4. Streams \cap Agents = {} /\ Streams \subseteq Keys
  BY BrokerAssumption DEF Keys
<1>5. \A e \in Queueable : e.key \in Streams => e.kind = "delta"
  BY <1>4, EventFacts
<1>6. ASSUME NEW s \in Streams
      PROVE  LET of == {i \in DOMAIN T : T[i].event.key = s}
                 parts(i) == {T[i].parts[m] : m \in DOMAIN T[i].parts}
                 seen == UNION {parts(i) : i \in of}
                 lost == {d.id : d \in dropped} \cap PublishedFor(s)
             IN  /\ \A i \in of : \A m, n \in DOMAIN T[i].parts :
                      m < n => T[i].parts[m] < T[i].parts[n]
                 /\ \A i, j \in of : i < j => \A p \in parts(i), q \in parts(j) : p < q
                 /\ seen \cap lost = {}
                 /\ seen \cup lost = PublishedFor(s)
  <2> DEFINE of == {i \in DOMAIN T : T[i].event.key = s}
             parts(i) == {T[i].parts[m] : m \in DOMAIN T[i].parts}
             seen == UNION {parts(i) : i \in of}
             lost == {d.id : d \in dropped} \cap PublishedFor(s)
  <2>1. ASSUME NEW i \in of
        PROVE  T[i].event.kind = "delta" /\ HonestItem(T[i], log)
    <3>1. T[i].event \in Queueable
      BY <1>2, TrailItem
    <3>2. T[i].event.kind = "delta"
      BY <1>5, <3>1
    <3> QED
      BY <1>1, <3>2 DEF TrailInv, Honest
  <2>2. \A i \in of : \A m, n \in DOMAIN T[i].parts : m < n => T[i].parts[m] < T[i].parts[n]
    BY <2>1 DEF HonestItem
  <2>3. ASSUME NEW i \in of, NEW j \in of, i < j
        PROVE  \A p \in parts(i), q \in parts(j) : p < q
    <3>1. Related(T[i], T[j])
      BY <2>1 DEF Related
    <3>2. Before(T[i], T[j])
      BY <1>1, <2>3, <3>1 DEF TrailInv, Ordered
    <3> QED
      BY <3>2 DEF Before
  <2>4. \A p : p \in seen <=> \E i \in of : Holds(T[i], p)
    <3>1. \A p : p \in seen <=> \E i \in of : \E m \in DOMAIN T[i].parts : T[i].parts[m] = p
      OBVIOUS
    <3>2. \A i \in of : T[i].event.kind # "resync"
      BY <2>1
    <3> HIDE DEF seen, of
    <3> QED
      BY <3>1, <3>2 DEF Holds
  <2> HIDE DEF seen
  <2>5. seen \cap lost = {}
    <3> SUFFICES ASSUME NEW d \in dropped, d.id \in seen
                 PROVE  FALSE
      OBVIOUS
    <3>1. \E i \in DOMAIN T : Holds(T[i], d.id)
      BY <2>4
    <3> QED
      BY <1>1, <3>1 DEF TrailInv, Lost
  <2>6. ASSUME NEW p \in seen
        PROVE  p \in PublishedFor(s)
    <3>1. PICK i \in of : Holds(T[i], p)
      BY <2>4
    <3>2. p \in DOMAIN log /\ log[p] = T[i].event
      BY <1>1, <1>2, <3>1, HoldsAlone
    <3> QED
      BY <3>1, <3>2 DEF PublishedFor
  <2>7. ASSUME NEW p \in PublishedFor(s)
        PROVE  p \in seen \/ \E d \in dropped : d.id = p
    <3>1. p \in DOMAIN log /\ log[p].key = s
      BY DEF PublishedFor
    <3>2. log[p] \in Queueable
      BY <1>1, <3>1, EventSorts
    <3>3. log[p].kind = "delta"
      BY <1>5, <3>1, <3>2
    <3>4. ~isReplaceableEvent(log[p])
      BY <3>3 DEF isReplaceableEvent
    <3>5. CASE \E i \in DOMAIN T : Holds(T[i], p)
      <4>1. PICK i \in DOMAIN T : Holds(T[i], p)
        BY <3>5
      <4>2. log[p] = T[i].event
        BY <1>1, <1>2, <4>1, HoldsAlone
      <4>3. i \in of
        BY <3>1, <4>2
      <4> QED
        BY <2>4, <4>1, <4>3
    <3>6. CASE \E d \in dropped : d.id = p
      BY <3>6
    <3> QED
      BY <1>1, <3>1, <3>4, <3>5, <3>6 DEF TrailInv, Kept
  <2>8. seen \cup lost = PublishedFor(s)
    BY <2>6, <2>7
  <2> QED
    BY <2>2, <2>3, <2>5, <2>8 DEF seen
<1> QED
  BY <1>3, <1>6, SMTT(30) DEF DeltasExactlyOnce

\* Every delta is delivered once, in its stream's order and under its name, or dropped.
THEOREM DeltasOnce ==
  Spec => []DeltasExactlyOnce
<1>1. BrokerInv => DeltasExactlyOnce
  BY DeltasHold
<1> QED
  BY <1>1, BrokerInvariant, PTL

LEMMA TransitionsHold ==
  ASSUME BrokerInv
  PROVE  AgentTransitionsKept
<1> DEFINE T == TrailOf(broker, delivered)
<1>1. /\ TrailInv(T, log, dropped) /\ log \in Seq(PublishedEvent)
      /\ BrokerOK(broker) /\ delivered \in Seq(Item)
  BY DEF BrokerInv, HistoryOK
<1>2. T \in Seq(Item)
  BY <1>1, TrailParts
<1>3. Trail = T
  BY TrailIs
<1> HIDE DEF T
<1>4. Streams \cap Agents = {} /\ Agents \subseteq Keys
  BY BrokerAssumption DEF Keys
<1>5. \A e \in Queueable : e.key \in Agents => e.kind = "agent"
  BY <1>4, EventFacts
<1>6. ASSUME NEW a \in Agents
      PROVE  LET of == {i \in DOMAIN T : T[i].event.key = a}
                 holds(i, p) == T[i] = [event |-> log[p], parts |-> <<p>>]
             IN  /\ \A i \in of : \E p \in PublishedFor(a) : holds(i, p)
                 /\ \A i, j \in of : i < j => T[i].parts[1] < T[j].parts[1]
                 /\ \A p \in PublishedFor(a) : \E i \in of, q \in PublishedFor(a) :
                      p <= q /\ holds(i, q) /\ Steady(a, p, q)
  <2> DEFINE of == {i \in DOMAIN T : T[i].event.key = a}
  <2>1. ASSUME NEW i \in of
        PROVE  /\ T[i].event.kind = "agent" /\ 1 \in DOMAIN T[i].parts
               /\ \E p \in PublishedFor(a) : T[i] = [event |-> log[p], parts |-> <<p>>]
    <3>1. T[i].event \in Queueable
      BY <1>2, TrailItem
    <3>2. T[i].event.kind = "agent"
      BY <1>5, <3>1
    <3> DEFINE p == T[i].parts[1]
    <3>3. /\ p \in DOMAIN log /\ log[p] = T[i].event
          /\ T[i] = [event |-> log[p], parts |-> <<p>>]
          /\ Len(T[i].parts) \in Nat \ {0} /\ DOMAIN T[i].parts = 1 .. Len(T[i].parts)
      BY <1>1, <1>2, <3>2, ItemOfTrail
    <3>4. 1 \in DOMAIN T[i].parts
      BY <3>3
    <3>5. p \in PublishedFor(a)
      BY <3>3 DEF PublishedFor
    <3> HIDE DEF p
    <3> QED
      BY <3>2, <3>3, <3>4, <3>5
  <2>2. ASSUME NEW i \in of, NEW j \in of, i < j
        PROVE  T[i].parts[1] < T[j].parts[1]
    <3>1. Related(T[i], T[j])
      BY <2>1 DEF Related
    <3>2. Before(T[i], T[j])
      BY <1>1, <2>2, <3>1 DEF TrailInv, Ordered
    <3> QED
      BY <2>1, <3>2 DEF Before
  <2>3. ASSUME NEW p \in PublishedFor(a)
        PROVE  \E i \in of, q \in PublishedFor(a) :
                 p <= q /\ T[i] = [event |-> log[q], parts |-> <<q>>] /\ Steady(a, p, q)
    <3>1. p \in DOMAIN log /\ log[p].key = a
      BY DEF PublishedFor
    <3>2. log[p] \in Queueable
      BY <1>1, <3>1, EventSorts
    <3>3. log[p].kind = "agent"
      BY <1>5, <3>1, <3>2
    <3>4. PICK i \in DOMAIN T, q \in DOMAIN log :
            p <= q /\ Holds(T[i], q) /\ log[q].key = log[p].key /\ Same(log, p, q)
      BY <1>1, <3>1, <3>3 DEF TrailInv, Shown
    <3>5. log[q] \in Queueable /\ log[q].key = a /\ q \in PublishedFor(a)
      BY <1>1, <3>1, <3>4, EventSorts DEF PublishedFor
    <3>6. log[q].kind # "delta"
      BY <1>5, <3>5
    <3>7. log[q] = T[i].event /\ T[i] = [event |-> log[q], parts |-> <<q>>]
      BY <1>1, <1>2, <3>4, <3>6, HoldsAlone
    <3>8. i \in of
      BY <3>5, <3>7
    <3>9. Steady(a, p, q)
      <4>1. DOMAIN log \subseteq Nat
        BY <1>1
      <4> QED
        BY <3>1, <3>4, <4>1 DEF Steady, PublishedFor, Same
    <3> QED
      BY <3>4, <3>5, <3>7, <3>8, <3>9
  <2> QED
    BY <2>1, <2>2, <2>3
<1> QED
  BY <1>3, <1>6 DEF AgentTransitionsKept

\* A subagent's transitions are never dropped nor reordered.
THEOREM TransitionsKept ==
  Spec => []AgentTransitionsKept
<1>1. BrokerInv => AgentTransitionsKept
  BY TransitionsHold
<1> QED
  BY <1>1, BrokerInvariant, PTL

LEMMA AnnouncedHolds ==
  ASSUME BrokerInv
  PROVE  DropsAnnounced
<1> DEFINE T == TrailOf(broker, delivered)
<1>1. ToldOrMarked(T, log, log, dropped, broker.degraded)
      /\ FirstTold(T, log, dropped, broker.degraded)
  BY DEF BrokerInv, Announced
<1>2. Trail = T
  BY TrailIs
<1> HIDE DEF T
<1>3. \A r, d : ResyncAfter(r, d) <=> Told(T, r, d)
  BY <1>2 DEF ResyncAfter, Told
<1>4. \A d, e : EndedSince(d, e) <=> \E i \in d.by .. Len(log) : log[i] = e
  BY DEF EndedSince
<1>5. \A r \in RunKeys \ Sessionless : \A d \in DropsOf(r) :
        \E e \in DropsOf(r) : e.by <= d.by /\ ResyncAfter(r, e)
  BY <1>1, <1>3 DEF DropsOf, FirstTold
<1>6. \A r \in Runs \ Sessionless : \A d \in DropsOf(r) :
        ResyncAfter(r, d) \/ (broker.degraded[r] /\ ~EndedSince(d, RunEnd(r)))
  BY <1>1, <1>3, <1>4 DEF DropsOf, ToldOrMarked, RunKeys
<1> QED
  BY <1>5, <1>6 DEF DropsAnnounced

\* Whatever was dropped (compactOverLimit), the consumer is asked to reload after
\* the first loss of every run; and after every loss of a main run, at the latest
\* when the run ends (Publish).
THEOREM DropsTold ==
  Spec => []DropsAnnounced
<1>1. BrokerInv => DropsAnnounced
  BY AnnouncedHolds
<1> QED
  BY <1>1, BrokerInvariant, PTL

LEMMA BacklogHolds ==
  ASSUME BrokerInv
  PROVE  BacklogBounded
<1> DEFINE q == Queued(broker)
           h == broker.head
           lq == Len(broker.queue)
<1>1. BrokerOK(broker) /\ SizeOK(broker) /\ LimitOK(broker)
  BY DEF BrokerInv
<1>2. lq \in Nat /\ h \in Nat /\ h <= lq
  BY <1>1, StructParts
<1>3. /\ q \in Seq(QueueEntry) /\ Len(q) = lq - h
      /\ \A i \in 1 .. lq - h : q[i] = broker.queue[h + i]
  BY <1>1, QueuedParts
<1>4. broker.queuedBytes = SumOfSizes(q)
  BY <1>1 DEF SizeOK
<1>5. (\E i \in h + 1 .. lq : isCoalescibleEvent(broker.queue[i].event)) =>
        /\ broker.queuedBytes <= MaxBytes + 1
        /\ lq - h <= MaxEvents + 1
        /\ OverLimit(broker) => broker.queue[lq].event.state = "final"
  BY <1>1 DEF LimitOK
<1> HIDE DEF q, h, lq
<1>6. DOMAIN q = 1 .. lq - h
  BY <1>2, <1>3
<1>7. ASSUME NEW i \in DOMAIN q, isCoalescibleEvent(q[i].event)
      PROVE  /\ broker.queuedBytes <= MaxBytes + 1 /\ Len(q) <= MaxEvents + 1
             /\ OverLimit(broker) => q[Len(q)].event.state = "final"
  <2>1. h + i \in h + 1 .. lq /\ q[i] = broker.queue[h + i]
    BY <1>2, <1>3, <1>6
  <2>2. lq - h \in 1 .. lq - h /\ h + (lq - h) = lq
    BY <1>2, <1>6
  <2>3. q[Len(q)] = broker.queue[lq]
    BY <1>3, <2>2
  <2> QED
    BY <1>3, <1>5, <1>7, <2>1, <2>3
<1> QED
  BY <1>4, <1>7 DEF BacklogBounded, q

\* queuedBytes is what the queue holds, and deltas are queued within the limits.
THEOREM Bounded ==
  Spec => []BacklogBounded
<1>1. BrokerInv => BacklogBounded
  BY BacklogHolds
<1> QED
  BY <1>1, BrokerInvariant, PTL

\* Who waits in Next has nothing to take, or waits no longer than the first entry.
THEOREM WakeUps ==
  Spec => []NoLostWakeUp
<1>1. BrokerInv => NoLostWakeUp
  BY DEF BrokerInv
<1> QED
  BY <1>1, BrokerInvariant, PTL
=============================================================================
