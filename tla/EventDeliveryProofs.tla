------------------------ MODULE EventDeliveryProofs ------------------------
(***************************************************************************)
(* That a renderer is given everything, or told otherwise, for any number  *)
(* of events, epochs, faults and selections and for queues of any size.    *)
(*                                                                         *)
(* An event that the renderer has not been given is owed to it. What makes *)
(* the argument inductive is where an owed event may be: everything that   *)
(* was published after it and is on its way has the event itself, or a     *)
(* marker that announces a snapshot, in front of it (InOrder). When a      *)
(* later event reaches deliver, which has nothing in front of it, nothing  *)
(* before it can be owed.                                                  *)
(***************************************************************************)
EXTENDS EventDelivery, SequenceTheorems, TLAPS

LOCAL INSTANCE SequencesExt
LOCAL INSTANCE FiniteSetsExt

-----------------------------------------------------------------------------
(* The inductive invariant. *)

Boundary == request.stage \in {"building", "answered"}

\* Epochs only grow, and a connection is to the running daemon.
EpochInv ==
  /\ client.ack = client.epoch
  /\ seen.epoch <= client.epoch /\ client.epoch <= hub.epoch
  /\ 0 < client.epoch
  /\ request.epoch <= client.epoch
  /\ conn.up => client.epoch = hub.epoch
  /\ ~conn.up => conn = NoConnection
  /\ conn.batch # <<>> => conn.replay = <<>>

\* Who holds applyMu, and for which request.
LockInv ==
  /\ request.stage # "none" => client.applyMu # "free"
  /\ request.stage \in {"sent", "building"} => conn.up
  /\ client.applyMu = "supervise" => pc.supervise \in {"initial", "resync", "rehydrate"}
  /\ pc.supervise = "initial" => client.applyMu = "supervise"
  /\ pc.select = "waiting" => client.applyMu = "select"
  /\ pc.hand # 0 => pc.supervise = "deliver"
  /\ pc.supervise = "connect" =>
       /\ client.state = "connecting" /\ client.applyMu = "free"
       /\ client.cursor = 0 /\ seen.base = 0 /\ seen.got = {}
       /\ seen.forgone = Nothing
       /\ queue = <<>> /\ ~conn.up

\* The cursor belongs to the epoch of the connection.
OwnCursor == seen.epoch = client.epoch

\* The snapshot under way, of the client's epoch.
SnapshotDue == Boundary /\ request.epoch = client.epoch

\* What was given is not ahead of the cursor, which is neither ahead of the hub nor
\* of a snapshot that will replace it.
SnapshotInv ==
  /\ OwnCursor =>
       /\ seen.base <= client.cursor
       /\ \A n \in seen.got : n <= client.cursor
       /\ SnapshotDue => client.cursor <= request.boundary
       /\ client.epoch = hub.epoch => client.cursor <= Current(hub)
  /\ SnapshotDue /\ client.epoch = hub.epoch => request.boundary <= Current(hub)

Within(q, c) ==
  \A i \in DOMAIN q : q[i].kind = "event" => q[i].sequence \in 1 .. c

\* No number on the way is ahead of the hub's.
RangeInv ==
  client.epoch = hub.epoch =>
    /\ pc.hand <= Current(hub)
    /\ Within(queue, Current(hub)) /\ Within(conn.replay, Current(hub))
    /\ conn.batch \in Seq(1 .. Current(hub))
    /\ conn.channel \in Seq(0 .. Current(hub))
    /\ conn.pending \in Seq(1 .. Current(hub))

\* Supervise is about to fetch, or fetches, a snapshot with event n.
Due(n) ==
  /\ pc.supervise = "resync"
  /\ client.applyMu = "supervise" /\ Boundary => n <= request.boundary

\* A resync with event n was given up, or the next snapshot, which supervise does
\* without no longer than the cursor of an earlier epoch counts, has it.
Waived(n) ==
  \/ seen.forgone.epoch = client.epoch /\ n <= seen.forgone.upTo
  \/ /\ ~OwnCursor
     /\ SnapshotDue => n <= request.boundary

Owed(n) ==
  /\ n \in 1 .. Current(hub)
  /\ ~Replaced(n)
  /\ OwnCursor => ~(n <= seen.base \/ n \in seen.got)
  /\ ~Waived(n)
  /\ ~Due(n)

\* A message that brings event n or announces a snapshot.
Brings(m, n) == m.kind = "resync" \/ (m.kind = "event" /\ m.sequence = n)

Covers(q, n) == \E j \in DOMAIN q : Brings(q[j], n)

\* Event n, or a marker, is in front of whatever comes after n in the messages q.
MessagesLed(q, n) ==
  \A i \in DOMAIN q :
    q[i].kind = "event" /\ n < q[i].sequence
      => \E j \in DOMAIN q : j < i /\ Brings(q[j], n)

\* The same for numbers: 0 is the marker.
Has(s, n) == \E j \in DOMAIN s : s[j] \in {0, n}

NumbersLed(s, n) ==
  \A i \in DOMAIN s :
    n < s[i] => \E j \in DOMAIN s : j < i /\ s[j] \in {0, n}

\* In front of what the server has still to write of the replay ...
BeforeReplay(n) == n = pc.hand \/ Covers(queue, n)

\* ... of the batch ...
BeforeBatch(n) == BeforeReplay(n) \/ Covers(conn.replay, n)

\* ... of the channel ...
BeforeChannel(n) == BeforeBatch(n) \/ Has(conn.batch, n)

\* ... of the pending events ...
BeforePending(n) == BeforeChannel(n) \/ Has(conn.channel, n) \/ conn.resync = TRUE

\* ... and of the next event that is published.
BeforeNext(n) == BeforePending(n) \/ Has(conn.pending, n)

\* Nothing after event n is on its way without n, or a marker, in front of it.
InOrder(n) ==
  /\ pc.hand <= n
  /\ n = pc.hand \/ MessagesLed(queue, n)
  /\ BeforeReplay(n) \/ MessagesLed(conn.replay, n)
  /\ BeforeBatch(n) \/ NumbersLed(conn.batch, n)
  /\ BeforeChannel(n) \/ NumbersLed(conn.channel, n)
  /\ BeforePending(n) \/ NumbersLed(conn.pending, n)
  /\ conn.up => BeforeNext(n)

PathInv == client.epoch = hub.epoch => \A n \in 1 .. Current(hub) : Owed(n) => InOrder(n)

\* What the cursor has passed is not owed.
CursorInv ==
  OwnCursor /\ client.epoch = hub.epoch =>
    \A n \in 1 .. client.cursor :
      \/ Given(n)
      \/ seen.forgone.epoch = client.epoch /\ n <= seen.forgone.upTo

DeliveryInv ==
  TypeOK /\ EpochInv /\ LockInv /\ SnapshotInv /\ RangeInv /\ PathInv /\ CursorInv

-----------------------------------------------------------------------------
(* The model's operators. *)

\* Max of FiniteSetsExt, for the head of the replay ring.
LEMMA MaxOfTwo ==
  ASSUME NEW a \in Int, NEW b \in Int
  PROVE  Max({a, b}) = IF a >= b THEN a ELSE b
BY DEF Max

\* Min of FiniteSetsExt, for what the replay ring can hold.
LEMMA MinOfTwo ==
  ASSUME NEW a \in Int, NEW b \in Int
  PROVE  Min({a, b}) = IF a <= b THEN a ELSE b
BY DEF Min

\* push (client_messages.go) loses no marker, brings the message or a marker, and
\* keeps what is in the queue in order.
LEMMA PushedLed ==
  ASSUME NEW q \in Seq(Messages), NEW m \in Messages, NEW n \in Nat
  PROVE  /\ Pushed(q, m) \in Seq(Messages)
         /\ Covers(q, n) \/ Brings(m, n) => Covers(Pushed(q, m), n)
         /\ MessagesLed(q, n) /\ (m.kind = "event" /\ n < m.sequence => Covers(q, n))
              => MessagesLed(Pushed(q, m), n)
<1>1. CASE resyncQueued(q) /\ m.kind = "resync"
  <2>1. Pushed(q, m) = [i \in DOMAIN q |-> IF q[i].kind = "resync" THEN m ELSE q[i]]
    BY <1>1 DEF Pushed
  <2>2. Pushed(q, m) \in Seq(Messages) /\ DOMAIN Pushed(q, m) = DOMAIN q
    BY <2>1
  <2>3. \A i \in DOMAIN q : /\ Pushed(q, m)[i].kind = q[i].kind
                            /\ q[i].kind # "resync" => Pushed(q, m)[i] = q[i]
    BY <1>1, <2>1
  <2>4. \A i \in DOMAIN q : Brings(q[i], n) => Brings(Pushed(q, m)[i], n)
    BY <2>3 DEF Brings
  <2> QED
    BY <1>1, <2>2, <2>3, <2>4 DEF Covers, MessagesLed, Brings, resyncQueued
<1>2. CASE resyncQueued(q) /\ m.kind # "resync"
  BY <1>2 DEF Pushed, Covers, MessagesLed, Brings, resyncQueued
<1>3. CASE ~resyncQueued(q) /\ Full(q, m)
  <2>1. Pushed(q, m) = <<ResyncMessage(m.sequence)>>
    BY <1>3 DEF Pushed
  <2>2. ResyncMessage(m.sequence) \in Messages /\ ResyncMessage(m.sequence).kind = "resync"
    BY DEF ResyncMessage, Messages
  <2> QED
    BY <2>1, <2>2 DEF Covers, MessagesLed, Brings
<1>4. CASE ~resyncQueued(q) /\ ~Full(q, m)
  <2>1. Pushed(q, m) = Append(q, m)
    BY <1>4 DEF Pushed
  <2>2. /\ Append(q, m) \in Seq(Messages)
        /\ DOMAIN Append(q, m) = 1 .. Len(q) + 1
        /\ \A i \in DOMAIN q : i \in 1 .. Len(q) + 1 /\ Append(q, m)[i] = q[i]
        /\ \A i \in DOMAIN q : i < Len(q) + 1
        /\ Append(q, m)[Len(q) + 1] = m /\ Len(q) + 1 \in 1 .. Len(q) + 1
        /\ \A i \in 1 .. Len(q) + 1 : i = Len(q) + 1 \/ i \in DOMAIN q
    OBVIOUS
  <2> QED
    BY <2>1, <2>2 DEF Covers, MessagesLed
<1> QED
  BY <1>1, <1>2, <1>3, <1>4

\* finish (client_messages.go) puts the end of a connection behind the rest.
LEMMA EndedLed ==
  ASSUME NEW q \in Seq(Messages), NEW n \in Nat
  PROVE  /\ Ended(q) \in Seq(Messages)
         /\ Covers(q, n) => Covers(Ended(q), n)
         /\ MessagesLed(q, n) => MessagesLed(Ended(q), n)
<1>1. Ended(q) = Append(q, Disconnected) /\ Disconnected \in Messages
      /\ Disconnected.kind = "disconnected"
  BY DEF Ended, Disconnected, Messages
<1>2. /\ Append(q, Disconnected) \in Seq(Messages)
      /\ DOMAIN Append(q, Disconnected) = 1 .. Len(q) + 1
      /\ \A i \in DOMAIN q : i \in 1 .. Len(q) + 1 /\ Append(q, Disconnected)[i] = q[i]
      /\ Append(q, Disconnected)[Len(q) + 1] = Disconnected
      /\ \A i \in 1 .. Len(q) + 1 : i = Len(q) + 1 \/ i \in DOMAIN q
  BY <1>1
<1> QED
  BY <1>1, <1>2 DEF Covers, MessagesLed

\* Within, of a message that is pushed and of the end of a connection.
LEMMA WithinPushed ==
  ASSUME NEW q \in Seq(Messages), NEW m \in Messages, NEW c \in Nat, Within(q, c)
  PROVE  /\ (m.kind = "event" => m.sequence \in 1 .. c) => Within(Pushed(q, m), c)
         /\ Within(Ended(q), c)
<1>1. Within(Ended(q), c)
  BY DEF Ended, Disconnected, Within, Messages
<1>2. CASE resyncQueued(q) /\ m.kind = "resync"
  <2>1. Pushed(q, m) = [i \in DOMAIN q |-> IF q[i].kind = "resync" THEN m ELSE q[i]]
    BY <1>2 DEF Pushed
  <2> QED
    BY <1>1, <1>2, <2>1 DEF Within
<1>3. CASE resyncQueued(q) /\ m.kind # "resync"
  BY <1>1, <1>3 DEF Pushed
<1>4. CASE ~resyncQueued(q) /\ Full(q, m)
  BY <1>1, <1>4 DEF Pushed, ResyncMessage, Within
<1>5. CASE ~resyncQueued(q) /\ ~Full(q, m)
  BY <1>1, <1>5 DEF Pushed, Within
<1> QED
  BY <1>2, <1>3, <1>4, <1>5

\* What follows the first message, when supervise takes it or the server writes it.
LEMMA TailLed ==
  ASSUME NEW q \in Seq(Messages), q # <<>>, NEW n \in Nat, NEW c \in Nat
  PROVE  /\ Head(q) \in Messages /\ Tail(q) \in Seq(Messages)
         /\ Covers(q, n) => Brings(Head(q), n) \/ Covers(Tail(q), n)
         /\ MessagesLed(q, n) => /\ Brings(Head(q), n) \/ MessagesLed(Tail(q), n)
                                 /\ Head(q).kind = "event" => Head(q).sequence <= n
         /\ Within(q, c) => /\ Within(Tail(q), c)
                            /\ Head(q).kind = "event" => Head(q).sequence \in 1 .. c
<1>0. Len(q) \in Nat \ {0} /\ DOMAIN q = 1 .. Len(q)
  OBVIOUS
<1>1. /\ Head(q) = q[1] /\ q[1] \in Messages /\ Tail(q) \in Seq(Messages)
      /\ 1 \in DOMAIN q /\ DOMAIN Tail(q) = 1 .. Len(q) - 1
      /\ \A i \in 1 .. Len(q) - 1 : i + 1 \in DOMAIN q /\ Tail(q)[i] = q[i + 1]
      /\ \A i \in DOMAIN q : i = 1 \/ i - 1 \in 1 .. Len(q) - 1
      /\ \A i \in DOMAIN q : i \in Nat /\ ~(i < 1)
  BY <1>0
<1>6. q[1].sequence \in Nat
  BY <1>1 DEF Messages
<1>2. Covers(q, n) => Brings(Head(q), n) \/ Covers(Tail(q), n)
  <2> SUFFICES ASSUME NEW j \in DOMAIN q, Brings(q[j], n), ~Brings(q[1], n)
               PROVE  Covers(Tail(q), n)
    BY <1>1 DEF Covers
  <2>1. j - 1 \in DOMAIN Tail(q) /\ Tail(q)[j - 1] = q[j]
    BY <1>1
  <2> QED
    BY <2>1 DEF Covers
<1>3. ASSUME MessagesLed(q, n), ~Brings(Head(q), n)
      PROVE  MessagesLed(Tail(q), n)
  <2> SUFFICES ASSUME NEW i \in DOMAIN Tail(q), Tail(q)[i].kind = "event",
                      n < Tail(q)[i].sequence
               PROVE  \E j \in DOMAIN Tail(q) : j < i /\ Brings(Tail(q)[j], n)
    BY DEF MessagesLed
  <2>1. PICK j \in DOMAIN q : j < i + 1 /\ Brings(q[j], n)
    BY <1>1, <1>3 DEF MessagesLed
  <2>2. j # 1
    BY <1>1, <1>3, <2>1
  <2>4. j - 1 \in 1 .. Len(q) - 1 /\ j \in Nat /\ i \in Nat /\ (j - 1) + 1 = j
    BY <1>1, <2>1, <2>2
  <2>5. j - 1 < i
    BY <2>1, <2>4
  <2>3. j - 1 \in DOMAIN Tail(q) /\ Tail(q)[j - 1] = q[j] /\ j - 1 < i
    BY <1>1, <2>4, <2>5
  <2> QED
    BY <2>1, <2>3
<1>4. MessagesLed(q, n) => (Head(q).kind = "event" => Head(q).sequence <= n)
  BY <1>1, <1>6 DEF MessagesLed
<1>5. Within(q, c) => /\ Within(Tail(q), c)
                      /\ Head(q).kind = "event" => Head(q).sequence \in 1 .. c
  BY <1>1 DEF Within
<1> QED
  BY <1>1, <1>2, <1>3, <1>4, <1>5

\* The same for the numbers in the connection's queue, channel and batch.
LEMMA TailNumbersLed ==
  ASSUME NEW s \in Seq(Nat), s # <<>>, NEW n \in Nat
  PROVE  /\ Has(s, n) => Head(s) \in {0, n} \/ Has(Tail(s), n)
         /\ NumbersLed(s, n) => /\ Head(s) \in {0, n} \/ NumbersLed(Tail(s), n)
                                /\ Head(s) <= n
<1>0. Len(s) \in Nat \ {0} /\ DOMAIN s = 1 .. Len(s)
  OBVIOUS
<1>1. /\ Head(s) = s[1] /\ s[1] \in Nat /\ 1 \in DOMAIN s
      /\ DOMAIN Tail(s) = 1 .. Len(s) - 1
      /\ \A i \in 1 .. Len(s) - 1 : i + 1 \in DOMAIN s /\ Tail(s)[i] = s[i + 1]
      /\ \A i \in DOMAIN s : i = 1 \/ i - 1 \in 1 .. Len(s) - 1
      /\ \A i \in DOMAIN s : i \in Nat /\ ~(i < 1)
  BY <1>0
<1>2. Has(s, n) => Head(s) \in {0, n} \/ Has(Tail(s), n)
  <2> SUFFICES ASSUME NEW j \in DOMAIN s, s[j] \in {0, n}, s[1] \notin {0, n}
               PROVE  Has(Tail(s), n)
    BY <1>1 DEF Has
  <2>1. j - 1 \in DOMAIN Tail(s) /\ Tail(s)[j - 1] = s[j]
    BY <1>1
  <2> QED
    BY <2>1 DEF Has
<1>3. ASSUME NumbersLed(s, n), Head(s) \notin {0, n}
      PROVE  NumbersLed(Tail(s), n)
  <2> SUFFICES ASSUME NEW i \in DOMAIN Tail(s), n < Tail(s)[i]
               PROVE  \E j \in DOMAIN Tail(s) : j < i /\ Tail(s)[j] \in {0, n}
    BY DEF NumbersLed
  <2>1. PICK j \in DOMAIN s : j < i + 1 /\ s[j] \in {0, n}
    BY <1>1, <1>3 DEF NumbersLed
  <2>2. j # 1
    BY <1>1, <1>3, <2>1
  <2>3. j - 1 \in 1 .. Len(s) - 1 /\ j \in Nat /\ i \in Nat
    BY <1>1, <2>2
  <2>6. (j - 1) + 1 = j
    BY <2>3
  <2>5. j - 1 < i
    BY <2>1, <2>3
  <2>4. j - 1 \in DOMAIN Tail(s) /\ Tail(s)[j - 1] = s[j] /\ j - 1 < i
    BY <1>1, <2>3, <2>5, <2>6
  <2> QED
    BY <2>1, <2>4
<1>4. NumbersLed(s, n) => Head(s) <= n
  BY <1>1 DEF NumbersLed
<1> QED
  BY <1>2, <1>3, <1>4

\* A number that is appended stays behind what was there.
LEMMA AppendLed ==
  ASSUME NEW s \in Seq(Nat), NEW x \in Nat, NEW n \in Nat
  PROVE  /\ Has(s, n) \/ x \in {0, n} => Has(Append(s, x), n)
         /\ NumbersLed(s, n) /\ (n < x => Has(s, n)) => NumbersLed(Append(s, x), n)
<1>1. /\ DOMAIN Append(s, x) = 1 .. Len(s) + 1
      /\ \A i \in DOMAIN s : i \in 1 .. Len(s) + 1 /\ Append(s, x)[i] = s[i] /\ i < Len(s) + 1
      /\ Append(s, x)[Len(s) + 1] = x /\ Len(s) + 1 \in 1 .. Len(s) + 1
      /\ \A i \in 1 .. Len(s) + 1 : i = Len(s) + 1 \/ i \in DOMAIN s
  OBVIOUS
<1> QED
  BY <1>1 DEF Has, NumbersLed

\* Nothing is owed an order in what is empty.
LEMMA EmptyLed ==
  ASSUME NEW n
  PROVE  MessagesLed(<<>>, n) /\ NumbersLed(<<>>, n) /\ ~Covers(<<>>, n) /\ ~Has(<<>>, n)
BY DEF MessagesLed, NumbersLed, Covers, Has

\* RemoveAt of SequencesExt: what is behind the removed place moves up.
LEMMA RemoveAtIndices ==
  ASSUME NEW S, NEW s \in Seq(S), NEW k \in DOMAIN s
  PROVE  /\ RemoveAt(s, k) \in Seq(S)
         /\ DOMAIN RemoveAt(s, k) = 1 .. Len(s) - 1
         /\ \A i \in 1 .. Len(s) - 1 :
              RemoveAt(s, k)[i] = IF i < k THEN s[i] ELSE s[i + 1]
<1>1. Len(s) \in Nat /\ k \in 1 .. Len(s)
  OBVIOUS
<1>2. SubSeq(s, 1, k - 1) \in Seq(S) /\ SubSeq(s, k + 1, Len(s)) \in Seq(S)
  BY <1>1
<1>3. Len(SubSeq(s, 1, k - 1)) = k - 1 /\ Len(SubSeq(s, k + 1, Len(s))) = Len(s) - k
  BY <1>1
<1>4. /\ \A i \in 1 .. k - 1 : SubSeq(s, 1, k - 1)[i] = s[i]
      /\ \A i \in 1 .. Len(s) - k : SubSeq(s, k + 1, Len(s))[i] = s[k + i]
  BY <1>1
<1> DEFINE front == SubSeq(s, 1, k - 1)
           back  == SubSeq(s, k + 1, Len(s))
<1> HIDE DEF front, back
<1>5. RemoveAt(s, k) = front \o back
  BY DEF RemoveAt, front, back
<1>7. /\ front \in Seq(S) /\ back \in Seq(S)
      /\ Len(front) = k - 1 /\ Len(back) = Len(s) - k
      /\ \A i \in 1 .. k - 1 : front[i] = s[i]
      /\ \A i \in 1 .. Len(s) - k : back[i] = s[k + i]
  BY <1>2, <1>3, <1>4 DEF front, back
<1>8. /\ RemoveAt(s, k) \in Seq(S) /\ Len(RemoveAt(s, k)) = Len(s) - 1
      /\ \A i \in 1 .. Len(s) - 1 :
           RemoveAt(s, k)[i] = IF i <= k - 1 THEN front[i] ELSE back[i - (k - 1)]
  <2>1. /\ front \o back \in Seq(S)
        /\ Len(front \o back) = Len(front) + Len(back)
        /\ \A i \in 1 .. Len(front) + Len(back) :
             (front \o back)[i] = IF i <= Len(front) THEN front[i] ELSE back[i - Len(front)]
    BY <1>7, ConcatProperties
  <2>2. Len(front) + Len(back) = Len(s) - 1
    BY <1>1, <1>7
  <2> QED
    BY <1>5, <1>7, <2>1, <2>2
<1>6. ASSUME NEW i \in 1 .. Len(s) - 1
      PROVE  RemoveAt(s, k)[i] = IF i < k THEN s[i] ELSE s[i + 1]
  <2>1. CASE i < k
    BY <1>1, <1>7, <1>8, <2>1
  <2>2. CASE ~(i < k)
    <3>1. i - (k - 1) \in 1 .. Len(s) - k /\ k + (i - (k - 1)) = i + 1
      BY <1>1, <2>2
    <3>2. RemoveAt(s, k)[i] = back[i - (k - 1)]
      BY <1>1, <1>8, <2>2
    <3>3. back[i - (k - 1)] = s[k + (i - (k - 1))]
      BY <1>7, <3>1
    <3> QED
      BY <2>2, <3>1, <3>2, <3>3
  <2> QED
    BY <2>1, <2>2
<1>9. DOMAIN RemoveAt(s, k) = 1 .. Len(s) - 1
  BY <1>1, <1>8
<1> QED
  BY <1>6, <1>8, <1>9

\* enqueue (event_hub.go) removes nothing but a state that the new event replaces,
\* and leaves the rest in order.
LEMMA SupersededLed ==
  ASSUME NEW S, NEW h, NEW s \in Seq(S), NEW c, NEW n \in S, 0 \notin S, S \subseteq Nat,
         ~runtimeEventPolicy(h.log[n]) => runtimeEventPolicy(h.log[c])
  PROVE  /\ Superseded(h, s, c) \in Seq(S)
         /\ Has(s, n) => Has(Superseded(h, s, c), n)
         /\ NumbersLed(s, n) => NumbersLed(Superseded(h, s, c), n)
<1> DEFINE replaceAt == {i \in DOMAIN s : ~runtimeEventPolicy(h.log[s[i]])}
           k == CHOOSE i \in replaceAt : TRUE
<1>1. CASE runtimeEventPolicy(h.log[c]) \/ replaceAt = {}
  BY <1>1 DEF Superseded
<1>2. CASE ~runtimeEventPolicy(h.log[c]) /\ replaceAt # {}
  <2>1. k \in DOMAIN s /\ ~runtimeEventPolicy(h.log[s[k]])
    BY <1>2
  <2>2. Superseded(h, s, c) = RemoveAt(s, k)
    BY <1>2 DEF Superseded
  <2> HIDE DEF k
  <2>3. s[k] # n /\ s[k] # 0
    BY <1>2, <2>1
  <2>4. Len(s) \in Nat /\ DOMAIN s = 1 .. Len(s) /\ k \in 1 .. Len(s)
    BY <2>1
  <2>5. /\ RemoveAt(s, k) \in Seq(S) /\ DOMAIN RemoveAt(s, k) = 1 .. Len(s) - 1
        /\ \A i \in 1 .. Len(s) - 1 :
             RemoveAt(s, k)[i] = IF i < k THEN s[i] ELSE s[i + 1]
    BY <2>1, RemoveAtIndices
  <2> DEFINE at(j) == IF j < k THEN j ELSE j - 1
             from(i) == IF i < k THEN i ELSE i + 1
  <2>6. \A j \in DOMAIN s \ {k} :
          at(j) \in DOMAIN RemoveAt(s, k) /\ RemoveAt(s, k)[at(j)] = s[j]
    BY <2>4, <2>5
  <2>7. ASSUME NEW i \in DOMAIN RemoveAt(s, k)
        PROVE  /\ from(i) \in DOMAIN s \ {k} /\ RemoveAt(s, k)[i] = s[from(i)]
               /\ \A j \in DOMAIN s \ {k} : j < from(i) => at(j) < i
    BY <2>4, <2>5
  <2>8. \A j \in DOMAIN s : s[j] \in {0, n} => j \in DOMAIN s \ {k}
    BY <2>3
  <2> HIDE DEF at, from
  <2>9. Has(s, n) => Has(RemoveAt(s, k), n)
    BY <2>6, <2>8 DEF Has
  <2>10. ASSUME NumbersLed(s, n), NEW i \in DOMAIN RemoveAt(s, k), n < RemoveAt(s, k)[i]
         PROVE  \E j \in DOMAIN RemoveAt(s, k) : j < i /\ RemoveAt(s, k)[j] \in {0, n}
    <3>1. from(i) \in DOMAIN s /\ n < s[from(i)]
      BY <2>7, <2>10
    <3>2. PICK j \in DOMAIN s : j < from(i) /\ s[j] \in {0, n}
      BY <3>1, <2>10 DEF NumbersLed
    <3>3. at(j) < i /\ at(j) \in DOMAIN RemoveAt(s, k) /\ RemoveAt(s, k)[at(j)] = s[j]
      BY <2>6, <2>7, <2>8, <3>2
    <3> QED
      BY <3>2, <3>3
  <2> QED
    BY <2>2, <2>5, <2>9, <2>10 DEF NumbersLed
<1> QED
  BY <1>1, <1>2

\* Subscribe and serveConnection: what is replayed has every event after the cursor,
\* in order, or a resync.
LEMMA OpeningLed ==
  ASSUME hub \in HubType, NEW after \in Nat
  PROVE  /\ Opening(after) \in Seq(Messages)
         /\ Within(Opening(after), Current(hub))
         /\ \A n \in 1 .. Current(hub) :
              after < n => Covers(Opening(after), n) /\ MessagesLed(Opening(after), n)
<1> DEFINE first == IF hub.head >= after + 1 THEN hub.head ELSE after + 1
           count == Current(hub) + 1 - first
<1>1. Current(hub) \in Nat /\ hub.head \in Nat /\ first \in Nat \ {0} /\ after + 1 <= first
      /\ count \in Int
  BY DEF Current, HubType
<1>2. Max({hub.head, after + 1}) = first
  BY <1>1, MaxOfTwo
<1>3. Ring(after) = [i \in 1 .. count |-> first + i - 1]
  BY <1>2 DEF Ring
<1> HIDE DEF first
<1>4. CASE replayUnavailable(after)
  <2>1. Opening(after) = <<ResyncMessage(Current(hub))>>
    BY <1>4 DEF Opening
  <2>2. ResyncMessage(Current(hub)) \in Messages
        /\ ResyncMessage(Current(hub)).kind = "resync"
    BY <1>1 DEF ResyncMessage, Messages
  <2> QED
    BY <2>1, <2>2 DEF Within, Covers, MessagesLed, Brings
<1>5. CASE ~replayUnavailable(after) /\ Ring(after) = <<>>
  <2>1. Opening(after) = <<>>
    BY <1>5 DEF Opening
  <2>2. ~(1 <= count)
    BY <1>1, <1>3, <1>5
  <2>3. Current(hub) <= after
    BY <1>1, <1>5, <2>2 DEF replayUnavailable, first
  <2> QED
    BY <1>1, <2>1, <2>3 DEF Within
<1>6. CASE ~replayUnavailable(after) /\ Ring(after) # <<>>
  <2> DEFINE events == [i \in DOMAIN Ring(after) |-> EventMessage(Ring(after)[i])]
             last == ReplayComplete(Current(hub))
  <2>1. 1 <= count /\ count \in Nat
    BY <1>1, <1>3, <1>6
  <2>2. first = after + 1 /\ count = Current(hub) - after
    <3>1. first <= after + 1
      BY <1>1, <1>6, <2>1 DEF replayUnavailable, first
    <3> QED
      BY <1>1, <1>6, <2>1, <3>1 DEF first
  <2> HIDE DEF count
  <2>3. events = [i \in 1 .. count |-> EventMessage(after + i)]
    BY <1>1, <1>3, <2>2
  <2>4. \A i \in 1 .. count :
          /\ after + i \in 1 .. Current(hub)
          /\ EventMessage(after + i) \in Messages
          /\ EventMessage(after + i).kind = "event"
          /\ EventMessage(after + i).sequence = after + i
    BY <1>1, <2>1, <2>2 DEF EventMessage, Messages
  <2>5. last \in Messages /\ last.kind = "complete"
    BY <1>1 DEF ReplayComplete, Messages
  <2>6. Opening(after) = events \o <<last>>
    BY <1>6 DEF Opening
  <2> HIDE DEF last
  <2>7. events \in Seq(Messages) /\ Len(events) = count
        /\ \A i \in 1 .. count : events[i] = EventMessage(after + i)
    <3> HIDE DEF events
    <3>1. \A i \in 1 .. count : EventMessage(after + i) \in Messages
      BY <2>4
    <3> QED
      BY <2>1, <2>3, <3>1
  <2> HIDE DEF events
  <2>8. /\ Opening(after) \in Seq(Messages)
        /\ DOMAIN Opening(after) = 1 .. count + 1
        /\ \A i \in 1 .. count : Opening(after)[i] = EventMessage(after + i)
        /\ Opening(after)[count + 1] = last
    <3>1. <<last>> \in Seq(Messages) /\ Len(<<last>>) = 1 /\ <<last>>[1] = last
      BY <2>5
    <3> QED
      BY <2>1, <2>6, <2>7, <3>1
  <2>9. \A i \in DOMAIN Opening(after) :
          Opening(after)[i].kind = "event"
            => i \in 1 .. count /\ Opening(after)[i].sequence = after + i
    <3>1. \A i \in 1 .. count + 1 : i \in 1 .. count \/ i = count + 1
      BY <2>1
    <3> QED
      BY <2>4, <2>5, <2>8, <3>1
  <2>10. Within(Opening(after), Current(hub))
    BY <2>4, <2>9 DEF Within
  <2>11. ASSUME NEW n \in 1 .. Current(hub), after < n
         PROVE  Covers(Opening(after), n) /\ MessagesLed(Opening(after), n)
    <3>1. n - after \in 1 .. count /\ after + (n - after) = n
      BY <1>1, <2>2, <2>11
    <3>2. n - after \in DOMAIN Opening(after)
      BY <2>1, <2>8, <3>1
    <3>3. Brings(Opening(after)[n - after], n)
      BY <2>4, <2>8, <3>1 DEF Brings
    <3>4. ASSUME NEW i \in DOMAIN Opening(after), Opening(after)[i].kind = "event",
                 n < Opening(after)[i].sequence
          PROVE  n - after < i
      BY <1>1, <2>1, <2>9, <3>4
    <3> QED
      BY <3>2, <3>3, <3>4 DEF Covers, MessagesLed
  <2> QED
    BY <2>8, <2>10, <2>11
<1> QED
  BY <1>4, <1>5, <1>6

\* What the steps put on the way are messages.
LEMMA MessageTypes ==
  ASSUME NEW n \in Nat
  PROVE  /\ EventMessage(n) \in Messages /\ EventMessage(n).kind = "event"
         /\ EventMessage(n).sequence = n
         /\ ResyncMessage(n) \in Messages /\ ResyncMessage(n).kind = "resync"
BY DEF EventMessage, ResyncMessage, Messages

\* CurrentSequence is a number.
LEMMA CurrentType ==
  ASSUME hub \in HubType
  PROVE  Current(hub) \in Nat
<1>1. hub.log \in Seq(Kinds)
  BY DEF HubType
<1> QED
  BY <1>1 DEF Current

\* publishRecord appends to the log; what leaves the ring changes its head only.
LEMMA EvictedKeeps ==
  ASSUME hub \in HubType, NEW kind \in Kinds
  PROVE  LET h == Evicted([hub EXCEPT !.log = Append(@, kind)])
         IN /\ h \in HubType
            /\ h.epoch = hub.epoch
            /\ h.log = Append(hub.log, kind)
            /\ Current(h) = Current(hub) + 1
<1> DEFINE g == [hub EXCEPT !.log = Append(@, kind)]
<1>0. hub.log \in Seq(Kinds) /\ Append(hub.log, kind) \in Seq(Kinds)
  BY DEF HubType
<1>1. g \in HubType
      /\ g.epoch = hub.epoch /\ g.log = Append(hub.log, kind) /\ g.head = hub.head
  BY <1>0 DEF HubType
<1>2. Current(g) = Current(hub) + 1 /\ Current(hub) \in Nat
  BY <1>0, <1>1 DEF Current
<1> HIDE DEF g
<1>3. Min({ReplayCap, Current(g)}) \in Nat /\ Min({ReplayCap, Current(g)}) <= Current(g)
  <2>1. ReplayCap \in Nat
    BY DeliveryAssumption
  <2> QED
    BY <1>2, <2>1, MinOfTwo
<1> DEFINE m == Min({ReplayCap, Current(g)})
<1> HIDE DEF m
<1>4. m \in Nat /\ m <= Current(g)
  BY <1>3 DEF m
<1>5. Max({g.head, Current(g) + 1 - m}) \in Nat
  <2>1. g.head \in Nat /\ Current(g) + 1 - m \in Nat
    BY <1>1, <1>2, <1>4 DEF HubType
  <2> HIDE DEF Current
  <2> QED
    BY <2>1, MaxOfTwo
<1>6. Evicted(g) = [g EXCEPT !.head = Max({g.head, Current(g) + 1 - m})]
  BY <1>1 DEF Evicted, m
<1>7. /\ Evicted(g) \in HubType
      /\ Evicted(g).epoch = g.epoch /\ Evicted(g).log = g.log
  BY <1>1, <1>5, <1>6 DEF HubType
<1>8. Current(Evicted(g)) = Current(g)
  BY <1>7 DEF Current
<1> QED
  BY <1>1, <1>2, <1>7, <1>8 DEF g

\* A connection that is down.
LEMMA NoConnectionType == NoConnection \in ConnType
<1>1. <<>> \in Seq(Messages) /\ <<>> \in Seq(Nat)
  OBVIOUS
<1> QED
  BY <1>1 DEF NoConnection, ConnType

\* What Subscribe sets up: only the replay is there.
LEMMA ConnectedType ==
  ASSUME hub \in HubType, NEW after \in Nat
  PROVE  /\ Connected(after) \in ConnType
         /\ Connected(after).up = TRUE /\ Connected(after).replay = Opening(after)
         /\ Connected(after).pending = <<>> /\ Connected(after).resync = FALSE
         /\ Connected(after).channel = <<>> /\ Connected(after).batch = <<>>
<1>1. Opening(after) \in Seq(Messages)
  BY OpeningLed
<1>2. <<>> \in Seq(Nat)
  OBVIOUS
<1> QED
  BY <1>1, <1>2 DEF Connected, NoConnection, ConnType

\* What the history says of a resync that supervise does without.
LEMMA ForgoneTypes ==
  ASSUME hub \in HubType, client \in ClientType
  PROVE  /\ Nothing \in ForgoneType
         /\ \A why \in {"skipped", "failed", "stale cursor"} : Forgone(why) \in ForgoneType
BY DEF Forgone, Nothing, ForgoneType, ClientType, HubType, Current

\* readLoop pushes a frame, or the connection ends.
LEMMA ReceiveCases ==
  ASSUME queue \in Seq(Messages), request \in RequestType,
         NEW c \in ConnType, NEW m \in Messages, Receive(c, m)
  PROVE  /\ conn' \in ConnType /\ queue' \in Seq(Messages) /\ request' \in RequestType
         /\ \/ /\ conn' = NoConnection /\ queue' = Ended(queue)
               /\ request' = Abandon(request) /\ m.kind # "resync"
            \/ /\ conn' = c /\ queue' = Pushed(queue, m) /\ UNCHANGED request
<1>1. NoConnection \in ConnType
  BY NoConnectionType
<1>2. Abandon(request) \in RequestType
  BY DEF Abandon, RequestType
<1>3. Ended(queue) \in Seq(Messages)
  BY EndedLed, 0 \in Nat
<1>4. Pushed(queue, m) \in Seq(Messages)
  BY PushedLed, 0 \in Nat
<1>5. CASE Refused(queue, m)
  BY <1>1, <1>2, <1>3, <1>5 DEF Receive, Refused
<1>6. CASE ~Refused(queue, m)
  BY <1>4, <1>6 DEF Receive
<1> QED
  BY <1>5, <1>6

\* enqueue leaves events of the queue in it.
LEMMA SupersededType ==
  ASSUME NEW S, NEW h, NEW s \in Seq(S), NEW n
  PROVE  Superseded(h, s, n) \in Seq(S)
<1> DEFINE replaceAt == {i \in DOMAIN s : ~runtimeEventPolicy(h.log[s[i]])}
           k == CHOOSE i \in replaceAt : TRUE
<1>1. CASE runtimeEventPolicy(h.log[n]) \/ replaceAt = {}
  BY <1>1 DEF Superseded
<1>2. CASE ~runtimeEventPolicy(h.log[n]) /\ replaceAt # {}
  <2>1. k \in DOMAIN s
    BY <1>2
  <2>2. Superseded(h, s, n) = RemoveAt(s, k)
    BY <1>2 DEF Superseded
  <2> HIDE DEF k
  <2> QED
    BY <2>1, <2>2, RemoveAtIndices
<1> QED
  BY <1>1, <1>2

\* enqueue works on a connection that is up.
LEMMA EnqueueCases ==
  ASSUME conn \in ConnType, NEW h, NEW n
  PROVE  \/ ~conn.up /\ enqueue(h, conn, n) = conn
         \/ /\ conn.up
            /\ enqueue(h, conn, n) = [conn EXCEPT !.pending = <<>>, !.resync = TRUE]
         \/ /\ conn.up
            /\ enqueue(h, conn, n)
                 = [conn EXCEPT !.pending = Append(Superseded(h, conn.pending, n), n)]
BY DEF enqueue, ConnType

\* enqueue changes the pending events and the overflow mark only.
LEMMA EnqueueKeeps ==
  ASSUME conn \in ConnType, NEW h, NEW n
  PROVE  /\ enqueue(h, conn, n).up = conn.up
         /\ enqueue(h, conn, n).replay = conn.replay
         /\ enqueue(h, conn, n).channel = conn.channel
         /\ enqueue(h, conn, n).batch = conn.batch
         /\ ~conn.up => enqueue(h, conn, n) = conn
         /\ conn.up => \/ /\ enqueue(h, conn, n).pending = <<>>
                          /\ enqueue(h, conn, n).resync = TRUE
                       \/ /\ enqueue(h, conn, n).pending
                               = Append(Superseded(h, conn.pending, n), n)
                          /\ enqueue(h, conn, n).resync = conn.resync
<1> DEFINE after == Append(Superseded(h, conn.pending, n), n)
<1>1. \/ ~conn.up /\ enqueue(h, conn, n) = conn
      \/ conn.up /\ enqueue(h, conn, n) = [conn EXCEPT !.pending = <<>>, !.resync = TRUE]
      \/ conn.up /\ enqueue(h, conn, n) = [conn EXCEPT !.pending = after]
  BY EnqueueCases
<1> HIDE DEF after
<1>2. CASE ~conn.up /\ enqueue(h, conn, n) = conn
  BY <1>2
<1>3. CASE conn.up /\ enqueue(h, conn, n) = [conn EXCEPT !.pending = <<>>, !.resync = TRUE]
  BY <1>3 DEF ConnType
<1>4. CASE conn.up /\ enqueue(h, conn, n) = [conn EXCEPT !.pending = after]
  BY <1>4 DEF ConnType, after
<1> QED
  BY <1>1, <1>2, <1>3, <1>4

\* What applying a snapshot does to the client and to the history.
LEMMA AppliedSnapshot ==
  ASSUME client \in ClientType, request \in RequestType, seen \in SeenType,
         applySnapshotLocked
  PROVE  /\ client'.epoch = request.epoch /\ client'.ack = client.ack
         /\ client'.cursor = request.boundary /\ client'.applyMu = "free"
         /\ client'.state = "connected"
         /\ request' = NoRequest /\ request'.stage = "none" /\ request'.epoch = 0
         /\ seen'.epoch = request.epoch /\ seen'.base = request.boundary
         /\ seen'.got = {}
         /\ \/ /\ seen'.forgone = Nothing
               /\ ~(request.epoch = seen.forgone.epoch /\ request.boundary < seen.forgone.upTo)
            \/ seen'.forgone = seen.forgone
BY DEF applySnapshotLocked, ClientType, RequestType, SeenType, NoRequest

\* Every step keeps the types.
LEMMA StepTypeOK == TypeOK /\ [Next]_vars => TypeOK'
<1> SUFFICES ASSUME TypeOK, [Next]_vars
             PROVE  TypeOK'
  OBVIOUS
<1>1. ASSUME NEW kind \in Kinds, Publish(kind)
      PROVE  TypeOK'
  <2> DEFINE h == Evicted([hub EXCEPT !.log = Append(@, kind)])
  <2>0. hub \in HubType /\ conn \in ConnType /\ conn.pending \in Seq(Nat)
    BY DEF TypeOK, ConnType
  <2>1. h \in HubType /\ Current(h) \in Nat
    BY <2>0, EvictedKeeps DEF HubType, Current
  <2>2. hub' = h /\ conn' = enqueue(h, conn, Current(h))
    BY <1>1 DEF Publish
  <2> HIDE DEF h
  <2>3. enqueue(h, conn, Current(h)) \in ConnType
    <3> DEFINE kept == Superseded(h, conn.pending, Current(h))
    <3>1. \/ enqueue(h, conn, Current(h)) = conn
          \/ enqueue(h, conn, Current(h)) = [conn EXCEPT !.pending = <<>>, !.resync = TRUE]
          \/ /\ kept \in Seq(Nat)
             /\ enqueue(h, conn, Current(h))
                  = [conn EXCEPT !.pending = Append(kept, Current(h))]
      <4>1. kept \in Seq(Nat)
        BY <2>0, SupersededType
      <4> QED
        BY <2>0, <4>1, EnqueueCases
    <3> HIDE DEF kept
    <3>2. kept \in Seq(Nat) => Append(kept, Current(h)) \in Seq(Nat)
      BY <2>1
    <3>3. ASSUME NEW s \in Seq(Nat), NEW r \in BOOLEAN
          PROVE  /\ [conn EXCEPT !.pending = s] \in ConnType
                 /\ [conn EXCEPT !.pending = s, !.resync = r] \in ConnType
      BY <2>0 DEF ConnType
    <3>4. <<>> \in Seq(Nat)
      OBVIOUS
    <3> QED
      BY <2>0, <3>1, <3>2, <3>3, <3>4
  <2>4. left' \in LeftType
    BY <1>1 DEF Publish, TypeOK, LeftType
  <2> QED
    BY <1>1, <2>1, <2>2, <2>3, <2>4 DEF Publish, TypeOK
<1>2. ASSUME Pump
      PROVE  TypeOK'
  <2>1. conn \in ConnType
    BY DEF TypeOK
  <2>2. CASE conn.resync
    <3>1. Append(conn.channel, 0) \in Seq(Nat)
      BY <2>1 DEF ConnType
    <3> QED
      BY <1>2, <2>1, <2>2, <3>1 DEF Pump, TypeOK, ConnType
  <2>3. CASE ~conn.resync
    <3>1. conn.pending \in Seq(Nat) /\ conn.pending # <<>> /\ conn.channel \in Seq(Nat)
      BY <1>2, <2>1, <2>3 DEF Pump, ConnType
    <3>2. Append(conn.channel, Head(conn.pending)) \in Seq(Nat) /\ Tail(conn.pending) \in Seq(Nat)
      BY <3>1
    <3>3. conn' = [conn EXCEPT !.pending = Tail(@),
                              !.channel = Append(@, Head(conn.pending))]
      BY <1>2, <2>3 DEF Pump
    <3> QED
      BY <1>2, <2>1, <3>2, <3>3 DEF Pump, TypeOK, ConnType
  <2> QED
    BY <2>2, <2>3
<1>3. ASSUME WriteReplay
      PROVE  TypeOK'
  <2>1. conn \in ConnType /\ hub \in HubType /\ queue \in Seq(Messages) /\ request \in RequestType
    BY DEF TypeOK
  <2>2. Tail(conn.replay) \in Seq(Messages) /\ Head(conn.replay) \in Messages
    <3>1. conn.replay \in Seq(Messages) /\ conn.replay # <<>>
      BY <1>3, <2>1 DEF WriteReplay, ConnType
    <3>2. Head(conn.replay) \in Messages /\ Tail(conn.replay) \in Seq(Messages)
      BY <3>1
    <3>3. Current(hub) \in Nat
      BY <2>1 DEF HubType, Current
    <3> QED
      BY <3>2, <3>3, MessageTypes
  <2>3. [conn EXCEPT !.replay = Tail(@)] \in ConnType
    BY <2>1, <2>2 DEF ConnType
  <2>4. Receive([conn EXCEPT !.replay = Tail(@)], Head(conn.replay))
    BY <1>3 DEF WriteReplay
  <2>5. conn' \in ConnType /\ queue' \in Seq(Messages) /\ request' \in RequestType
    BY <2>1, <2>2, <2>3, <2>4, ReceiveCases
  <2> QED
    BY <1>3, <2>5 DEF WriteReplay, TypeOK
<1>4. ASSUME Collect
      PROVE  TypeOK'
  <2>1. conn \in ConnType
    BY DEF TypeOK
  <2>2. conn.channel \in Seq(Nat) /\ conn.channel # <<>> /\ conn.batch \in Seq(Nat)
    BY <1>4, <2>1 DEF Collect, ConnType
  <2>3. Append(conn.batch, Head(conn.channel)) \in Seq(Nat) /\ Tail(conn.channel) \in Seq(Nat)
    BY <2>2
  <2> QED
    BY <1>4, <2>1, <2>3 DEF Collect, TypeOK, ConnType
<1>5. ASSUME ForwardResync
      PROVE  TypeOK'
  <2>1. conn \in ConnType /\ hub \in HubType /\ queue \in Seq(Messages) /\ request \in RequestType
    BY DEF TypeOK
  <2>2. Tail(conn.channel) \in Seq(Nat) /\ ResyncMessage(Current(hub)) \in Messages
    <3>1. conn.channel \in Seq(Nat) /\ conn.channel # <<>>
      BY <1>5, <2>1 DEF ForwardResync, ConnType
    <3>2. Head(conn.channel) \in Nat /\ Tail(conn.channel) \in Seq(Nat)
      BY <3>1
    <3>3. Current(hub) \in Nat
      BY <2>1 DEF HubType, Current
    <3> QED
      BY <3>2, <3>3, MessageTypes
  <2>3. [conn EXCEPT !.channel = Tail(@)] \in ConnType
    BY <2>1, <2>2 DEF ConnType
  <2>4. Receive([conn EXCEPT !.channel = Tail(@)], ResyncMessage(Current(hub)))
    BY <1>5 DEF ForwardResync
  <2>5. conn' \in ConnType /\ queue' \in Seq(Messages) /\ request' \in RequestType
    BY <2>1, <2>2, <2>3, <2>4, ReceiveCases
  <2> QED
    BY <1>5, <2>5 DEF ForwardResync, TypeOK
<1>6. ASSUME WriteBatch
      PROVE  TypeOK'
  <2>1. conn \in ConnType /\ hub \in HubType /\ queue \in Seq(Messages) /\ request \in RequestType
    BY DEF TypeOK
  <2>2. Tail(conn.batch) \in Seq(Nat) /\ EventMessage(Head(conn.batch)) \in Messages
    <3>1. conn.batch \in Seq(Nat) /\ conn.batch # <<>>
      BY <1>6, <2>1 DEF WriteBatch, ConnType
    <3>2. Head(conn.batch) \in Nat /\ Tail(conn.batch) \in Seq(Nat)
      BY <3>1
    <3>3. Current(hub) \in Nat
      BY <2>1 DEF HubType, Current
    <3> QED
      BY <3>2, <3>3, MessageTypes
  <2>3. [conn EXCEPT !.batch = Tail(@)] \in ConnType
    BY <2>1, <2>2 DEF ConnType
  <2>4. Receive([conn EXCEPT !.batch = Tail(@)], EventMessage(Head(conn.batch)))
    BY <1>6 DEF WriteBatch
  <2>5. conn' \in ConnType /\ queue' \in Seq(Messages) /\ request' \in RequestType
    BY <2>1, <2>2, <2>3, <2>4, ReceiveCases
  <2> QED
    BY <1>6, <2>5 DEF WriteBatch, TypeOK
<1>7. ASSUME BeginSnapshot
      PROVE  TypeOK'
  <2>1. Current(hub) \in Nat
    BY CurrentType DEF TypeOK
  <2>2. request' \in RequestType
    BY <1>7, <2>1 DEF BeginSnapshot, RequestType, HubType, TypeOK
  <2> QED
    BY <1>7, <2>2 DEF BeginSnapshot, TypeOK
<1>8. ASSUME FinishSnapshot
      PROVE  TypeOK'
  <2>1. request' \in RequestType
    BY <1>8 DEF FinishSnapshot, RequestType, TypeOK
  <2> QED
    BY <1>8, <2>1
       DEF FinishSnapshot, TypeOK
<1>9. ASSUME Connect
      PROVE  TypeOK'
  <2>1. Connected(0) \in ConnType
    BY ConnectedType, 0 \in Nat DEF TypeOK
  <2>2. conn' \in ConnType
    BY <1>9, <2>1 DEF Connect
  <2>3. client' \in ClientType
    BY <1>9, <2>2 DEF Connect, Current, NoRequest, ClientType, HubType,
       TypeOK
  <2>4. pc' \in PlaceType
    BY <1>9, <2>2 DEF Connect, Current, NoRequest, PlaceType, TypeOK
  <2>5. request' \in RequestType
    BY <1>9, <2>2 DEF Connect, Current, NoRequest, RequestType, TypeOK
  <2>6. seen' \in SeenType
    BY <1>9, <2>2 DEF Connect, Current, NoRequest, SeenType, ForgoneType,
       HubType, TypeOK
  <2> QED
    BY <1>9, <2>2, <2>3, <2>4, <2>5, <2>6
       DEF Connect, TypeOK
<1>10. ASSUME ApplyInitial
      PROVE  TypeOK'
  <2>1. client' \in ClientType
    BY <1>10 DEF ApplyInitial, Matches, applySnapshotLocked, NoRequest,
       Nothing, ClientType, RequestType, TypeOK
  <2>2. pc' \in PlaceType
    BY <1>10 DEF ApplyInitial, Matches, applySnapshotLocked, NoRequest,
       Nothing, PlaceType, TypeOK
  <2>3. request' \in RequestType
    BY <1>10 DEF ApplyInitial, Matches, applySnapshotLocked, NoRequest,
       Nothing, RequestType, TypeOK
  <2>4. seen' \in SeenType
    BY <1>10 DEF ApplyInitial, Matches, applySnapshotLocked, NoRequest,
       Nothing, SeenType, ForgoneType, RequestType, TypeOK
  <2> QED
    BY <1>10, <2>1, <2>2, <2>3, <2>4
       DEF ApplyInitial, applySnapshotLocked, TypeOK
<1>11. ASSUME FailInitial
      PROVE  TypeOK'
  <2>1. client' \in ClientType
    BY <1>11 DEF FailInitial, NoRequest, ClientType, TypeOK
  <2>2. pc' \in PlaceType
    BY <1>11 DEF FailInitial, NoRequest, PlaceType, TypeOK
  <2>3. request' \in RequestType
    BY <1>11 DEF FailInitial, NoRequest, RequestType, TypeOK
  <2> QED
    BY <1>11, <2>1, <2>2, <2>3
       DEF FailInitial, TypeOK
<1>12. ASSUME TakeEvent
      PROVE  TypeOK'
  <2>1. Head(queue) \in Messages /\ Tail(queue) \in Seq(Messages)
    BY <1>12, TailLed, 0 \in Nat DEF TakeEvent, Taken, TypeOK
  <2>2. Head(queue).sequence \in Nat
    BY <2>1 DEF Messages
  <2> QED
    BY <1>12, <2>1, <2>2 DEF TakeEvent, Taken, Next1, TypeOK, PlaceType
<1>13. ASSUME TakeReplayComplete
      PROVE  TypeOK'
  <2>1. Tail(queue) \in Seq(Messages)
    BY <1>13, TailLed, 0 \in Nat DEF TakeReplayComplete, Taken, TypeOK
  <2>2. client' \in ClientType
    BY <1>13, <2>1 DEF TakeReplayComplete, Taken, Next1, ClientType, TypeOK
  <2> QED
    BY <1>13, <2>1, <2>2
       DEF TakeReplayComplete, Taken, TypeOK
<1>14. ASSUME TakeCovered
      PROVE  TypeOK'
  <2>1. Tail(queue) \in Seq(Messages)
    BY <1>14, TailLed, 0 \in Nat DEF TakeCovered, Taken, TypeOK
  <2>2. seen' \in SeenType
    BY <1>14, <2>1, ForgoneTypes DEF TakeCovered, Taken, Next1, SeenType,
       ForgoneType, TypeOK
  <2> QED
    BY <1>14, <2>1, <2>2
       DEF TakeCovered, Taken, TypeOK
<1>15. ASSUME TakeResync
      PROVE  TypeOK'
  <2>1. Tail(queue) \in Seq(Messages)
    BY <1>15, TailLed, 0 \in Nat DEF TakeResync, Taken, TypeOK
  <2>2. client' \in ClientType
    BY <1>15, <2>1 DEF TakeResync, Taken, Next1, ClientType, TypeOK
  <2>3. pc' \in PlaceType
    BY <1>15, <2>1 DEF TakeResync, Taken, Next1, PlaceType, TypeOK
  <2> QED
    BY <1>15, <2>1, <2>2, <2>3
       DEF TakeResync, Taken, TypeOK
<1>16. ASSUME TakeDisconnected
      PROVE  TypeOK'
  <2>1. Tail(queue) \in Seq(Messages)
    BY <1>16, TailLed, 0 \in Nat DEF TakeDisconnected, Taken, TypeOK
  <2>2. client' \in ClientType
    BY <1>16, <2>1 DEF TakeDisconnected, Taken, Next1, ClientType, TypeOK
  <2>3. pc' \in PlaceType
    BY <1>16, <2>1 DEF TakeDisconnected, Taken, Next1, PlaceType, TypeOK
  <2> QED
    BY <1>16, <2>1, <2>2, <2>3
       DEF TakeDisconnected, Taken, TypeOK
<1>17. ASSUME Deliver
      PROVE  TypeOK'
  <2>1. pc' \in PlaceType
    BY <1>17 DEF Deliver, PlaceType, TypeOK
  <2>2. CASE pc.hand <= client.cursor
    BY <1>17, <2>1, <2>2 DEF Deliver, TypeOK
  <2>3. CASE ~(pc.hand <= client.cursor)
    <3>1. pc.hand \in Nat /\ seen.got \cup {pc.hand} \in SUBSET Nat
      BY DEF TypeOK, PlaceType, SeenType
    <3>2. client' \in ClientType
      BY <1>17, <2>3, <3>1 DEF Deliver, TypeOK, ClientType
    <3>3. seen' \in SeenType
      BY <1>17, <2>3, <3>1 DEF Deliver, TypeOK, SeenType
    <3> QED
      BY <1>17, <2>1, <3>2, <3>3 DEF Deliver, TypeOK
  <2> QED
    BY <2>2, <2>3
<1>18. ASSUME RequestResync
      PROVE  TypeOK'
  <2>1. client' \in ClientType
    BY <1>18 DEF RequestResync, Requested, NoRequest, ClientType, TypeOK
  <2>2. request' \in RequestType
    BY <1>18 DEF RequestResync, Requested, NoRequest, RequestType, TypeOK
  <2> QED
    BY <1>18, <2>1, <2>2
       DEF RequestResync, TypeOK
<1>19. ASSUME ApplyResync
      PROVE  TypeOK'
  <2>1. client' \in ClientType
    BY <1>19 DEF ApplyResync, Matches, applySnapshotLocked, NoRequest,
       Nothing, ClientType, RequestType, TypeOK
  <2>2. pc' \in PlaceType
    BY <1>19 DEF ApplyResync, Matches, applySnapshotLocked, NoRequest,
       Nothing, PlaceType, TypeOK
  <2>3. request' \in RequestType
    BY <1>19 DEF ApplyResync, Matches, applySnapshotLocked, NoRequest,
       Nothing, RequestType, TypeOK
  <2>4. seen' \in SeenType
    BY <1>19 DEF ApplyResync, Matches, applySnapshotLocked, NoRequest,
       Nothing, SeenType, ForgoneType, RequestType, TypeOK
  <2> QED
    BY <1>19, <2>1, <2>2, <2>3, <2>4
       DEF ApplyResync, applySnapshotLocked, TypeOK
<1>20. ASSUME FailResync
      PROVE  TypeOK'
  <2>1. client' \in ClientType
    BY <1>20 DEF FailResync, Forgone, Current, NoRequest, ClientType, TypeOK
  <2>2. pc' \in PlaceType
    BY <1>20 DEF FailResync, Forgone, Current, NoRequest, PlaceType, TypeOK
  <2>3. request' \in RequestType
    BY <1>20 DEF FailResync, Forgone, Current, NoRequest, RequestType, TypeOK
  <2>4. seen' \in SeenType
    BY <1>20, ForgoneTypes DEF FailResync, NoRequest, SeenType, ForgoneType,
       TypeOK
  <2> QED
    BY <1>20, <2>1, <2>2, <2>3, <2>4
       DEF FailResync, TypeOK
<1>21. ASSUME Reconnect
      PROVE  TypeOK'
  <2> DEFINE after == IF client.epoch = hub.epoch THEN client.cursor ELSE 0
  <2>1. after \in Nat
    BY DEF TypeOK, ClientType
  <2>2. conn' = Connected(after)
    BY <1>21 DEF Reconnect
  <2> HIDE DEF after
  <2>3. conn' \in ConnType
    BY <2>1, <2>2, ConnectedType DEF TypeOK
  <2>4. client' \in ClientType
    BY <1>21 DEF Reconnect, TypeOK, ClientType, HubType
  <2>5. pc' \in PlaceType
    BY <1>21 DEF Reconnect, TypeOK, PlaceType
  <2>6. seen' \in SeenType
    <3>1. Forgone("stale cursor") \in ForgoneType
      BY ForgoneTypes DEF TypeOK
    <3>2. seen' \in {seen, [seen EXCEPT !.forgone = Forgone("stale cursor")]}
      BY <1>21 DEF Reconnect
    <3>3. seen \in SeenType
      BY DEF TypeOK
    <3> QED
      BY <3>1, <3>2, <3>3 DEF SeenType
  <2>7. queue' \in Seq(Messages)
    <3>1. <<>> \in Seq(Messages)
      OBVIOUS
    <3> QED
      BY <1>21, <3>1 DEF Reconnect
  <2> QED
    BY <1>21, <2>3, <2>4, <2>5, <2>6, <2>7 DEF Reconnect, TypeOK
<1>22. ASSUME ApplySelection
      PROVE  TypeOK'
  <2>1. client' \in ClientType
    BY <1>22 DEF ApplySelection, Matches, applySnapshotLocked, NoRequest,
       Nothing, ClientType, RequestType, TypeOK
  <2>2. pc' \in PlaceType
    BY <1>22 DEF ApplySelection, Matches, applySnapshotLocked, NoRequest,
       Nothing, PlaceType, TypeOK
  <2>3. request' \in RequestType
    BY <1>22 DEF ApplySelection, Matches, applySnapshotLocked, NoRequest,
       Nothing, RequestType, TypeOK
  <2>4. seen' \in SeenType
    BY <1>22 DEF ApplySelection, Matches, applySnapshotLocked, NoRequest,
       Nothing, SeenType, ForgoneType, RequestType, TypeOK
  <2> QED
    BY <1>22, <2>1, <2>2, <2>3, <2>4
       DEF ApplySelection, applySnapshotLocked, TypeOK
<1>23. ASSUME FailSelection
      PROVE  TypeOK'
  <2>1. client' \in ClientType
    BY <1>23 DEF FailSelection, Matches, NoRequest, ClientType, TypeOK
  <2>2. pc' \in PlaceType
    BY <1>23 DEF FailSelection, Matches, NoRequest, PlaceType, TypeOK
  <2>3. request' \in RequestType
    BY <1>23 DEF FailSelection, Matches, NoRequest, RequestType, TypeOK
  <2> QED
    BY <1>23, <2>1, <2>2, <2>3
       DEF FailSelection, TypeOK
<1>24. ASSUME LoseConnection
      PROVE  TypeOK'
  <2>1. Ended(queue) \in Seq(Messages)
    BY EndedLed, 0 \in Nat DEF TypeOK
  <2>2. conn' \in ConnType
    BY <1>24, NoConnectionType DEF LoseConnection
  <2>3. request' \in RequestType
    BY <1>24, <2>1, <2>2 DEF LoseConnection, Abandon, RequestType, TypeOK
  <2>4. left' \in LeftType
    BY <1>24, <2>1, <2>2 DEF LoseConnection, Abandon, LeftType, TypeOK
  <2> QED
    BY <1>24, <2>1, <2>2, <2>3, <2>4
       DEF LoseConnection, TypeOK
<1>25. ASSUME RestartDaemon
      PROVE  TypeOK'
  <2>1. Ended(queue) \in Seq(Messages)
    BY EndedLed, 0 \in Nat DEF TypeOK
  <2>2. conn' \in ConnType
    BY <1>25, NoConnectionType DEF RestartDaemon
  <2>3. hub' \in HubType
    BY <1>25, <2>1, <2>2 DEF RestartDaemon, NewHub, Abandon, HubType, TypeOK
  <2>4. request' \in RequestType
    BY <1>25, <2>1, <2>2 DEF RestartDaemon, NewHub, Abandon, RequestType,
       TypeOK
  <2> QED
    BY <1>25, <2>1, <2>2, <2>3, <2>4
       DEF RestartDaemon, TypeOK
<1>26. ASSUME FailSnapshot
      PROVE  TypeOK'
  <2>1. request' \in RequestType
    BY <1>26 DEF FailSnapshot, RequestType, TypeOK
  <2>2. left' \in LeftType
    BY <1>26 DEF FailSnapshot, LeftType, TypeOK
  <2> QED
    BY <1>26, <2>1, <2>2
       DEF FailSnapshot, TypeOK
<1>27. ASSUME SelectSession
      PROVE  TypeOK'
  <2>1. client' \in ClientType
    BY <1>27 DEF SelectSession, ClientType, TypeOK
  <2>2. pc' \in PlaceType
    BY <1>27 DEF SelectSession, PlaceType, TypeOK
  <2>3. request' \in RequestType
    BY <1>27 DEF SelectSession, Requested, NoRequest, RequestType, TypeOK
  <2>4. left' \in LeftType
    BY <1>27 DEF SelectSession, LeftType, TypeOK
  <2> QED
    BY <1>27, <2>1, <2>2, <2>3, <2>4
       DEF SelectSession, TypeOK
<1>28. ASSUME MutationConflict
      PROVE  TypeOK'
  <2>1. client' \in ClientType
    BY <1>28 DEF MutationConflict, ClientType, TypeOK
  <2>2. left' \in LeftType
    BY <1>28 DEF MutationConflict, LeftType, TypeOK
  <2> QED
    BY <1>28, <2>1, <2>2
       DEF MutationConflict, TypeOK
<1>29. CASE UNCHANGED vars
  BY <1>29 DEF vars, TypeOK
<1> QED
  BY <1>1, <1>2, <1>3, <1>4, <1>5, <1>6, <1>7, <1>8, <1>9, <1>10, <1>11,
     <1>12, <1>13, <1>14, <1>15, <1>16, <1>17, <1>18, <1>19, <1>20, <1>21,
     <1>22, <1>23, <1>24, <1>25, <1>26, <1>27, <1>28, <1>29
     DEF Next, Server, Supervise, Selection, Fault

\* Every step keeps the epochs in order: only a restart begins one, only a connection
\* adopts it.
LEMMA StepEpochInv == TypeOK /\ EpochInv /\ LockInv /\ [Next]_vars => EpochInv'
<1> SUFFICES ASSUME TypeOK /\ EpochInv /\ LockInv, [Next]_vars
             PROVE  EpochInv'
  OBVIOUS
<1>1. ASSUME NEW kind \in Kinds, Publish(kind)
      PROVE  EpochInv'
  <2>1. hub' = Evicted([hub EXCEPT !.log = Append(@, kind)]) /\ hub'.epoch = hub.epoch
        /\ conn' = enqueue(hub', conn, Current(hub')) /\ UNCHANGED <<client, request, seen>>
    BY <1>1, EvictedKeeps DEF Publish, TypeOK
  <2>2. /\ conn'.up = conn.up /\ conn'.batch = conn.batch /\ conn'.replay = conn.replay
        /\ ~conn.up => conn' = conn
    BY <2>1, EnqueueKeeps DEF TypeOK
  <2> QED
    BY <2>1, <2>2 DEF EpochInv
<1>2. ASSUME Pump
      PROVE  EpochInv'
  BY <1>2 DEF Pump, ConnType, TypeOK, EpochInv
<1>3. ASSUME WriteReplay
      PROVE  EpochInv'
  <2>1. \/ conn' = NoConnection /\ request' = Abandon(request)
        \/ conn' = [conn EXCEPT !.replay = Tail(@)] /\ request' = request
    BY <1>3 DEF WriteReplay, Receive
  <2>2. conn.replay # <<>> /\ conn.up /\ UNCHANGED <<hub, client, pc, seen>>
    BY <1>3 DEF WriteReplay
  <2>3. CASE conn' = NoConnection /\ request' = Abandon(request)
    BY <2>1, <2>2, <2>3 DEF NoConnection, Abandon, TypeOK, RequestType, EpochInv
  <2>4. CASE conn' = [conn EXCEPT !.replay = Tail(@)] /\ request' = request
    BY <2>1, <2>2, <2>4 DEF TypeOK, ConnType, EpochInv
  <2> QED
    BY <2>1, <2>3, <2>4
<1>4. ASSUME Collect
      PROVE  EpochInv'
  BY <1>4 DEF Collect, ConnType, TypeOK, EpochInv
<1>5. ASSUME ForwardResync
      PROVE  EpochInv'
  <2>1. \/ conn' = NoConnection /\ request' = Abandon(request)
        \/ conn' = [conn EXCEPT !.channel = Tail(@)] /\ request' = request
    BY <1>5 DEF ForwardResync, Receive
  <2>2. conn.channel # <<>> /\ conn.up /\ UNCHANGED <<hub, client, pc, seen>>
    BY <1>5 DEF ForwardResync
  <2>3. CASE conn' = NoConnection /\ request' = Abandon(request)
    BY <2>1, <2>2, <2>3 DEF NoConnection, Abandon, TypeOK, RequestType, EpochInv
  <2>4. CASE conn' = [conn EXCEPT !.channel = Tail(@)] /\ request' = request
    BY <2>1, <2>2, <2>4 DEF TypeOK, ConnType, EpochInv
  <2> QED
    BY <2>1, <2>3, <2>4
<1>6. ASSUME WriteBatch
      PROVE  EpochInv'
  <2>1. \/ conn' = NoConnection /\ request' = Abandon(request)
        \/ conn' = [conn EXCEPT !.batch = Tail(@)] /\ request' = request
    BY <1>6 DEF WriteBatch, Receive
  <2>2. conn.batch # <<>> /\ conn.up /\ UNCHANGED <<hub, client, pc, seen>>
    BY <1>6 DEF WriteBatch
  <2>3. CASE conn' = NoConnection /\ request' = Abandon(request)
    BY <2>1, <2>2, <2>3 DEF NoConnection, Abandon, TypeOK, RequestType, EpochInv
  <2>4. CASE conn' = [conn EXCEPT !.batch = Tail(@)] /\ request' = request
    BY <2>1, <2>2, <2>4 DEF TypeOK, ConnType, EpochInv
  <2> QED
    BY <2>1, <2>3, <2>4
<1>7. ASSUME BeginSnapshot
      PROVE  EpochInv'
  <2>1. request'.epoch = hub.epoch /\ UNCHANGED <<hub, conn, client, seen>>
    BY <1>7 DEF BeginSnapshot, TypeOK, RequestType
  <2>2. client.epoch = hub.epoch
    BY <1>7 DEF BeginSnapshot, LockInv, EpochInv
  <2> QED
    BY <2>1, <2>2 DEF EpochInv, TypeOK, HubType
<1>8. ASSUME FinishSnapshot
      PROVE  EpochInv'
  BY <1>8 DEF FinishSnapshot, RequestType, TypeOK, EpochInv
<1>9. ASSUME Connect
      PROVE  EpochInv'
  <2>1. /\ conn'.up = TRUE /\ conn'.batch = <<>>
        /\ UNCHANGED <<hub>>
    BY <1>9, ConnectedType, 0 \in Nat DEF Connect, TypeOK, ClientType
  <2>2. client'.epoch = hub.epoch /\ client'.ack = hub.epoch
        /\ request'.epoch \in {request.epoch, 0}
    BY <1>9 DEF Connect, TypeOK, ClientType, NoRequest
  <2>3. seen'.epoch \in {seen.epoch, hub.epoch}
    BY <1>9 DEF Connect, TypeOK, SeenType
  <2> QED
    BY <2>1, <2>2, <2>3 DEF EpochInv, TypeOK, HubType, RequestType, ClientType, SeenType
<1>10. ASSUME ApplyInitial
      PROVE  EpochInv'
  <2>1. applySnapshotLocked /\ request.epoch = client.ack /\ UNCHANGED <<hub, conn>>
    BY <1>10 DEF ApplyInitial, Matches
  <2>2. /\ client'.epoch = request.epoch /\ client'.ack = client.ack
        /\ seen'.epoch = request.epoch /\ request'.epoch = 0
    BY <2>1, AppliedSnapshot DEF TypeOK
  <2> QED
    BY <2>1, <2>2 DEF EpochInv, TypeOK, ClientType
<1>11. ASSUME FailInitial
      PROVE  EpochInv'
  BY <1>11 DEF FailInitial, NoRequest, ClientType, PlaceType, RequestType,
     TypeOK, EpochInv
<1>12. ASSUME TakeEvent
      PROVE  EpochInv'
  BY <1>12 DEF TakeEvent, Taken, PlaceType, TypeOK, EpochInv
<1>13. ASSUME TakeReplayComplete
      PROVE  EpochInv'
  BY <1>13 DEF TakeReplayComplete, Taken, ClientType, TypeOK, EpochInv
<1>14. ASSUME TakeCovered
      PROVE  EpochInv'
  BY <1>14 DEF TakeCovered, Taken, Forgone, Current, SeenType, ForgoneType,
     TypeOK, EpochInv
<1>15. ASSUME TakeResync
      PROVE  EpochInv'
  <2>1. /\ client'.ack = client.ack /\ client'.epoch = client.epoch
        /\ UNCHANGED <<hub, conn, request, seen>>
    BY <1>15 DEF TakeResync, Taken, ClientType, TypeOK
  <2> QED
    BY <2>1 DEF EpochInv
<1>16. ASSUME TakeDisconnected
      PROVE  EpochInv'
  <2>1. /\ client'.ack = client.ack /\ client'.epoch = client.epoch
        /\ UNCHANGED <<hub, conn, request, seen>>
    BY <1>16 DEF TakeDisconnected, Taken, ClientType, TypeOK
  <2> QED
    BY <2>1 DEF EpochInv
<1>17. ASSUME Deliver
      PROVE  EpochInv'
  <2>1. /\ client'.ack = client.ack /\ client'.epoch = client.epoch
        /\ seen'.epoch = seen.epoch
        /\ UNCHANGED <<hub, conn, request>>
    BY <1>17 DEF Deliver, ClientType, SeenType, TypeOK
  <2> QED
    BY <2>1 DEF EpochInv
<1>18. ASSUME RequestResync
      PROVE  EpochInv'
  BY <1>18 DEF RequestResync, Requested, NoRequest, ClientType, RequestType,
     TypeOK, EpochInv
<1>19. ASSUME ApplyResync
      PROVE  EpochInv'
  <2>1. applySnapshotLocked /\ request.epoch = client.ack /\ UNCHANGED <<hub, conn>>
    BY <1>19 DEF ApplyResync, Matches
  <2>2. /\ client'.epoch = request.epoch /\ client'.ack = client.ack
        /\ seen'.epoch = request.epoch /\ request'.epoch = 0
    BY <2>1, AppliedSnapshot DEF TypeOK
  <2> QED
    BY <2>1, <2>2 DEF EpochInv, TypeOK, ClientType
<1>20. ASSUME FailResync
      PROVE  EpochInv'
  <2>1. UNCHANGED <<hub, conn>> /\ request'.epoch = 0
    BY <1>20 DEF FailResync, NoRequest
  <2>2. client'.epoch = client.epoch /\ client'.ack = client.ack
    BY <1>20 DEF FailResync, TypeOK, ClientType
  <2>3. seen'.epoch = seen.epoch
    BY <1>20 DEF FailResync, TypeOK, SeenType
  <2> QED
    BY <2>1, <2>2, <2>3 DEF EpochInv, TypeOK, ClientType
<1>21. ASSUME Reconnect
      PROVE  EpochInv'
  <2>1. /\ conn'.up = TRUE /\ conn'.batch = <<>>
        /\ UNCHANGED <<hub>>
    BY <1>21, ConnectedType, 0 \in Nat DEF Reconnect, TypeOK, ClientType
  <2>2. client'.epoch = hub.epoch /\ client'.ack = hub.epoch
        /\ request'.epoch \in {request.epoch, 0}
    BY <1>21 DEF Reconnect, TypeOK, ClientType, NoRequest
  <2>3. seen'.epoch \in {seen.epoch, hub.epoch}
    BY <1>21 DEF Reconnect, TypeOK, SeenType
  <2> QED
    BY <2>1, <2>2, <2>3 DEF EpochInv, TypeOK, HubType, RequestType, ClientType, SeenType
<1>22. ASSUME ApplySelection
      PROVE  EpochInv'
  <2>1. applySnapshotLocked /\ request.epoch = client.ack /\ UNCHANGED <<hub, conn>>
    BY <1>22 DEF ApplySelection, Matches
  <2>2. /\ client'.epoch = request.epoch /\ client'.ack = client.ack
        /\ seen'.epoch = request.epoch /\ request'.epoch = 0
    BY <2>1, AppliedSnapshot DEF TypeOK
  <2> QED
    BY <2>1, <2>2 DEF EpochInv, TypeOK, ClientType
<1>23. ASSUME FailSelection
      PROVE  EpochInv'
  BY <1>23 DEF FailSelection, Matches, NoRequest, ClientType, PlaceType,
     RequestType, TypeOK, EpochInv
<1>24. ASSUME LoseConnection
      PROVE  EpochInv'
  BY <1>24 DEF LoseConnection, NoConnection, Abandon, ConnType, RequestType,
     TypeOK, EpochInv
<1>25. ASSUME RestartDaemon
      PROVE  EpochInv'
  <2>1. hub'.epoch = hub.epoch + 1 /\ conn' = NoConnection /\ UNCHANGED <<client, seen>>
    BY <1>25 DEF RestartDaemon, NewHub
  <2>2. request'.epoch = request.epoch
    BY <1>25 DEF RestartDaemon, Abandon, TypeOK, RequestType
  <2>3. NoConnection.up = FALSE /\ NoConnection.batch = <<>>
    BY DEF NoConnection
  <2> QED
    BY <2>1, <2>2, <2>3 DEF EpochInv, TypeOK, HubType, ClientType
<1>26. ASSUME FailSnapshot
      PROVE  EpochInv'
  BY <1>26 DEF FailSnapshot, RequestType, TypeOK, EpochInv
<1>27. ASSUME SelectSession
      PROVE  EpochInv'
  BY <1>27 DEF SelectSession, Requested, NoRequest, ClientType, PlaceType,
     RequestType, TypeOK, EpochInv
<1>28. ASSUME MutationConflict
      PROVE  EpochInv'
  BY <1>28 DEF MutationConflict, ClientType, TypeOK, EpochInv
<1>29. CASE UNCHANGED vars
  BY <1>29 DEF vars, EpochInv
<1> QED
  BY <1>1, <1>2, <1>3, <1>4, <1>5, <1>6, <1>7, <1>8, <1>9, <1>10, <1>11,
     <1>12, <1>13, <1>14, <1>15, <1>16, <1>17, <1>18, <1>19, <1>20, <1>21,
     <1>22, <1>23, <1>24, <1>25, <1>26, <1>27, <1>28, <1>29
     DEF Next, Server, Supervise, Selection, Fault

\* Every step keeps applyMu with the request it was taken for, and the first
\* connection before everything else.
LEMMA StepLockInv == TypeOK /\ EpochInv /\ LockInv /\ [Next]_vars => LockInv'
<1> SUFFICES ASSUME TypeOK /\ EpochInv /\ LockInv, [Next]_vars
             PROVE  LockInv'
  OBVIOUS
<1>1. ASSUME NEW kind \in Kinds, Publish(kind)
      PROVE  LockInv'
  <2>1. conn' = enqueue(hub', conn, Current(hub')) /\ UNCHANGED <<client, request, seen, pc, queue>>
    BY <1>1 DEF Publish
  <2>2. conn'.up = conn.up
    BY <2>1, EnqueueKeeps DEF TypeOK
  <2> QED
    BY <2>1, <2>2 DEF LockInv
<1>2. ASSUME Pump
      PROVE  LockInv'
  BY <1>2 DEF Pump, ConnType, TypeOK, LockInv
<1>3. ASSUME WriteReplay
      PROVE  LockInv'
  <2>1. \/ conn' = NoConnection /\ request' = Abandon(request)
        \/ conn' = [conn EXCEPT !.replay = Tail(@)] /\ request' = request
    BY <1>3 DEF WriteReplay, Receive
  <2>2. conn.replay # <<>> /\ conn.up /\ UNCHANGED <<hub, client, pc, seen>>
    BY <1>3 DEF WriteReplay
  <2>3. CASE conn' = NoConnection /\ request' = Abandon(request)
    BY <2>1, <2>2, <2>3 DEF NoConnection, Abandon, TypeOK, RequestType, LockInv
  <2>4. CASE conn' = [conn EXCEPT !.replay = Tail(@)] /\ request' = request
    BY <2>1, <2>2, <2>4 DEF TypeOK, ConnType, LockInv
  <2> QED
    BY <2>1, <2>3, <2>4
<1>4. ASSUME Collect
      PROVE  LockInv'
  BY <1>4 DEF Collect, ConnType, TypeOK, LockInv
<1>5. ASSUME ForwardResync
      PROVE  LockInv'
  <2>1. \/ conn' = NoConnection /\ request' = Abandon(request)
        \/ conn' = [conn EXCEPT !.channel = Tail(@)] /\ request' = request
    BY <1>5 DEF ForwardResync, Receive
  <2>2. conn.channel # <<>> /\ conn.up /\ UNCHANGED <<hub, client, pc, seen>>
    BY <1>5 DEF ForwardResync
  <2>3. CASE conn' = NoConnection /\ request' = Abandon(request)
    BY <2>1, <2>2, <2>3 DEF NoConnection, Abandon, TypeOK, RequestType, LockInv
  <2>4. CASE conn' = [conn EXCEPT !.channel = Tail(@)] /\ request' = request
    BY <2>1, <2>2, <2>4 DEF TypeOK, ConnType, LockInv
  <2> QED
    BY <2>1, <2>3, <2>4
<1>6. ASSUME WriteBatch
      PROVE  LockInv'
  <2>1. \/ conn' = NoConnection /\ request' = Abandon(request)
        \/ conn' = [conn EXCEPT !.batch = Tail(@)] /\ request' = request
    BY <1>6 DEF WriteBatch, Receive
  <2>2. conn.batch # <<>> /\ conn.up /\ UNCHANGED <<hub, client, pc, seen>>
    BY <1>6 DEF WriteBatch
  <2>3. CASE conn' = NoConnection /\ request' = Abandon(request)
    BY <2>1, <2>2, <2>3 DEF NoConnection, Abandon, TypeOK, RequestType, LockInv
  <2>4. CASE conn' = [conn EXCEPT !.batch = Tail(@)] /\ request' = request
    BY <2>1, <2>2, <2>4 DEF TypeOK, ConnType, LockInv
  <2> QED
    BY <2>1, <2>3, <2>4
<1>7. ASSUME BeginSnapshot
      PROVE  LockInv'
  BY <1>7 DEF BeginSnapshot, Current, RequestType, TypeOK, LockInv
<1>8. ASSUME FinishSnapshot
      PROVE  LockInv'
  BY <1>8 DEF FinishSnapshot, RequestType, TypeOK, LockInv
<1>9. ASSUME Connect
      PROVE  LockInv'
  <2>1. conn'.up = TRUE
    BY <1>9, ConnectedType, 0 \in Nat DEF Connect, TypeOK, ClientType
  <2> QED
    BY <1>9, <2>1 DEF Connect, NoRequest, TypeOK, ClientType, PlaceType, RequestType,
       LockInv
<1>10. ASSUME ApplyInitial
      PROVE  LockInv'
  BY <1>10 DEF ApplyInitial, Matches, applySnapshotLocked, NoRequest, Nothing,
     ClientType, PlaceType, RequestType, SeenType, ForgoneType, TypeOK,
     LockInv
<1>11. ASSUME FailInitial
      PROVE  LockInv'
  BY <1>11 DEF FailInitial, NoRequest, ClientType, PlaceType, RequestType,
     TypeOK, LockInv
<1>12. ASSUME TakeEvent
      PROVE  LockInv'
  BY <1>12 DEF TakeEvent, Taken, PlaceType, TypeOK, LockInv
<1>13. ASSUME TakeReplayComplete
      PROVE  LockInv'
  BY <1>13 DEF TakeReplayComplete, Taken, ClientType, TypeOK, LockInv
<1>14. ASSUME TakeCovered
      PROVE  LockInv'
  BY <1>14 DEF TakeCovered, Taken, Forgone, Current, SeenType, ForgoneType,
     TypeOK, LockInv
<1>15. ASSUME TakeResync
      PROVE  LockInv'
  <2>1. /\ client'.applyMu = client.applyMu /\ pc.supervise = "next"
        /\ pc'.supervise \in {"resync", "reconnect"}
        /\ pc'.select = pc.select /\ pc'.hand = pc.hand
        /\ UNCHANGED <<conn, request>>
    BY <1>15 DEF TakeResync, Taken, ClientType, PlaceType, TypeOK
  <2>2. client.applyMu # "supervise" /\ pc.hand = 0
    BY <2>1 DEF LockInv
  <2> QED
    BY <2>1, <2>2 DEF LockInv
<1>16. ASSUME TakeDisconnected
      PROVE  LockInv'
  <2>1. /\ client'.applyMu = client.applyMu /\ pc.supervise = "next"
        /\ pc'.supervise \in {"resync", "reconnect"}
        /\ pc'.select = pc.select /\ pc'.hand = pc.hand
        /\ UNCHANGED <<conn, request>>
    BY <1>16 DEF TakeDisconnected, Taken, ClientType, PlaceType, TypeOK
  <2>2. client.applyMu # "supervise" /\ pc.hand = 0
    BY <2>1 DEF LockInv
  <2> QED
    BY <2>1, <2>2 DEF LockInv
<1>17. ASSUME Deliver
      PROVE  LockInv'
  <2>1. /\ client'.applyMu = client.applyMu /\ client.applyMu = "free"
        /\ pc'.supervise = "next" /\ pc'.select = pc.select /\ pc'.hand = 0
        /\ UNCHANGED <<conn, request>>
    BY <1>17 DEF Deliver, ClientType, PlaceType, TypeOK
  <2> QED
    BY <2>1 DEF LockInv
<1>18. ASSUME RequestResync
      PROVE  LockInv'
  BY <1>18 DEF RequestResync, Requested, NoRequest, ClientType, RequestType,
     TypeOK, LockInv
<1>19. ASSUME ApplyResync
      PROVE  LockInv'
  BY <1>19 DEF ApplyResync, Matches, applySnapshotLocked, NoRequest, Nothing,
     ClientType, PlaceType, RequestType, SeenType, ForgoneType, TypeOK,
     LockInv
<1>20. ASSUME FailResync
      PROVE  LockInv'
  <2>1. UNCHANGED <<hub, conn, queue>> /\ request' = NoRequest
    BY <1>20 DEF FailResync
  <2>2. client'.applyMu = "free"
    BY <1>20 DEF FailResync, TypeOK, ClientType
  <2>3. pc'.supervise \in {"next", "reconnect"} /\ pc'.hand = pc.hand /\ pc'.select = pc.select
    BY <1>20 DEF FailResync, TypeOK, PlaceType
  <2>4. client.applyMu = "supervise" /\ pc.supervise \in {"resync", "rehydrate"}
    BY <1>20 DEF FailResync
  <2> QED
    BY <2>1, <2>2, <2>3, <2>4 DEF LockInv, NoRequest
<1>21. ASSUME Reconnect
      PROVE  LockInv'
  <2>1. conn'.up = TRUE
    BY <1>21, ConnectedType, 0 \in Nat DEF Reconnect, TypeOK, ClientType
  <2> QED
    BY <1>21, <2>1 DEF Reconnect, NoRequest, TypeOK, ClientType, PlaceType,
       RequestType, LockInv
<1>22. ASSUME ApplySelection
      PROVE  LockInv'
  BY <1>22 DEF ApplySelection, Matches, applySnapshotLocked, NoRequest,
     Nothing, ClientType, PlaceType, RequestType, SeenType, ForgoneType,
     TypeOK, LockInv
<1>23. ASSUME FailSelection
      PROVE  LockInv'
  BY <1>23 DEF FailSelection, Matches, NoRequest, ClientType, PlaceType,
     RequestType, TypeOK, LockInv
<1>24. ASSUME LoseConnection
      PROVE  LockInv'
  BY <1>24 DEF LoseConnection, NoConnection, Abandon, ConnType, RequestType,
     TypeOK, LockInv
<1>25. ASSUME RestartDaemon
      PROVE  LockInv'
  BY <1>25 DEF RestartDaemon, NewHub, NoConnection, Abandon, HubType,
     ConnType, RequestType, TypeOK, LockInv
<1>26. ASSUME FailSnapshot
      PROVE  LockInv'
  BY <1>26 DEF FailSnapshot, RequestType, TypeOK, LockInv
<1>27. ASSUME SelectSession
      PROVE  LockInv'
  BY <1>27 DEF SelectSession, Requested, NoRequest, ClientType, PlaceType,
     RequestType, TypeOK, LockInv
<1>28. ASSUME MutationConflict
      PROVE  LockInv'
  BY <1>28 DEF MutationConflict, ClientType, TypeOK, LockInv
<1>29. CASE UNCHANGED vars
  BY <1>29 DEF vars, LockInv
<1> QED
  BY <1>1, <1>2, <1>3, <1>4, <1>5, <1>6, <1>7, <1>8, <1>9, <1>10, <1>11,
     <1>12, <1>13, <1>14, <1>15, <1>16, <1>17, <1>18, <1>19, <1>20, <1>21,
     <1>22, <1>23, <1>24, <1>25, <1>26, <1>27, <1>28, <1>29
     DEF Next, Server, Supervise, Selection, Fault

-----------------------------------------------------------------------------
(* Snapshots and the cursor. *)

\* Steps that leave the cursor, what was given and the boundary of a snapshot alone.
SameCursor ==
  /\ UNCHANGED hub
  /\ client'.epoch = client.epoch /\ client'.cursor = client.cursor
  /\ seen'.epoch = seen.epoch /\ seen'.base = seen.base /\ seen'.got = seen.got
  /\ request'.stage \in {"building", "answered"}
       => /\ Boundary /\ request'.boundary = request.boundary
          /\ request'.epoch = request.epoch

\* They keep the cursor where it may be.
LEMMA SameCursorKeeps ==
  ASSUME SnapshotInv, SameCursor
  PROVE  SnapshotInv'
BY DEF SnapshotInv, SameCursor, OwnCursor, SnapshotDue, Boundary, Current

\* The steps of the connection, of supervise and of a request that are like this.
LEMMA SameCursorSteps ==
  ASSUME TypeOK,
         \/ Pump \/ WriteReplay \/ Collect \/ ForwardResync \/ WriteBatch
         \/ FinishSnapshot \/ FailInitial
         \/ TakeEvent \/ TakeReplayComplete \/ TakeCovered \/ TakeResync
         \/ TakeDisconnected \/ RequestResync \/ FailResync \/ FailSelection
         \/ LoseConnection \/ FailSnapshot \/ SelectSession \/ MutationConflict
         \/ UNCHANGED vars
  PROVE  SameCursor
<1> USE DEF SameCursor, Boundary
<1>0. client \in ClientType /\ request \in RequestType /\ seen \in SeenType
  BY DEF TypeOK
<1>1. CASE Pump
  BY <1>0, <1>1 DEF Pump
<1>2. CASE WriteReplay
  BY <1>0, <1>2 DEF WriteReplay, Receive, Abandon, RequestType
<1>3. CASE Collect
  BY <1>0, <1>3 DEF Collect
<1>4. CASE ForwardResync
  BY <1>0, <1>4 DEF ForwardResync, Receive, Abandon, RequestType
<1>5. CASE WriteBatch
  BY <1>0, <1>5 DEF WriteBatch, Receive, Abandon, RequestType
<1>6. CASE FinishSnapshot
  BY <1>0, <1>6 DEF FinishSnapshot, RequestType
<1>7. CASE FailInitial
  BY <1>0, <1>7 DEF FailInitial, NoRequest, ClientType, RequestType
<1>8. CASE TakeEvent
  BY <1>0, <1>8 DEF TakeEvent, Taken
<1>9. CASE TakeReplayComplete
  BY <1>0, <1>9 DEF TakeReplayComplete, Taken, ClientType
<1>10. CASE TakeCovered
  BY <1>0, <1>10 DEF TakeCovered, Taken, SeenType
<1>11. CASE TakeResync
  BY <1>0, <1>11 DEF TakeResync, Taken, ClientType
<1>12. CASE TakeDisconnected
  BY <1>0, <1>12 DEF TakeDisconnected, Taken, ClientType
<1>13. CASE RequestResync
  BY <1>0, <1>13 DEF RequestResync, Requested, NoRequest, ClientType,
     RequestType
<1>14. CASE FailResync
  BY <1>0, <1>14 DEF FailResync, NoRequest, ClientType, RequestType, SeenType
<1>15. CASE FailSelection
  BY <1>0, <1>15 DEF FailSelection, Matches, NoRequest, ClientType,
     RequestType
<1>16. CASE LoseConnection
  BY <1>0, <1>16 DEF LoseConnection, Abandon, RequestType
<1>17. CASE FailSnapshot
  BY <1>0, <1>17 DEF FailSnapshot, RequestType
<1>18. CASE SelectSession
  BY <1>0, <1>18 DEF SelectSession, Requested, NoRequest, ClientType,
     RequestType
<1>19. CASE MutationConflict
  BY <1>0, <1>19 DEF MutationConflict, ClientType
<1>20. CASE UNCHANGED vars
  BY <1>20 DEF vars
<1> QED
  BY <1>1, <1>2, <1>3, <1>4, <1>5, <1>6, <1>7, <1>8, <1>9, <1>10, <1>11,
     <1>12, <1>13, <1>14, <1>15, <1>16, <1>17, <1>18, <1>19, <1>20

\* Every step keeps the cursor between what was given and the boundary of a snapshot
\* (deliver and applySnapshotLocked under applyMu).
LEMMA StepSnapshotInv ==
  TypeOK /\ EpochInv /\ LockInv /\ SnapshotInv /\ RangeInv /\ [Next]_vars => SnapshotInv'
<1> SUFFICES ASSUME TypeOK, EpochInv, LockInv, SnapshotInv, RangeInv, [Next]_vars
             PROVE  SnapshotInv'
  OBVIOUS
<1>0. /\ hub \in HubType /\ client \in ClientType /\ request \in RequestType
      /\ seen \in SeenType /\ Current(hub) \in Nat
  BY CurrentType DEF TypeOK
<1>1. ASSUME NEW kind \in Kinds, Publish(kind)
      PROVE  SnapshotInv'
  <2>1. hub'.epoch = hub.epoch /\ Current(hub') = Current(hub) + 1
    BY <1>0, <1>1, EvictedKeeps DEF Publish
  <2>2. UNCHANGED <<client, request, seen>>
    BY <1>1 DEF Publish
  <2>3. client.cursor \in Nat /\ request.boundary \in Nat
    BY <1>0 DEF ClientType, RequestType
  <2> QED
    BY <1>0, <2>1, <2>2, <2>3 DEF SnapshotInv, OwnCursor, SnapshotDue, Boundary
<1>2. ASSUME BeginSnapshot
      PROVE  SnapshotInv'
  <2>1. UNCHANGED <<hub, client, seen>> /\ request'.boundary = Current(hub)
    BY <1>0, <1>2 DEF BeginSnapshot, RequestType
  <2>2. client.epoch = hub.epoch
    BY <1>2 DEF BeginSnapshot, LockInv, EpochInv
  <2> HIDE DEF Current
  <2> QED
    BY <1>0, <2>1, <2>2 DEF SnapshotInv, OwnCursor, SnapshotDue, Boundary
<1>3. ASSUME Connect
      PROVE  SnapshotInv'
  <2>1. UNCHANGED hub /\ client'.cursor = 0 /\ seen'.base = 0 /\ seen'.got = {}
    BY <1>0, <1>3 DEF Connect, LockInv, ClientType, SeenType
  <2>2. request'.stage = "sent"
    BY <1>3 DEF Connect, NoRequest
  <2> HIDE DEF Current
  <2> QED
    BY <1>0, <2>1, <2>2 DEF SnapshotInv, SnapshotDue, Boundary
<1>4. ASSUME applySnapshotLocked, Boundary, Matches(request), UNCHANGED hub
      PROVE  SnapshotInv'
  <2>1. SnapshotDue /\ request.epoch = client.epoch /\ request.boundary \in Nat
    BY <1>0, <1>4 DEF Matches, SnapshotDue, EpochInv, RequestType
  <2>2. /\ client'.epoch = client.epoch /\ client'.cursor = request.boundary
        /\ seen'.base = request.boundary /\ seen'.got = {} /\ request'.stage = "none"
    BY <1>0, <1>4, <2>1, AppliedSnapshot
  <2> HIDE DEF Current
  <2> QED
    BY <1>0, <1>4, <2>1, <2>2 DEF SnapshotInv, SnapshotDue, Boundary
<1>5. ASSUME ApplyInitial \/ ApplyResync \/ ApplySelection
      PROVE  SnapshotInv'
  BY <1>4, <1>5 DEF ApplyInitial, ApplyResync, ApplySelection, Boundary
<1>6. ASSUME Deliver
      PROVE  SnapshotInv'
  <2>1. UNCHANGED <<hub, request>> /\ request.stage = "none"
    BY <1>0, <1>6 DEF Deliver, LockInv, RequestType
  <2>2. CASE pc.hand <= client.cursor
    BY <1>6, <2>1, <2>2 DEF Deliver, SnapshotInv, OwnCursor, SnapshotDue, Boundary,
       Current
  <2>3. CASE ~(pc.hand <= client.cursor)
    <3>1. /\ client'.epoch = client.epoch /\ client'.cursor = pc.hand
          /\ seen'.epoch = seen.epoch /\ seen'.base = seen.base
          /\ seen'.got = seen.got \cup {pc.hand}
      BY <1>0, <1>6, <2>3 DEF Deliver, ClientType, SeenType
    <3>2. /\ pc.hand \in Nat /\ client.cursor \in Nat /\ client.cursor <= pc.hand
          /\ seen.base \in Nat /\ seen.got \in SUBSET Nat
      BY <1>0, <2>3 DEF TypeOK, PlaceType, ClientType, SeenType
    <3>3. ASSUME NEW n \in seen'.got, OwnCursor
          PROVE  n <= pc.hand
      BY <3>1, <3>2, <3>3 DEF SnapshotInv
    <3>4. client.epoch = hub.epoch => pc.hand <= Current(hub)
      BY DEF RangeInv
    <3> HIDE DEF Current
    <3> QED
      BY <2>1, <3>1, <3>2, <3>3, <3>4 DEF SnapshotInv, OwnCursor, SnapshotDue, Boundary
  <2> QED
    BY <2>2, <2>3
<1>7. ASSUME Reconnect
      PROVE  SnapshotInv'
  <2>1. /\ UNCHANGED <<hub, request>>
        /\ client'.epoch = hub.epoch /\ client'.cursor = client.cursor
        /\ seen'.epoch = seen.epoch /\ seen'.base = seen.base /\ seen'.got = seen.got
    BY <1>0, <1>7 DEF Reconnect, ClientType, SeenType
  <2>2. CASE client.epoch = hub.epoch
    BY <2>1, <2>2 DEF SnapshotInv, OwnCursor, SnapshotDue, Boundary, Current
  <2>3. CASE client.epoch # hub.epoch
    <3>1. seen.epoch # hub.epoch /\ request.epoch # hub.epoch
      BY <1>0, <2>3 DEF EpochInv, HubType, ClientType, SeenType, RequestType
    <3> QED
      BY <2>1, <3>1 DEF SnapshotInv, OwnCursor, SnapshotDue
  <2> QED
    BY <2>2, <2>3
<1>8. ASSUME RestartDaemon
      PROVE  SnapshotInv'
  <2>1. UNCHANGED <<client, seen>> /\ hub'.epoch = hub.epoch + 1
    BY <1>8 DEF RestartDaemon, NewHub
  <2>2. request'.stage \in {"building", "answered"} => request' = request
    BY <1>0, <1>8 DEF RestartDaemon, Abandon, RequestType
  <2>3. client.epoch # hub'.epoch
    BY <1>0, <2>1 DEF EpochInv, HubType, ClientType
  <2> QED
    BY <2>1, <2>2, <2>3 DEF SnapshotInv, OwnCursor, SnapshotDue, Boundary
<1>9. ASSUME SameCursor
      PROVE  SnapshotInv'
  BY <1>9, SameCursorKeeps
<1> QED
  BY <1>1, <1>2, <1>3, <1>5, <1>6, <1>7, <1>8, <1>9, SameCursorSteps
     DEF Next, Server, Supervise, Selection, Fault

-----------------------------------------------------------------------------
(* The numbers on the way. *)

\* A sequence over a set is one over a larger set: the hub only numbers upwards.
LEMMA SeqGrows ==
  ASSUME NEW S, NEW T, S \subseteq T, NEW s \in Seq(S)
  PROVE  s \in Seq(T)
OBVIOUS

\* What is taken from a sequence or put behind it is of its set.
LEMMA SeqParts ==
  ASSUME NEW S, NEW s \in Seq(S)
  PROVE  /\ s # <<>> => Head(s) \in S /\ Tail(s) \in Seq(S)
         /\ \A x \in S : Append(s, x) \in Seq(S)
OBVIOUS

\* The places of a connection that is down are empty.
LEMMA NoConnectionIsEmpty ==
  /\ NoConnection.up = FALSE /\ NoConnection.resync = FALSE
  /\ NoConnection.replay = <<>> /\ NoConnection.pending = <<>>
  /\ NoConnection.channel = <<>> /\ NoConnection.batch = <<>>
BY DEF NoConnection

\* The steps that leave everything on the way where it is.
SamePath ==
  /\ UNCHANGED <<hub, conn, queue>>
  /\ pc'.hand = pc.hand /\ client'.epoch = client.epoch

\* The steps of snapshots, selections and failures that are like this.
LEMMA SamePathSteps ==
  ASSUME TypeOK, EpochInv,
         \/ BeginSnapshot \/ FinishSnapshot \/ ApplyInitial \/ FailInitial
         \/ RequestResync \/ ApplyResync \/ FailResync
         \/ ApplySelection \/ FailSelection \/ FailSnapshot \/ SelectSession
         \/ MutationConflict \/ UNCHANGED vars
  PROVE  SamePath
<1> USE DEF SamePath
<1>0. /\ client \in ClientType /\ request \in RequestType /\ seen \in SeenType
      /\ pc \in PlaceType /\ client.ack = client.epoch
  BY DEF TypeOK, EpochInv
<1>1. CASE BeginSnapshot \/ FinishSnapshot \/ FailSnapshot \/ UNCHANGED vars
  BY <1>1 DEF BeginSnapshot, FinishSnapshot, FailSnapshot, vars
<1>2. ASSUME applySnapshotLocked, Matches(request)
      PROVE  client'.epoch = client.epoch
  BY <1>0, <1>2, AppliedSnapshot DEF Matches
<1>3. CASE ApplyInitial \/ ApplyResync \/ ApplySelection
  BY <1>0, <1>2, <1>3 DEF ApplyInitial, ApplyResync, ApplySelection, PlaceType
<1>4. CASE FailInitial \/ RequestResync \/ FailSelection
  BY <1>0, <1>4 DEF FailInitial, RequestResync, FailSelection, ClientType, PlaceType
<1>5. CASE FailResync
  BY <1>0, <1>5 DEF FailResync, ClientType, PlaceType
<1>6. CASE SelectSession \/ MutationConflict
  BY <1>0, <1>6 DEF SelectSession, MutationConflict, ClientType, PlaceType
<1> QED
  BY <1>1, <1>3, <1>4, <1>5, <1>6

\* A frame that leaves the server: the place it came from is shorter, the queue has
\* been pushed to or has ended with the connection.
LEMMA FrameCases ==
  ASSUME TypeOK
  PROVE  /\ WriteReplay =>
              /\ conn.replay # <<>> /\ Head(conn.replay) \in Messages
              /\ \/ conn' = NoConnection /\ queue' = Ended(queue)
                 \/ /\ conn' = [conn EXCEPT !.replay = Tail(@)]
                    /\ queue' = Pushed(queue, Head(conn.replay))
         /\ ForwardResync =>
              /\ conn.channel # <<>> /\ Head(conn.channel) = 0
              /\ conn' = [conn EXCEPT !.channel = Tail(@)]
              /\ queue' = Pushed(queue, ResyncMessage(Current(hub)))
         /\ WriteBatch =>
              /\ conn.batch # <<>> /\ Head(conn.batch) \in Nat
              /\ \/ conn' = NoConnection /\ queue' = Ended(queue)
                 \/ /\ conn' = [conn EXCEPT !.batch = Tail(@)]
                    /\ queue' = Pushed(queue, EventMessage(Head(conn.batch)))
         /\ WriteReplay \/ ForwardResync \/ WriteBatch =>
              /\ conn.up /\ UNCHANGED <<hub, client, pc, seen>>
              /\ request' \in {request, Abandon(request)}
<1>1. conn.replay \in Seq(Messages) /\ conn.batch \in Seq(Nat) /\ conn.up \in BOOLEAN
  BY DEF TypeOK, ConnType
<1>2. conn.replay # <<>> => Head(conn.replay) \in Messages
  BY <1>1
<1>3. conn.batch # <<>> => Head(conn.batch) \in Nat
  BY <1>1
<1>4. ~Refused(queue, ResyncMessage(Current(hub)))
  BY DEF Refused, ResyncMessage
<1> QED
  BY <1>2, <1>3, <1>4 DEF WriteReplay, ForwardResync, WriteBatch, Receive

\* Every step keeps the numbers on the way among the hub's.
LEMMA StepRangeInv ==
  TypeOK /\ EpochInv /\ LockInv /\ RangeInv /\ [Next]_vars => RangeInv'
<1> SUFFICES ASSUME TypeOK, EpochInv, LockInv, RangeInv, [Next]_vars,
                    client'.epoch = hub'.epoch
             PROVE  /\ pc'.hand <= Current(hub')
                    /\ Within(queue', Current(hub')) /\ Within(conn'.replay, Current(hub'))
                    /\ conn'.batch \in Seq(1 .. Current(hub'))
                    /\ conn'.channel \in Seq(0 .. Current(hub'))
                    /\ conn'.pending \in Seq(1 .. Current(hub'))
  BY DEF RangeInv
<1> DEFINE c == Current(hub)
           Goal == /\ pc'.hand <= Current(hub')
                   /\ Within(queue', Current(hub')) /\ Within(conn'.replay, Current(hub'))
                   /\ conn'.batch \in Seq(1 .. Current(hub'))
                   /\ conn'.channel \in Seq(0 .. Current(hub'))
                   /\ conn'.pending \in Seq(1 .. Current(hub'))
           In == /\ pc.hand <= c
                 /\ Within(queue, c) /\ Within(conn.replay, c)
                 /\ conn.batch \in Seq(1 .. c) /\ conn.channel \in Seq(0 .. c)
                 /\ conn.pending \in Seq(1 .. c)
<1>0. /\ hub \in HubType /\ conn \in ConnType /\ client \in ClientType /\ pc \in PlaceType
      /\ queue \in Seq(Messages) /\ c \in Nat /\ conn.replay \in Seq(Messages)
      /\ request \in RequestType
  BY CurrentType DEF TypeOK, ConnType
<1>1. client.epoch = hub.epoch => In
  BY DEF RangeInv
<1>2. /\ Within(<<>>, c) /\ <<>> \in Seq(1 .. c) /\ <<>> \in Seq(0 .. c)
  BY DEF Within
<1> HIDE DEF c
<1>3. ASSUME NEW kind \in Kinds, Publish(kind)
      PROVE  Goal
  <2>1. /\ hub'.epoch = hub.epoch /\ Current(hub') = c + 1
        /\ conn' = enqueue(hub', conn, Current(hub')) /\ UNCHANGED <<queue, client, pc>>
    BY <1>0, <1>3, EvictedKeeps DEF Publish, c
  <2>2. In
    BY <1>1, <2>1
  <2>3. 1 .. c \subseteq 1 .. c + 1 /\ 0 .. c \subseteq 0 .. c + 1 /\ c + 1 \in 1 .. c + 1
    BY <1>0
  <2>4. /\ conn.batch \in Seq(1 .. c + 1) /\ conn.channel \in Seq(0 .. c + 1)
        /\ conn.pending \in Seq(1 .. c + 1)
    BY <2>2, <2>3, SeqGrows
  <2>5. Within(queue, c + 1) /\ Within(conn.replay, c + 1)
    BY <2>2, <2>3 DEF Within
  <2>6. conn'.pending \in Seq(1 .. c + 1)
    <3> DEFINE kept == Superseded(hub', conn.pending, c + 1)
    <3>1. kept \in Seq(1 .. c + 1)
      BY <2>4, SupersededType
    <3>2. Append(kept, c + 1) \in Seq(1 .. c + 1) /\ <<>> \in Seq(1 .. c + 1)
      BY <2>3, <3>1, SeqParts
    <3> HIDE DEF kept
    <3>3. \/ conn'.pending = conn.pending
          \/ conn'.pending = <<>>
          \/ conn'.pending = Append(kept, c + 1)
      BY <1>0, <2>1, EnqueueKeeps DEF kept
    <3> QED
      BY <2>4, <3>2, <3>3
  <2>7. /\ conn'.batch = conn.batch /\ conn'.channel = conn.channel
        /\ conn'.replay = conn.replay
    BY <1>0, <2>1, EnqueueKeeps
  <2>8. pc'.hand <= c + 1
    BY <1>0, <2>1, <2>2 DEF PlaceType
  <2> QED
    BY <2>1, <2>4, <2>5, <2>6, <2>7, <2>8
<1>4. ASSUME Pump
      PROVE  Goal
  <2>1. UNCHANGED <<hub, queue, client, pc>> /\ In
    BY <1>1, <1>4 DEF Pump
  <2>2. conn'.replay = conn.replay /\ conn'.batch = conn.batch
    BY <1>0, <1>4 DEF Pump, ConnType
  <2>3. CASE conn.resync
    <3>1. conn'.channel = Append(conn.channel, 0) /\ conn'.pending = conn.pending
      BY <1>0, <1>4, <2>3 DEF Pump, ConnType
    <3>2. 0 \in 0 .. c
      BY <1>0
    <3> QED
      BY <2>1, <2>2, <3>1, <3>2, SeqParts DEF c
  <2>4. CASE ~conn.resync
    <3>1. /\ conn'.channel = Append(conn.channel, Head(conn.pending))
          /\ conn'.pending = Tail(conn.pending) /\ conn.pending # <<>>
      BY <1>0, <1>4, <2>4 DEF Pump, ConnType
    <3>2. Head(conn.pending) \in 1 .. c /\ Tail(conn.pending) \in Seq(1 .. c)
      BY <2>1, <3>1, SeqParts
    <3>3. Head(conn.pending) \in 0 .. c
      BY <1>0, <3>2
    <3> QED
      BY <2>1, <2>2, <3>1, <3>2, <3>3, SeqParts DEF c
  <2> QED
    BY <2>3, <2>4
<1>5. ASSUME Collect
      PROVE  Goal
  <2>1. UNCHANGED <<hub, queue, client, pc>> /\ In /\ conn.channel # <<>> /\ Head(conn.channel) # 0
    BY <1>1, <1>5 DEF Collect
  <2>2. /\ conn'.replay = conn.replay /\ conn'.pending = conn.pending
        /\ conn'.channel = Tail(conn.channel)
        /\ conn'.batch = Append(conn.batch, Head(conn.channel))
    BY <1>0, <1>5 DEF Collect, ConnType
  <2>3. Head(conn.channel) \in 0 .. c /\ Tail(conn.channel) \in Seq(0 .. c)
    BY <2>1, SeqParts
  <2>4. Head(conn.channel) \in 1 .. c
    BY <1>0, <2>1, <2>3
  <2> QED
    BY <2>1, <2>2, <2>3, <2>4, SeqParts DEF c
<1>6. ASSUME conn' = NoConnection, queue' \in {queue, Ended(queue)}, UNCHANGED <<hub, pc>>, In
      PROVE  Goal
  <2>1. Within(Ended(queue), c)
    BY <1>0, <1>6, WithinPushed, MessageTypes
  <2> QED
    BY <1>2, <1>6, <2>1, NoConnectionIsEmpty DEF c
<1>7. ASSUME WriteReplay
      PROVE  Goal
  <2>1. UNCHANGED <<hub, client, pc>> /\ In /\ conn.replay # <<>>
        /\ Head(conn.replay) \in Messages
    BY <1>1, <1>7, FrameCases
  <2>2. CASE conn' = [conn EXCEPT !.replay = Tail(@)]
             /\ queue' = Pushed(queue, Head(conn.replay))
    <3>1. /\ conn'.replay = Tail(conn.replay) /\ conn'.batch = conn.batch
          /\ conn'.channel = conn.channel /\ conn'.pending = conn.pending
      BY <1>0, <2>2 DEF ConnType
    <3>2. /\ Within(Tail(conn.replay), c)
          /\ Head(conn.replay).kind = "event" => Head(conn.replay).sequence \in 1 .. c
      BY <1>0, <2>1, TailLed
    <3>3. Within(Pushed(queue, Head(conn.replay)), c)
      BY <1>0, <2>1, <3>2, WithinPushed
    <3> QED
      BY <2>1, <2>2, <3>1, <3>2, <3>3 DEF c
  <2> QED
    BY <1>6, <1>7, <2>1, <2>2, FrameCases
<1>8. ASSUME ForwardResync
      PROVE  Goal
  <2>1. UNCHANGED <<hub, client, pc>> /\ In /\ conn.channel # <<>>
        /\ queue' = Pushed(queue, ResyncMessage(c))
        /\ conn' = [conn EXCEPT !.channel = Tail(@)]
    BY <1>1, <1>8, FrameCases DEF c
  <2>2. /\ conn'.replay = conn.replay /\ conn'.batch = conn.batch
        /\ conn'.channel = Tail(conn.channel) /\ conn'.pending = conn.pending
    BY <1>0, <2>1 DEF ConnType
  <2>3. Within(Pushed(queue, ResyncMessage(c)), c)
    BY <1>0, <2>1, WithinPushed, MessageTypes
  <2> QED
    BY <2>1, <2>2, <2>3, SeqParts DEF c
<1>9. ASSUME WriteBatch
      PROVE  Goal
  <2>1. UNCHANGED <<hub, client, pc>> /\ In /\ conn.batch # <<>>
        /\ Head(conn.batch) \in Nat
    BY <1>1, <1>9, FrameCases
  <2>2. CASE conn' = [conn EXCEPT !.batch = Tail(@)]
             /\ queue' = Pushed(queue, EventMessage(Head(conn.batch)))
    <3>1. /\ conn'.replay = conn.replay /\ conn'.batch = Tail(conn.batch)
          /\ conn'.channel = conn.channel /\ conn'.pending = conn.pending
      BY <1>0, <2>2 DEF ConnType
    <3>2. Tail(conn.batch) \in Seq(1 .. c) /\ Head(conn.batch) \in 1 .. c
      BY <2>1, SeqParts
    <3>3. Within(Pushed(queue, EventMessage(Head(conn.batch))), c)
      <4> DEFINE m == EventMessage(Head(conn.batch))
      <4>1. m \in Messages /\ m.kind = "event" /\ m.sequence \in 1 .. c
        BY <2>1, <3>2, MessageTypes
      <4> HIDE DEF m
      <4>2. Within(Pushed(queue, m), c)
        BY <1>0, <2>1, <4>1, WithinPushed
      <4> QED
        BY <4>2 DEF m
    <3>4. /\ UNCHANGED <<hub, client, pc>>
          /\ queue' = Pushed(queue, EventMessage(Head(conn.batch)))
      BY <2>1, <2>2
    <3> QED
      BY <2>1, <3>1, <3>2, <3>3, <3>4 DEF c
  <2> QED
    BY <1>6, <1>9, <2>1, <2>2, FrameCases
<1>10. ASSUME NEW after \in Nat, conn' = Connected(after), queue' = <<>>,
              UNCHANGED hub, pc'.hand = 0
       PROVE  Goal
  <2>1. /\ conn'.replay = Opening(after) /\ conn'.pending = <<>>
        /\ conn'.channel = <<>> /\ conn'.batch = <<>>
    BY <1>0, <1>10, ConnectedType
  <2>2. Within(Opening(after), c)
    BY <1>0, <1>10, OpeningLed DEF c
  <2>3. Current(hub') = c /\ pc'.hand <= c
    BY <1>0, <1>10 DEF c
  <2> QED
    BY <1>2, <1>10, <2>1, <2>2, <2>3
<1>11. ASSUME Connect
       PROVE  Goal
  <2>1. pc.hand = 0 /\ queue = <<>>
    BY <1>11 DEF Connect, LockInv
  <2> QED
    BY <1>0, <1>10, <1>11, <2>1 DEF Connect, PlaceType
<1>12. ASSUME Reconnect
       PROVE  Goal
  <2>1. pc.hand = 0
    BY <1>12 DEF Reconnect, LockInv
  <2>2. client.cursor \in Nat
    BY <1>0 DEF ClientType
  <2> QED
    BY <1>0, <1>10, <1>12, <2>1, <2>2 DEF Reconnect, PlaceType
<1>13. ASSUME TakeEvent \/ TakeReplayComplete \/ TakeCovered \/ TakeResync \/ TakeDisconnected
       PROVE  Goal
  <2>1. UNCHANGED <<hub, conn>> /\ queue # <<>> /\ queue' = Tail(queue)
        /\ client'.epoch = client.epoch
    BY <1>0, <1>13 DEF TakeEvent, TakeReplayComplete, TakeCovered, TakeResync,
       TakeDisconnected, Taken, ClientType
  <2>2. In
    BY <1>1, <2>1
  <2>3. /\ Within(Tail(queue), c)
        /\ Head(queue).kind = "event" => Head(queue).sequence \in 1 .. c
    BY <1>0, <2>1, <2>2, TailLed
  <2>4. \/ pc'.hand = pc.hand
        \/ pc'.hand = Head(queue).sequence /\ Head(queue).kind = "event"
    BY <1>0, <1>13 DEF TakeEvent, TakeReplayComplete, TakeCovered, TakeResync,
       TakeDisconnected, Taken, Next1, PlaceType
  <2>5. pc'.hand <= c
    BY <1>0, <2>2, <2>3, <2>4
  <2> QED
    BY <2>1, <2>2, <2>3, <2>5 DEF c
<1>14. ASSUME Deliver
       PROVE  Goal
  <2>1. UNCHANGED <<hub, conn, queue>> /\ client'.epoch = client.epoch /\ pc'.hand = 0
    BY <1>0, <1>14 DEF Deliver, ClientType, PlaceType
  <2> QED
    BY <1>0, <1>1, <2>1 DEF c
<1>15. ASSUME LoseConnection
       PROVE  Goal
  BY <1>1, <1>6, <1>15 DEF LoseConnection
<1>16. ASSUME RestartDaemon
       PROVE  Goal
  <2>1. client' = client /\ hub'.epoch = hub.epoch + 1
    BY <1>16 DEF RestartDaemon, NewHub
  <2> QED
    BY <1>0, <2>1 DEF EpochInv, HubType, ClientType
<1>17. ASSUME SamePath
       PROVE  Goal
  BY <1>1, <1>17 DEF SamePath, c
<1> QED
  BY <1>3, <1>4, <1>5, <1>7, <1>8, <1>9, <1>11, <1>12, <1>13, <1>14, <1>15, <1>16,
     <1>17, SamePathSteps DEF Next, Server, Supervise, Selection, Fault

-----------------------------------------------------------------------------
(* The order on the way. *)

\* What is not given, waived or due after a step that leaves the cursor alone was not
\* before.
LEMMA OwedBefore ==
  ASSUME SameCursor, NEW n, Owed(n)', Due(n) => Due(n)',
         seen.forgone.epoch = client.epoch /\ n <= seen.forgone.upTo
           => seen'.forgone.epoch = client.epoch /\ n <= seen'.forgone.upTo
  PROVE  Owed(n)
BY DEF Owed, Waived, Replaced, SameCursor, OwnCursor, SnapshotDue, Boundary, Current

\* A state that an event replaces stays replaced when the next one is published.
LEMMA ReplacedStays ==
  ASSUME hub \in HubType, NEW kind \in Kinds, hub'.log = Append(hub.log, kind),
         NEW n \in 1 .. Current(hub), Replaced(n)
  PROVE  Replaced(n)'
<1> DEFINE c == Current(hub)
<1>1. /\ c \in Nat /\ c = Len(hub.log) /\ hub.log \in Seq(Kinds)
      /\ Current(hub') = c + 1
  BY DEF HubType, Current
<1>2. PICK m \in n + 1 .. c : ~runtimeEventPolicy(hub.log[m])
  BY DEF Replaced
<1> HIDE DEF c
<1>3. m \in 1 .. c /\ m \in n + 1 .. Current(hub') /\ n \in 1 .. c
  BY <1>1, <1>2 DEF c
<1>4. hub'.log[n] = hub.log[n] /\ hub'.log[m] = hub.log[m]
  BY <1>1, <1>3
<1> QED
  BY <1>2, <1>3, <1>4 DEF Replaced

\* Numbers that are not ahead of event n need no order.
LEMMA NotAheadLed ==
  ASSUME NEW c \in Nat, NEW n \in Nat, c <= n
  PROVE  /\ \A q : Within(q, c) => MessagesLed(q, n)
         /\ \A s \in Seq(0 .. c) : NumbersLed(s, n)
         /\ \A s \in Seq(1 .. c) : NumbersLed(s, n)
<1>1. \A q : Within(q, c) => MessagesLed(q, n)
  BY DEF Within, MessagesLed
<1>2. ASSUME NEW s \in Seq(0 .. c)
      PROVE  NumbersLed(s, n)
  <2>1. \A i \in DOMAIN s : s[i] \in 0 .. c
    OBVIOUS
  <2> QED
    BY <2>1 DEF NumbersLed
<1>3. 1 .. c \subseteq 0 .. c
  OBVIOUS
<1>4. \A s \in Seq(1 .. c) : NumbersLed(s, n)
  BY <1>2, <1>3, SeqGrows
<1> QED
  BY <1>1, <1>2, <1>4

\* Nothing is on the way behind the queue when the connection is down.
LEMMA DownInOrder ==
  ASSUME NEW n \in Nat, conn' = NoConnection, queue \in Seq(Messages), UNCHANGED pc,
         queue' = Ended(queue), InOrder(n)
  PROVE  InOrder(n)'
<1>1. MessagesLed(queue, n) => MessagesLed(Ended(queue), n)
  BY EndedLed
<1>2. /\ MessagesLed(conn'.replay, n) /\ NumbersLed(conn'.batch, n)
      /\ NumbersLed(conn'.channel, n) /\ NumbersLed(conn'.pending, n)
      /\ ~conn'.up
  BY NoConnectionIsEmpty, EmptyLed
<1> QED
  BY <1>1, <1>2 DEF InOrder

\* A connection that is set up has all that follows the cursor, or a resync, in front.
LEMMA OpenInOrder ==
  ASSUME hub \in HubType, NEW after \in Nat, NEW n \in 1 .. Current(hub), after < n,
         conn' = Connected(after), queue' = <<>>, pc'.hand = 0
  PROVE  InOrder(n)'
<1>1. conn'.replay = Opening(after)
  BY ConnectedType
<1>2. Covers(conn'.replay, n) /\ MessagesLed(conn'.replay, n) /\ MessagesLed(queue', n)
  BY <1>1, OpeningLed, EmptyLed
<1>3. pc'.hand <= n
  BY CurrentType
<1>4. BeforeBatch(n)'
  BY <1>2 DEF BeforeBatch
<1> QED
  BY <1>2, <1>3, <1>4 DEF InOrder, BeforeChannel, BeforePending, BeforeNext

\* Every step keeps what is owed in front of what comes after it (enqueue, pump,
\* forwardEvents, push, supervise and the replay of Subscribe).
LEMMA StepPathInv ==
  DeliveryInv /\ [Next]_vars => PathInv'
<1> SUFFICES ASSUME DeliveryInv, [Next]_vars, client'.epoch = hub'.epoch,
                    NEW n \in 1 .. Current(hub'), Owed(n)'
             PROVE  InOrder(n)'
  BY DEF PathInv
<1> DEFINE c == Current(hub)
<1>0. /\ hub \in HubType /\ conn \in ConnType /\ client \in ClientType /\ pc \in PlaceType
      /\ queue \in Seq(Messages) /\ c \in Nat /\ conn.replay \in Seq(Messages)
      /\ request \in RequestType /\ seen \in SeenType
      /\ conn.pending \in Seq(Nat) /\ conn.channel \in Seq(Nat) /\ conn.batch \in Seq(Nat)
      /\ EpochInv /\ LockInv /\ SnapshotInv /\ RangeInv /\ PathInv /\ CursorInv /\ TypeOK
  BY CurrentType DEF DeliveryInv, TypeOK, ConnType
<1>1. ASSUME client.epoch = hub.epoch, n \in 1 .. c, Owed(n)
      PROVE  InOrder(n)
  BY <1>0, <1>1 DEF PathInv
<1>2. ASSUME SameCursor, seen'.forgone = seen.forgone, Due(n) => Due(n)'
      PROVE  client.epoch = hub.epoch /\ n \in 1 .. c /\ n \in Nat /\ InOrder(n)
  <2>1. client.epoch = hub.epoch /\ n \in 1 .. c
    BY <1>2 DEF SameCursor, Current
  <2>2. Owed(n)
    BY <1>2, OwedBefore
  <2>3. n \in Nat
    BY <1>0, <2>1
  <2> QED
    BY <1>1, <2>1, <2>2, <2>3
<1> HIDE DEF c
<1>3. ASSUME SamePath, client.epoch = hub.epoch /\ n \in 1 .. c => InOrder(n)
      PROVE  InOrder(n)'
  <2>1. client.epoch = hub.epoch /\ n \in 1 .. c
    BY <1>3 DEF SamePath, c
  <2> QED
    BY <1>3, <2>1 DEF SamePath, InOrder, BeforeReplay, BeforeBatch, BeforeChannel,
       BeforePending, BeforeNext
<1>4. ASSUME SameCursor, UNCHANGED <<client, pc, seen>>
      PROVE  client.epoch = hub.epoch /\ n \in 1 .. c /\ n \in Nat /\ InOrder(n)
  BY <1>2, <1>4 DEF Due, SameCursor, Boundary
<1>5. ASSUME NEW kind \in Kinds, Publish(kind)
      PROVE  InOrder(n)'
  <2>1. /\ hub'.epoch = hub.epoch /\ Current(hub') = c + 1
        /\ hub'.log = Append(hub.log, kind)
        /\ conn' = enqueue(hub', conn, c + 1)
        /\ UNCHANGED <<queue, client, pc, request, seen>>
    BY <1>0, <1>5, EvictedKeeps DEF Publish, c
  <2>2. client.epoch = hub.epoch /\ n \in 1 .. c + 1 /\ n \in Nat
    BY <1>0, <2>1
  <2>3. /\ conn'.up = conn.up /\ conn'.replay = conn.replay
        /\ conn'.channel = conn.channel /\ conn'.batch = conn.batch
        /\ ~conn.up => conn' = conn
        /\ conn.up => \/ conn'.pending = <<>> /\ conn'.resync = TRUE
                      \/ /\ conn'.pending
                              = Append(Superseded(hub', conn.pending, c + 1), c + 1)
                         /\ conn'.resync = conn.resync
    BY <1>0, <2>1, EnqueueKeeps
  <2>4. /\ pc.hand <= c /\ Within(queue, c) /\ Within(conn.replay, c)
        /\ conn.batch \in Seq(1 .. c) /\ conn.channel \in Seq(0 .. c)
        /\ conn.pending \in Seq(1 .. c)
    BY <1>0, <2>2 DEF RangeInv, c
  <2>5. CASE n = c + 1
    <3>1. /\ MessagesLed(queue, n) /\ MessagesLed(conn.replay, n)
          /\ NumbersLed(conn.batch, n) /\ NumbersLed(conn.channel, n)
          /\ NumbersLed(conn.pending, n)
      BY <1>0, <2>2, <2>4, <2>5, NotAheadLed
    <3>2. pc.hand \in Nat /\ pc.hand <= n
      BY <1>0, <2>4, <2>5 DEF PlaceType
    <3>3. NumbersLed(conn'.pending, n) /\ (conn.up => BeforeNext(n)')
      <4>1. CASE conn.up /\ conn'.pending = <<>> /\ conn'.resync = TRUE
        BY <4>1, EmptyLed DEF BeforeNext, BeforePending
      <4>2. CASE conn.up /\ conn'.pending
                              = Append(Superseded(hub', conn.pending, c + 1), c + 1)
        <5>1. Superseded(hub', conn.pending, c + 1) \in Seq(1 .. c)
          BY <2>4, SupersededType
        <5>2. NumbersLed(Superseded(hub', conn.pending, c + 1), n)
          BY <1>0, <2>2, <2>5, <5>1, NotAheadLed
        <5>3. Superseded(hub', conn.pending, c + 1) \in Seq(Nat)
          BY <1>0, SupersededType
        <5>4. NumbersLed(conn'.pending, n) /\ Has(conn'.pending, n)
          BY <1>0, <2>2, <2>5, <4>2, <5>2, <5>3, AppendLed
        <5> QED
          BY <5>4 DEF BeforeNext
      <4>3. CASE ~conn.up
        BY <2>3, <3>1, <4>3
      <4> QED
        BY <2>3, <4>1, <4>2, <4>3
    <3> QED
      BY <2>1, <2>3, <3>1, <3>2, <3>3 DEF InOrder
  <2>6. CASE n # c + 1
    <3>1. n \in 1 .. c
      BY <1>0, <2>2, <2>6
    <3>3. Replaced(n) => Replaced(n)'
      BY <1>0, <2>1, <3>1, ReplacedStays DEF c
    <3>4. Owed(n)
      BY <2>1, <3>1, <3>3 DEF Owed, Waived, Due, OwnCursor, SnapshotDue, Boundary, c
    <3>5. InOrder(n)
      BY <1>1, <2>2, <3>1, <3>4
    <3>6. ~runtimeEventPolicy(hub'.log[n]) => runtimeEventPolicy(hub'.log[c + 1])
      <4>1. c + 1 \in n + 1 .. Current(hub')
        BY <1>0, <2>1, <3>1
      <4> QED
        BY <4>1 DEF Owed, Replaced
    <3>7. /\ Superseded(hub', conn.pending, c + 1) \in Seq(1 .. c)
          /\ Has(conn.pending, n) => Has(Superseded(hub', conn.pending, c + 1), n)
          /\ NumbersLed(conn.pending, n)
               => NumbersLed(Superseded(hub', conn.pending, c + 1), n)
      <4>1. 0 \notin 1 .. c /\ 1 .. c \subseteq Nat
        BY <1>0
      <4> QED
        BY <2>4, <3>1, <3>6, <4>1, SupersededLed
    <3>8. Superseded(hub', conn.pending, c + 1) \in Seq(Nat)
      BY <1>0, SupersededType
    <3>9. (BeforePending(n)' \/ NumbersLed(conn'.pending, n)) /\ (conn.up => BeforeNext(n)')
      <4>0. BeforePending(n) => BeforePending(n)'
        <5>1. conn'.resync = TRUE \/ conn'.resync = conn.resync
          BY <2>3
        <5> QED
          BY <2>1, <2>3, <5>1 DEF BeforePending, BeforeChannel, BeforeBatch,
             BeforeReplay
      <4>1. CASE conn.up /\ conn'.pending = <<>> /\ conn'.resync = TRUE
        BY <4>1, EmptyLed DEF BeforeNext, BeforePending
      <4>2. CASE conn.up /\ conn'.pending
                              = Append(Superseded(hub', conn.pending, c + 1), c + 1)
        <5>1. CASE BeforePending(n)
          BY <4>0, <5>1 DEF BeforeNext
        <5>2. CASE ~BeforePending(n)
          <6>1. NumbersLed(conn.pending, n) /\ Has(conn.pending, n)
            BY <3>5, <4>2, <5>2 DEF InOrder, BeforeNext
          <6>2. NumbersLed(conn'.pending, n) /\ Has(conn'.pending, n)
            BY <1>0, <2>2, <3>7, <3>8, <4>2, <6>1, AppendLed
          <6> QED
            BY <6>2 DEF BeforeNext
        <5> QED
          BY <5>1, <5>2
      <4>3. CASE ~conn.up
        BY <2>3, <3>5, <4>0, <4>3 DEF InOrder
      <4> QED
        BY <2>3, <4>1, <4>2, <4>3
    <3>10. /\ BeforeReplay(n)' = BeforeReplay(n) /\ BeforeBatch(n)' = BeforeBatch(n)
           /\ BeforeChannel(n)' = BeforeChannel(n)
      BY <2>1, <2>3 DEF BeforeChannel, BeforeBatch, BeforeReplay
    <3> QED
      BY <2>1, <2>3, <3>5, <3>9, <3>10 DEF InOrder
  <2> QED
    BY <2>5, <2>6
<1>6. ASSUME Pump
      PROVE  InOrder(n)'
  <2>0. /\ SameCursor /\ UNCHANGED <<hub, queue, client, pc, seen>> /\ conn.up
        /\ conn.resync \/ conn.pending # <<>>
    BY <1>0, <1>6, SameCursorSteps DEF Pump
  <2>1. n \in Nat /\ n # 0 /\ InOrder(n) /\ client.epoch = hub.epoch
    BY <1>0, <1>4, <2>0
  <2>2. conn'.replay = conn.replay /\ conn'.batch = conn.batch /\ conn'.up = conn.up
    BY <1>0, <1>6 DEF Pump, ConnType
  <2>3. /\ BeforeReplay(n)' = BeforeReplay(n) /\ BeforeBatch(n)' = BeforeBatch(n)
        /\ BeforeChannel(n)' = BeforeChannel(n)
    BY <2>0, <2>2 DEF BeforeChannel, BeforeBatch, BeforeReplay
  <2>4. CASE conn.resync
    <3>1. conn'.channel = Append(conn.channel, 0)
      BY <1>0, <1>6, <2>4 DEF Pump, ConnType
    <3>2. /\ Has(conn'.channel, n)
          /\ NumbersLed(conn.channel, n) => NumbersLed(conn'.channel, n)
      BY <1>0, <2>1, <3>1, AppendLed
    <3>3. BeforePending(n)' /\ BeforeNext(n)'
      BY <3>2 DEF BeforePending, BeforeNext
    <3> QED
      BY <2>0, <2>1, <2>2, <2>3, <3>2, <3>3 DEF InOrder
  <2>5. CASE ~conn.resync
    <3> DEFINE x == Head(conn.pending)
    <3>1. /\ conn'.channel = Append(conn.channel, x) /\ conn'.pending = Tail(conn.pending)
          /\ conn'.resync = conn.resync /\ conn.pending # <<>> /\ conn.resync # TRUE
      BY <1>0, <1>6, <2>0, <2>5 DEF Pump, ConnType
    <3>2. x \in 1 .. c
      BY <1>0, <2>1, <3>1, SeqParts DEF RangeInv, c
    <3>3. x \in Nat /\ x # 0
      BY <1>0, <3>2
    <3>4. /\ Has(conn.pending, n) => x = n \/ Has(conn'.pending, n)
          /\ NumbersLed(conn.pending, n) => /\ x = n \/ NumbersLed(conn'.pending, n)
                                            /\ x <= n
      BY <1>0, <2>1, <3>1, <3>3, TailNumbersLed
    <3> HIDE DEF x
    <3>5. /\ Has(conn.channel, n) \/ x = n => Has(conn'.channel, n)
          /\ NumbersLed(conn.channel, n) /\ (n < x => Has(conn.channel, n))
               => NumbersLed(conn'.channel, n)
      BY <1>0, <2>1, <3>1, <3>3, AppendLed
    <3>6. BeforePending(n) => BeforePending(n)'
      BY <2>3, <3>1, <3>5 DEF BeforePending
    <3>7. BeforeChannel(n)' \/ NumbersLed(conn'.channel, n)
      <4>1. CASE BeforePending(n)
        BY <1>0, <2>1, <2>3, <3>1, <3>5, <4>1 DEF BeforePending, InOrder
      <4>2. CASE ~BeforePending(n)
        <5>1. x <= n /\ ~(n < x)
          BY <2>1, <3>3, <3>4, <4>2 DEF InOrder
        <5> QED
          BY <2>1, <2>3, <3>5, <5>1 DEF InOrder
      <4> QED
        BY <4>1, <4>2
    <3>8. x = n => BeforePending(n)'
      BY <3>5 DEF BeforePending
    <3>9. BeforePending(n)' \/ NumbersLed(conn'.pending, n)
      BY <2>1, <3>4, <3>6, <3>8 DEF InOrder
    <3>10. BeforeNext(n)'
      BY <2>0, <2>1, <3>4, <3>6, <3>8 DEF InOrder, BeforeNext
    <3> QED
      BY <2>0, <2>1, <2>2, <2>3, <3>7, <3>9, <3>10 DEF InOrder
  <2> QED
    BY <2>4, <2>5
<1>7. ASSUME Collect
      PROVE  InOrder(n)'
  <2> DEFINE x == Head(conn.channel)
  <2>0. /\ SameCursor /\ UNCHANGED <<hub, queue, client, pc, seen>> /\ conn.up
        /\ conn.channel # <<>> /\ x # 0
    BY <1>0, <1>7, SameCursorSteps DEF Collect
  <2>1. n \in Nat /\ n # 0 /\ InOrder(n) /\ client.epoch = hub.epoch
    BY <1>0, <1>4, <2>0
  <2>2. /\ conn'.replay = conn.replay /\ conn'.pending = conn.pending /\ conn'.up = conn.up
        /\ conn'.channel = Tail(conn.channel) /\ conn'.batch = Append(conn.batch, x)
        /\ conn'.resync = conn.resync
    BY <1>0, <1>7 DEF Collect, ConnType
  <2>3. BeforeReplay(n)' = BeforeReplay(n) /\ BeforeBatch(n)' = BeforeBatch(n)
    BY <2>0, <2>2 DEF BeforeBatch, BeforeReplay
  <2>4. x \in Nat
    BY <1>0, <2>0, SeqParts
  <2>5. /\ Has(conn.channel, n) => x = n \/ Has(conn'.channel, n)
        /\ NumbersLed(conn.channel, n) => /\ x = n \/ NumbersLed(conn'.channel, n)
                                          /\ x <= n
    BY <1>0, <2>0, <2>1, <2>2, <2>4, TailNumbersLed
  <2> HIDE DEF x
  <2>6. /\ Has(conn.batch, n) \/ x = n => Has(conn'.batch, n)
        /\ NumbersLed(conn.batch, n) /\ (n < x => Has(conn.batch, n))
             => NumbersLed(conn'.batch, n)
    BY <1>0, <2>1, <2>2, <2>4, AppendLed
  <2>7. BeforeChannel(n) => BeforeChannel(n)'
    BY <2>3, <2>6 DEF BeforeChannel
  <2>8. x = n => BeforeChannel(n)'
    BY <2>6 DEF BeforeChannel
  <2>9. BeforeBatch(n)' \/ NumbersLed(conn'.batch, n)
    <3>1. CASE BeforeChannel(n)
      BY <2>1, <2>3, <2>6, <3>1 DEF BeforeChannel, InOrder
    <3>2. CASE ~BeforeChannel(n)
      <4>1. x <= n /\ ~(n < x)
        BY <2>1, <2>4, <2>5, <3>2 DEF InOrder
      <4> QED
        BY <2>1, <2>3, <2>6, <4>1 DEF InOrder
    <3> QED
      BY <3>1, <3>2
  <2>10. BeforeChannel(n)' \/ NumbersLed(conn'.channel, n)
    BY <2>1, <2>5, <2>7, <2>8 DEF InOrder
  <2>11. BeforePending(n) => BeforePending(n)'
    BY <2>2, <2>5, <2>7, <2>8 DEF BeforePending
  <2>12. BeforeNext(n) => BeforeNext(n)'
    BY <2>2, <2>11 DEF BeforeNext
  <2> QED
    BY <2>0, <2>1, <2>2, <2>3, <2>9, <2>10, <2>11, <2>12 DEF InOrder
<1>8. ASSUME conn' = NoConnection, queue' = Ended(queue), UNCHANGED pc, InOrder(n), n \in Nat
      PROVE  InOrder(n)'
  BY <1>0, <1>8, DownInOrder
<1>9. ASSUME WriteReplay
      PROVE  InOrder(n)'
  <2> DEFINE m == Head(conn.replay)
  <2>0. /\ SameCursor /\ UNCHANGED <<hub, client, pc, seen>>
        /\ conn.replay # <<>> /\ m \in Messages
        /\ \/ conn' = NoConnection /\ queue' = Ended(queue)
           \/ conn' = [conn EXCEPT !.replay = Tail(@)] /\ queue' = Pushed(queue, m)
    BY <1>0, <1>9, SameCursorSteps, FrameCases
  <2>1. n \in Nat /\ InOrder(n)
    BY <1>4, <2>0
  <2>2. CASE conn' = [conn EXCEPT !.replay = Tail(@)] /\ queue' = Pushed(queue, m)
    <3>1. /\ conn'.replay = Tail(conn.replay) /\ conn'.batch = conn.batch
          /\ conn'.channel = conn.channel /\ conn'.pending = conn.pending
          /\ conn'.up = conn.up /\ conn'.resync = conn.resync
      BY <1>0, <2>2 DEF ConnType
    <3>2. /\ Covers(conn.replay, n) => Brings(m, n) \/ Covers(conn'.replay, n)
          /\ MessagesLed(conn.replay, n) => /\ Brings(m, n) \/ MessagesLed(conn'.replay, n)
                                            /\ m.kind = "event" => m.sequence <= n
      BY <1>0, <2>0, <2>1, <3>1, TailLed
    <3> HIDE DEF m
    <3>3. /\ Covers(queue, n) \/ Brings(m, n) => Covers(queue', n)
          /\ MessagesLed(queue, n) /\ (m.kind = "event" /\ n < m.sequence => Covers(queue, n))
               => MessagesLed(queue', n)
      BY <1>0, <2>0, <2>1, <2>2, PushedLed
    <3>4. n = pc.hand \/ MessagesLed(queue', n)
      <4>1. m.kind = "event" /\ n < m.sequence
              => n = pc.hand \/ Covers(queue, n)
        <5>1. m.kind = "event" /\ n < m.sequence => ~(m.sequence <= n)
          BY <2>0, <2>1 DEF Messages
        <5> QED
          BY <2>1, <3>2, <5>1 DEF InOrder, BeforeReplay
      <4> QED
        BY <2>1, <3>3, <4>1 DEF InOrder
    <3>5. BeforeReplay(n) \/ Brings(m, n) => BeforeReplay(n)'
      BY <2>0, <3>3 DEF BeforeReplay
    <3>6. BeforeReplay(n)' \/ MessagesLed(conn'.replay, n)
      BY <2>1, <3>2, <3>5 DEF InOrder
    <3>7. BeforeBatch(n) => BeforeBatch(n)'
      BY <3>2, <3>5 DEF BeforeBatch
    <3> QED
      BY <2>0, <2>1, <3>1, <3>4, <3>6, <3>7 DEF InOrder, BeforeChannel, BeforePending,
         BeforeNext
  <2> QED
    BY <1>8, <2>0, <2>1, <2>2
<1>10. ASSUME ForwardResync
       PROVE  InOrder(n)'
  <2> DEFINE m == ResyncMessage(Current(hub))
  <2>0. /\ SameCursor /\ UNCHANGED <<hub, client, pc, seen>>
        /\ queue' = Pushed(queue, m)
    BY <1>0, <1>10, SameCursorSteps, FrameCases
  <2>1. n \in Nat /\ InOrder(n)
    BY <1>4, <2>0
  <2>2. m \in Messages /\ m.kind = "resync"
    BY <1>0, MessageTypes DEF c
  <2> HIDE DEF m
  <2>3. /\ Covers(queue', n)
        /\ MessagesLed(queue, n) => MessagesLed(queue', n)
    BY <1>0, <2>0, <2>1, <2>2, PushedLed DEF Brings
  <2>4. BeforeReplay(n)'
    BY <2>3 DEF BeforeReplay
  <2> QED
    BY <2>0, <2>1, <2>3, <2>4 DEF InOrder, BeforeBatch, BeforeChannel, BeforePending,
       BeforeNext
<1>11. ASSUME WriteBatch
       PROVE  InOrder(n)'
  <2> DEFINE x == Head(conn.batch)
             m == EventMessage(x)
  <2>0. /\ SameCursor /\ UNCHANGED <<hub, client, pc, seen>>
        /\ conn.batch # <<>> /\ x \in Nat
        /\ \/ conn' = NoConnection /\ queue' = Ended(queue)
           \/ conn' = [conn EXCEPT !.batch = Tail(@)] /\ queue' = Pushed(queue, m)
    BY <1>0, <1>11, SameCursorSteps, FrameCases
  <2>1. n \in Nat /\ InOrder(n) /\ client.epoch = hub.epoch
    BY <1>4, <2>0
  <2>2. conn.replay = <<>>
    BY <1>0, <2>0 DEF EpochInv
  <2>3. x # 0
    <3>1. x \in 1 .. c
      BY <1>0, <2>0, <2>1, SeqParts DEF RangeInv, c
    <3> QED
      BY <1>0, <3>1
  <2>4. CASE conn' = [conn EXCEPT !.batch = Tail(@)] /\ queue' = Pushed(queue, m)
    <3>1. /\ conn'.batch = Tail(conn.batch) /\ conn'.replay = conn.replay
          /\ conn'.channel = conn.channel /\ conn'.pending = conn.pending
          /\ conn'.up = conn.up /\ conn'.resync = conn.resync
      BY <1>0, <2>4 DEF ConnType
    <3>2. /\ Has(conn.batch, n) => x = n \/ Has(conn'.batch, n)
          /\ NumbersLed(conn.batch, n) => /\ x = n \/ NumbersLed(conn'.batch, n)
                                          /\ x <= n
      BY <1>0, <2>0, <2>1, <2>3, <3>1, TailNumbersLed
    <3>3. m \in Messages /\ m.kind = "event" /\ m.sequence = x
      BY <2>0, MessageTypes
    <3> HIDE DEF x, m
    <3>4. /\ Covers(queue, n) \/ x = n => Covers(queue', n)
          /\ MessagesLed(queue, n) /\ (n < x => Covers(queue, n)) => MessagesLed(queue', n)
      BY <1>0, <2>1, <2>4, <3>3, PushedLed DEF Brings
    <3>5. BeforeBatch(n) <=> BeforeReplay(n)
      BY <2>2, EmptyLed DEF BeforeBatch
    <3>6. n = pc.hand \/ MessagesLed(queue', n)
      <4>1. n < x => n = pc.hand \/ Covers(queue, n)
        <5>1. n < x => ~(x <= n)
          BY <2>0, <2>1
        <5> QED
          BY <2>1, <3>2, <3>5, <5>1 DEF InOrder, BeforeReplay
      <4> QED
        BY <2>1, <3>4, <4>1 DEF InOrder
    <3>7. BeforeReplay(n) \/ x = n => BeforeReplay(n)'
      BY <2>0, <3>4 DEF BeforeReplay
    <3>8. MessagesLed(conn'.replay, n)
      BY <2>2, <3>1, EmptyLed
    <3>9. BeforeBatch(n)' \/ NumbersLed(conn'.batch, n)
      BY <2>1, <3>2, <3>5, <3>7 DEF InOrder, BeforeBatch
    <3>10. BeforeChannel(n) => BeforeChannel(n)'
      BY <3>2, <3>5, <3>7 DEF BeforeChannel, BeforeBatch
    <3> QED
      BY <2>0, <2>1, <3>1, <3>6, <3>8, <3>9, <3>10 DEF InOrder, BeforePending,
         BeforeNext
  <2> QED
    BY <1>8, <2>0, <2>1, <2>4
<1>12. ASSUME LoseConnection
       PROVE  InOrder(n)'
  <2>1. SameCursor /\ UNCHANGED <<client, pc, seen>> /\ conn' = NoConnection
        /\ queue' = Ended(queue)
    BY <1>0, <1>12, SameCursorSteps DEF LoseConnection
  <2> QED
    BY <1>4, <1>8, <2>1
<1>13. ASSUME RestartDaemon
       PROVE  InOrder(n)'
  <2>1. client' = client /\ hub'.epoch = hub.epoch + 1
    BY <1>13 DEF RestartDaemon, NewHub
  <2> QED
    BY <1>0, <2>1 DEF EpochInv, HubType, ClientType
<1>14. ASSUME Connect
       PROVE  InOrder(n)'
  <2>1. pc.hand = 0 /\ queue = <<>>
    BY <1>0, <1>14 DEF Connect, LockInv
  <2>2. /\ conn' = Connected(0) /\ queue' = <<>> /\ pc'.hand = 0 /\ hub' = hub
    BY <1>0, <1>14, <2>1 DEF Connect, PlaceType
  <2>3. n \in 1 .. Current(hub) /\ 0 < n
    BY <1>0, <2>2 DEF c
  <2> QED
    BY <1>0, <2>2, <2>3, OpenInOrder
<1>15. ASSUME Reconnect
       PROVE  InOrder(n)'
  <2> DEFINE after == IF client.epoch = hub.epoch THEN client.cursor ELSE 0
  <2>1. pc.hand = 0
    BY <1>0, <1>15 DEF Reconnect, LockInv
  <2>2. /\ conn' = Connected(after) /\ queue' = <<>> /\ pc'.hand = 0 /\ hub' = hub
        /\ client'.epoch = hub.epoch /\ request' = request /\ pc'.supervise # "resync"
    BY <1>0, <1>15, <2>1 DEF Reconnect, PlaceType, ClientType
  <2>3. after \in Nat /\ n \in 1 .. Current(hub) /\ n \in 1 .. c /\ n \in Nat /\ n # 0
    BY <1>0, <2>2 DEF ClientType, c
  <2>4. CASE after < n
    BY <1>0, <2>2, <2>3, <2>4, OpenInOrder
  <2>5. CASE ~(after < n)
    <3>1. client.epoch = hub.epoch /\ n \in 1 .. client.cursor
      BY <1>0, <2>3, <2>5 DEF ClientType
    <3>2. CASE seen.epoch # client.epoch
      <4>1. seen'.forgone = Forgone("stale cursor")
        BY <1>0, <1>15, <3>1, <3>2 DEF Reconnect, SeenType
      <4>2. seen'.forgone.epoch = client'.epoch /\ n <= seen'.forgone.upTo
        <5>1. Forgone("stale cursor").epoch = client.epoch /\ Forgone("stale cursor").upTo = c
          BY DEF Forgone, c
        <5>2. n <= c
          BY <1>0, <2>3
        <5> QED
          BY <2>2, <3>1, <4>1, <5>1, <5>2
      <4> QED
        BY <4>2 DEF Owed, Waived
    <3>3. CASE seen.epoch = client.epoch
      <4>1. seen' = seen
        BY <1>15, <3>3 DEF Reconnect
      <4>2. \/ Given(n)
            \/ seen.forgone.epoch = client.epoch /\ n <= seen.forgone.upTo
        BY <1>0, <3>1, <3>3 DEF CursorInv, OwnCursor
      <4>3. Given(n)' = Given(n)
        BY <2>2, <4>1 DEF Given, Replaced, Current
      <4> QED
        BY <2>2, <3>1, <3>3, <4>1, <4>2, <4>3 DEF Owed, Waived, OwnCursor, Given
    <3> QED
      BY <3>2, <3>3
  <2> QED
    BY <2>4, <2>5
<1>16. ASSUME TakeEvent \/ TakeReplayComplete \/ TakeCovered \/ TakeResync \/ TakeDisconnected
       PROVE  InOrder(n)'
  <2> DEFINE m == Head(queue)
  <2>0. /\ pc.supervise = "next" /\ pc.hand = 0 /\ client.applyMu # "supervise"
        /\ UNCHANGED <<hub, conn, request>> /\ queue # <<>> /\ queue' = Tail(queue)
        /\ client'.epoch = client.epoch /\ client'.applyMu = client.applyMu
    BY <1>0, <1>16 DEF TakeEvent, TakeReplayComplete, TakeCovered, TakeResync,
       TakeDisconnected, Taken, LockInv, PlaceType, ClientType
  <2>1. SameCursor /\ ~Due(n) /\ n \in 1 .. c /\ n \in Nat /\ n # 0
    BY <1>0, <1>16, <2>0, SameCursorSteps DEF Due, c
  <2>2. CASE TakeCovered
    <3>1. seen'.forgone = Forgone("skipped")
      BY <1>0, <2>2 DEF TakeCovered, SeenType
    <3>2. Forgone("skipped").epoch = client.epoch /\ Forgone("skipped").upTo = c /\ n <= c
      BY <1>0, <2>1 DEF Forgone, c
    <3>3. Waived(n)'
      BY <2>0, <3>1, <3>2 DEF Waived
    <3> QED
      BY <3>3 DEF Owed
  <2>3. CASE TakeResync
    <3>1. pc'.supervise = "resync"
      BY <1>0, <2>3 DEF TakeResync, PlaceType
    <3>2. Due(n)'
      BY <2>0, <3>1 DEF Due
    <3> QED
      BY <3>2 DEF Owed
  <2>4. CASE TakeEvent \/ TakeReplayComplete \/ TakeDisconnected
    <3>1. seen' = seen /\ m.kind \in {"event", "complete", "disconnected"}
          /\ pc'.hand = IF m.kind = "event" THEN m.sequence ELSE 0
      BY <1>0, <2>0, <2>4 DEF TakeEvent, TakeReplayComplete, TakeDisconnected, Taken,
         Next1, PlaceType
    <3>2. InOrder(n)
      BY <1>2, <2>1, <3>1
    <3>3. MessagesLed(queue, n)
      BY <2>0, <2>1, <3>2 DEF InOrder
    <3>4. /\ m \in Messages
          /\ Covers(queue, n) => Brings(m, n) \/ Covers(queue', n)
          /\ Brings(m, n) \/ MessagesLed(queue', n)
          /\ m.kind = "event" => m.sequence <= n
      BY <1>0, <2>0, <2>1, <3>3, TailLed
    <3> HIDE DEF m
    <3>5. pc'.hand <= n /\ (Brings(m, n) => n = pc'.hand)
      BY <2>1, <3>1, <3>4 DEF Brings
    <3>6. n = pc'.hand \/ MessagesLed(queue', n)
      BY <3>4, <3>5
    <3>7. BeforeReplay(n) => BeforeReplay(n)'
      BY <2>0, <2>1, <3>4, <3>5 DEF BeforeReplay
    <3>8. BeforeBatch(n) => BeforeBatch(n)'
      BY <2>0, <3>7 DEF BeforeBatch
    <3>9. BeforeChannel(n) => BeforeChannel(n)'
      BY <2>0, <3>8 DEF BeforeChannel
    <3>10. BeforePending(n) => BeforePending(n)'
      BY <2>0, <3>9 DEF BeforePending
    <3>11. BeforeNext(n) => BeforeNext(n)'
      BY <2>0, <3>10 DEF BeforeNext
    <3> QED
      BY <2>0, <3>2, <3>5, <3>6, <3>7, <3>8, <3>9, <3>10, <3>11 DEF InOrder
  <2> QED
    BY <1>16, <2>2, <2>3, <2>4
<1>17. ASSUME Deliver
       PROVE  InOrder(n)'
  <2>0. /\ UNCHANGED <<hub, conn, queue, request>> /\ pc.supervise = "deliver"
        /\ client'.epoch = client.epoch /\ pc'.hand = 0 /\ request.stage = "none"
        /\ seen'.epoch = seen.epoch /\ seen'.base = seen.base
        /\ seen'.forgone = seen.forgone
        /\ pc.hand <= client.cursor \/ seen'.got = seen.got \cup {pc.hand}
        /\ pc.hand <= client.cursor => seen'.got = seen.got
    BY <1>0, <1>17 DEF Deliver, LockInv, ClientType, PlaceType, SeenType, RequestType
  <2>1. client.epoch = hub.epoch /\ n \in 1 .. c /\ n \in Nat /\ n # 0
    BY <1>0, <2>0 DEF c
  <2>2. OwnCursor /\ OwnCursor'
    BY <2>0 DEF Owed, Waived, OwnCursor, SnapshotDue, Boundary
  <2>3. Replaced(n)' = Replaced(n)
    BY <2>0 DEF Replaced, Current
  <2>4. ~Replaced(n) /\ ~(n <= seen.base \/ n \in seen.got)
    BY <2>0, <2>2, <2>3 DEF Owed
  <2>5. ~Waived(n)
    BY <2>0, <2>2 DEF Owed, Waived
  <2>6. Owed(n)
    BY <2>0, <2>1, <2>4, <2>5 DEF Owed, Due, c
  <2>7. InOrder(n)
    BY <1>1, <2>1, <2>6
  <2>8. n # pc.hand
    <3>1. CASE pc.hand <= client.cursor
      <4>1. n = pc.hand => n \in 1 .. client.cursor
        BY <1>0, <2>1, <3>1 DEF ClientType
      <4> QED
        BY <1>0, <2>1, <2>2, <2>4, <2>5, <4>1 DEF CursorInv, Given, Waived
    <3>2. CASE ~(pc.hand <= client.cursor)
      BY <2>0, <2>2, <3>2 DEF Owed
    <3> QED
      BY <3>1, <3>2
  <2> QED
    BY <2>0, <2>1, <2>7, <2>8 DEF InOrder, BeforeReplay, BeforeBatch, BeforeChannel,
       BeforePending, BeforeNext
<1>18. ASSUME BeginSnapshot
       PROVE  InOrder(n)'
  <2>0. /\ SamePath /\ UNCHANGED <<hub, client, pc, seen>> /\ request.stage = "sent"
        /\ request'.boundary = c /\ request'.epoch = hub.epoch
    BY <1>0, <1>18, SamePathSteps DEF BeginSnapshot, RequestType, c
  <2>1. client.epoch = hub.epoch /\ n \in 1 .. c /\ n <= c
    BY <1>0, <2>0 DEF c
  <2>2. OwnCursor
    BY <2>0, <2>1 DEF Owed, Waived, OwnCursor, SnapshotDue
  <2>3. ~Waived(n)
    BY <2>0, <2>2 DEF Owed, Waived, OwnCursor
  <2>4. ~Due(n)
    BY <2>0, <2>1 DEF Owed, Due
  <2>5. Replaced(n) = Replaced(n)'
    BY <2>0 DEF Replaced, Current
  <2>6. Owed(n)
    BY <2>0, <2>1, <2>2, <2>3, <2>4, <2>5 DEF Owed, OwnCursor, c
  <2> QED
    BY <1>1, <1>3, <2>0, <2>1, <2>6
<1>19. ASSUME ApplyInitial \/ ApplyResync \/ ApplySelection
       PROVE  InOrder(n)'
  <2>0. /\ SamePath /\ applySnapshotLocked /\ request.stage = "answered"
        /\ request.epoch = client.epoch /\ UNCHANGED hub
    BY <1>0, <1>19, SamePathSteps DEF ApplyInitial, ApplyResync, ApplySelection,
       Matches,
       EpochInv, SamePath
  <2>1. /\ client'.epoch = client.epoch /\ seen'.epoch = client.epoch
        /\ seen'.base = request.boundary /\ client'.applyMu = "free"
        /\ \/ ~(client.epoch = seen.forgone.epoch /\ request.boundary < seen.forgone.upTo)
           \/ seen'.forgone = seen.forgone
    BY <1>0, <2>0, AppliedSnapshot
  <2>2. SnapshotDue /\ client.epoch = hub.epoch
    BY <2>0, <2>1 DEF SnapshotDue, Boundary
  <2>3. /\ n \in 1 .. c /\ n \in Nat /\ request.boundary \in Nat
        /\ client.cursor \in Nat /\ seen.base \in Nat /\ seen.got \in SUBSET Nat
        /\ seen.forgone.upTo \in Nat
    <3>1. n \in 1 .. c /\ n \in Nat
      BY <1>0, <2>0 DEF c
    <3>2. seen.forgone \in ForgoneType
      BY <1>0 DEF SeenType
    <3> QED
      BY <1>0, <3>1, <3>2 DEF ClientType, RequestType, SeenType, ForgoneType
  <2>4. request.boundary < n
    BY <2>1, <2>3 DEF Owed, OwnCursor
  <2>5. OwnCursor => ~(n <= seen.base \/ n \in seen.got)
    BY <1>0, <2>2, <2>3, <2>4 DEF SnapshotInv
  <2>6. ~Waived(n)
    <3>1. ~(seen'.forgone.epoch = client.epoch /\ n <= seen'.forgone.upTo)
      BY <2>1 DEF Owed, Waived
    <3>2. ~(seen.forgone.epoch = client.epoch /\ n <= seen.forgone.upTo)
      BY <2>1, <2>3, <2>4, <3>1
    <3>3. ~(n <= request.boundary)
      BY <2>3, <2>4
    <3> QED
      BY <2>2, <3>2, <3>3 DEF Waived
  <2>7. ~Due(n)
    <3>1. CASE ApplyInitial
      BY <3>1 DEF ApplyInitial, Due
    <3>2. CASE ApplyResync
      <4>1. ~(n <= request.boundary)
        BY <2>3, <2>4
      <4> QED
        BY <2>2, <3>2, <4>1 DEF ApplyResync, Due, SnapshotDue
    <3>3. CASE ApplySelection
      <4>1. pc'.supervise = pc.supervise
        BY <1>0, <3>3 DEF ApplySelection, PlaceType
      <4> QED
        BY <2>1, <4>1 DEF Owed, Due
    <3> QED
      BY <1>19, <3>1, <3>2, <3>3
  <2>8. Replaced(n) = Replaced(n)'
    BY <2>0 DEF Replaced, Current
  <2>9. Owed(n)
    BY <2>3, <2>5, <2>6, <2>7, <2>8 DEF Owed, c
  <2> QED
    BY <1>1, <1>3, <2>0, <2>9
<1>20. ASSUME FinishSnapshot \/ FailInitial \/ RequestResync \/ FailSelection \/ FailSnapshot
              \/ SelectSession \/ MutationConflict \/ UNCHANGED vars
       PROVE  InOrder(n)'
  <2>1. SameCursor /\ SamePath
    BY <1>0, <1>20, SameCursorSteps, SamePathSteps
  <2>2. seen' = seen
    BY <1>20 DEF FinishSnapshot, FailInitial, RequestResync, FailSelection,
       FailSnapshot,
       SelectSession, MutationConflict, vars
  <2>3. Due(n) => Due(n)'
    <3> SUFFICES ASSUME Due(n)
                 PROVE  Due(n)'
      OBVIOUS
    <3>1. pc.supervise = "resync"
      BY DEF Due
    <3>2. CASE FinishSnapshot \/ FailSnapshot \/ UNCHANGED vars
      <4>1. UNCHANGED <<pc, client>>
        BY <3>2 DEF FinishSnapshot, FailSnapshot, vars
      <4> QED
        BY <2>1, <4>1 DEF Due, SameCursor, Boundary
    <3>3. CASE FailInitial
      BY <3>1, <3>3 DEF FailInitial
    <3>4. CASE RequestResync
      BY <1>0, <3>1, <3>4 DEF RequestResync, Requested, NoRequest, Due, Boundary
    <3>5. CASE FailSelection \/ SelectSession
      <4>1. pc'.supervise = pc.supervise /\ client'.applyMu # "supervise"
        BY <1>0, <3>5 DEF FailSelection, SelectSession, PlaceType, ClientType
      <4> QED
        BY <3>1, <4>1 DEF Due
    <3>6. CASE MutationConflict
      <4>1. UNCHANGED <<pc, request>> /\ client'.applyMu = client.applyMu
        BY <1>0, <3>6 DEF MutationConflict, ClientType
      <4> QED
        BY <4>1 DEF Due, Boundary
    <3> QED
      BY <1>20, <3>2, <3>3, <3>4, <3>5, <3>6
  <2> QED
    BY <1>2, <1>3, <2>1, <2>2, <2>3
<1>21. ASSUME FailResync
       PROVE  InOrder(n)'
  <2>0. SameCursor /\ SamePath /\ n \in 1 .. c
    BY <1>0, <1>21, SameCursorSteps, SamePathSteps DEF SamePath, c
  <2>1. CASE pc.supervise = "resync"
    <3>1. seen'.forgone = Forgone("failed")
      BY <1>0, <1>21, <2>1 DEF FailResync, SeenType
    <3>2. Forgone("failed").epoch = client.epoch /\ Forgone("failed").upTo = c /\ n <= c
      BY <1>0, <2>0 DEF Forgone, c
    <3>3. Waived(n)'
      BY <2>0, <3>1, <3>2 DEF Waived, SamePath
    <3> QED
      BY <3>3 DEF Owed
  <2>2. CASE pc.supervise # "resync"
    <3>1. seen' = seen /\ ~Due(n)
      BY <1>21, <2>2 DEF FailResync, Due
    <3> QED
      BY <1>2, <1>3, <2>0, <3>1
  <2> QED
    BY <2>1, <2>2
<1> QED
  BY <1>5, <1>6, <1>7, <1>9, <1>10, <1>11, <1>12, <1>13, <1>14, <1>15, <1>16, <1>17,
     <1>18, <1>19, <1>20, <1>21 DEF Next, Server, Supervise, Selection, Fault

-----------------------------------------------------------------------------
(* The theorems. *)

\* Every step keeps what the cursor has passed given (deliver drops and delivers, a
\* snapshot has what is up to its boundary).
LEMMA StepCursorInv ==
  DeliveryInv /\ [Next]_vars => CursorInv'
<1> DEFINE Passed(n) == \/ Given(n)
                        \/ seen.forgone.epoch = client.epoch /\ n <= seen.forgone.upTo
<1> SUFFICES ASSUME DeliveryInv, [Next]_vars, OwnCursor', client'.epoch = hub'.epoch,
                    NEW n \in 1 .. client'.cursor
             PROVE  Passed(n)'
  BY DEF CursorInv
<1> DEFINE c == Current(hub)
<1>0. /\ hub \in HubType /\ client \in ClientType /\ pc \in PlaceType
      /\ c \in Nat /\ request \in RequestType /\ seen \in SeenType
      /\ client.cursor \in Nat /\ pc.hand \in Nat
      /\ EpochInv /\ LockInv /\ SnapshotInv /\ RangeInv /\ PathInv /\ CursorInv /\ TypeOK
  BY CurrentType DEF DeliveryInv, TypeOK, ClientType, PlaceType
<1>1. ASSUME OwnCursor, client.epoch = hub.epoch, n \in 1 .. client.cursor
      PROVE  Passed(n) /\ n \in 1 .. c
  <2>1. client.cursor <= c
    BY <1>0, <1>1 DEF SnapshotInv
  <2>2. n \in 1 .. c
    BY <1>0, <1>1, <2>1
  <2> QED
    BY <1>0, <1>1, <2>2 DEF CursorInv
<1>2. ASSUME UNCHANGED hub, client'.epoch = client.epoch, client'.cursor = client.cursor,
             seen'.epoch = seen.epoch, seen'.base = seen.base, seen'.got = seen.got,
             \/ seen'.forgone = seen.forgone
             \/ \E why : seen'.forgone = Forgone(why)
      PROVE  Passed(n)'
  <2>1. Passed(n) /\ n \in 1 .. c
    BY <1>1, <1>2 DEF OwnCursor
  <2>2. Given(n)' = Given(n)
    BY <1>2 DEF Given, Replaced, Current
  <2>3. CASE seen'.forgone = seen.forgone
    BY <1>2, <2>1, <2>2, <2>3
  <2>4. CASE \E why : seen'.forgone = Forgone(why)
    <3>1. seen'.forgone.epoch = client.epoch /\ seen'.forgone.upTo = c
      BY <2>4 DEF Forgone, c
    <3>2. n <= c
      BY <1>0, <2>1
    <3> QED
      BY <1>2, <3>1, <3>2
  <2> QED
    BY <1>2, <2>3, <2>4
<1> HIDE DEF c, Passed
<1>3. ASSUME NEW kind \in Kinds, Publish(kind)
      PROVE  Passed(n)'
  <2>1. /\ hub'.epoch = hub.epoch /\ hub'.log = Append(hub.log, kind)
        /\ UNCHANGED <<client, seen>>
    BY <1>0, <1>3, EvictedKeeps DEF Publish
  <2>2. Passed(n) /\ n \in 1 .. Current(hub)
    BY <1>1, <2>1 DEF OwnCursor, c
  <2>3. Given(n) => Given(n)'
    BY <1>0, <2>1, <2>2, ReplacedStays DEF Given
  <2> QED
    BY <2>1, <2>2, <2>3 DEF Passed
<1>4. ASSUME Connect
      PROVE  Passed(n)'
  <2>1. client'.cursor = 0
    BY <1>0, <1>4 DEF Connect, LockInv, ClientType
  <2> QED
    BY <2>1
<1>5. ASSUME ApplyInitial \/ ApplyResync \/ ApplySelection
      PROVE  Passed(n)'
  <2>1. client'.cursor = seen'.base /\ client'.cursor \in Nat
    BY <1>0, <1>5, AppliedSnapshot DEF ApplyInitial, ApplyResync, ApplySelection,
       RequestType
  <2> QED
    BY <2>1 DEF Passed, Given
<1>6. ASSUME Deliver
      PROVE  Passed(n)'
  <2>0. /\ UNCHANGED hub /\ client'.epoch = client.epoch /\ seen'.epoch = seen.epoch
        /\ seen'.base = seen.base /\ seen'.forgone = seen.forgone
        /\ pc.supervise = "deliver"
    BY <1>0, <1>6 DEF Deliver, ClientType, SeenType
  <2>1. OwnCursor /\ client.epoch = hub.epoch
    BY <2>0 DEF OwnCursor
  <2>2. CASE pc.hand <= client.cursor
    BY <1>2, <1>6, <2>0, <2>2 DEF Deliver
  <2>3. CASE ~(pc.hand <= client.cursor)
    <3>1. client'.cursor = pc.hand /\ seen'.got = seen.got \cup {pc.hand}
      BY <1>0, <1>6, <2>3 DEF Deliver, ClientType, SeenType
    <3>2. Replaced(n)' = Replaced(n)
      BY <2>0 DEF Replaced, Current
    <3>3. Given(n) => Given(n)'
      BY <2>0, <3>1, <3>2 DEF Given
    <3>4. Passed(n) => Passed(n)'
      BY <2>0, <3>3 DEF Passed
    <3>5. CASE n = pc.hand
      BY <3>1, <3>5 DEF Passed, Given
    <3>6. CASE n # pc.hand
      <4>1. n \in 1 .. c /\ ~(pc.hand <= n)
        <5>1. pc.hand <= c
          BY <1>0, <2>1 DEF RangeInv, c
        <5> QED
          BY <1>0, <3>1, <3>6, <5>1
      <4>2. ~Owed(n)
        BY <1>0, <2>1, <4>1 DEF PathInv, InOrder, c
      <4>3. Passed(n)
        BY <2>0, <2>1, <4>1, <4>2 DEF Owed, Waived, Due, Passed, Given, c
      <4> QED
        BY <3>4, <4>3
    <3> QED
      BY <3>5, <3>6
  <2> QED
    BY <2>2, <2>3
<1>7. ASSUME Reconnect
      PROVE  Passed(n)'
  <2>1. /\ UNCHANGED hub /\ client'.epoch = hub.epoch /\ client'.cursor = client.cursor
        /\ seen'.epoch = seen.epoch /\ seen'.base = seen.base /\ seen'.got = seen.got
    BY <1>0, <1>7 DEF Reconnect, ClientType, SeenType
  <2>2. client.epoch = hub.epoch /\ seen.epoch = client.epoch
    BY <1>0, <2>1 DEF OwnCursor, EpochInv, ClientType, SeenType, HubType
  <2>3. seen' = seen
    BY <1>7, <2>2 DEF Reconnect
  <2> QED
    BY <1>2, <2>1, <2>2, <2>3
<1>8. ASSUME RestartDaemon
      PROVE  Passed(n)'
  <2>1. client' = client /\ hub'.epoch = hub.epoch + 1
    BY <1>8 DEF RestartDaemon, NewHub
  <2> QED
    BY <1>0, <2>1 DEF EpochInv, HubType, ClientType
<1>9. ASSUME BeginSnapshot
      PROVE  Passed(n)'
  BY <1>2, <1>9 DEF BeginSnapshot
<1>10. ASSUME SameCursor, seen' = seen
       PROVE  Passed(n)'
  BY <1>2, <1>10 DEF SameCursor
<1>11. ASSUME TakeCovered \/ FailResync
       PROVE  Passed(n)'
  <2>1. SameCursor
    BY <1>0, <1>11, SameCursorSteps
  <2>2. seen'.forgone = seen.forgone \/ \E why : seen'.forgone = Forgone(why)
    BY <1>0, <1>11 DEF TakeCovered, FailResync, SeenType
  <2> QED
    BY <1>2, <2>1, <2>2 DEF SameCursor
<1>12. ASSUME \/ Pump \/ WriteReplay \/ Collect \/ ForwardResync \/ WriteBatch
              \/ FinishSnapshot \/ FailInitial
              \/ TakeEvent \/ TakeReplayComplete \/ TakeResync
              \/ TakeDisconnected \/ RequestResync \/ FailSelection
              \/ LoseConnection \/ FailSnapshot \/ SelectSession \/ MutationConflict
              \/ UNCHANGED vars
       PROVE  Passed(n)'
  <2>1. SameCursor
    BY <1>0, <1>12, SameCursorSteps
  <2>2. seen' = seen
    BY <1>12 DEF Pump, WriteReplay, Collect, ForwardResync, WriteBatch, FinishSnapshot,
       FailInitial, TakeEvent, TakeReplayComplete, TakeResync, TakeDisconnected,
       RequestResync, FailSelection, LoseConnection, FailSnapshot, SelectSession,
       MutationConflict, vars
  <2> QED
    BY <1>10, <2>1, <2>2
<1> QED
  BY <1>3, <1>4, <1>5, <1>6, <1>7, <1>8, <1>9, <1>11, <1>12
     DEF Next, Server, Supervise, Selection, Fault

\* NewWorkspaceClient has no cursor, no connection and no event on the way.
LEMMA InitDeliveryInv == Init => DeliveryInv
<1> SUFFICES ASSUME Init
             PROVE  DeliveryInv
  OBVIOUS
<1>0. <<>> \in Seq(Messages) /\ <<>> \in Seq(Nat) /\ <<>> \in Seq(Kinds)
  OBVIOUS
<1>1. TypeOK
  <2>1. hub \in HubType
    BY <1>0 DEF Init, NewHub, HubType
  <2>2. conn \in ConnType
    BY NoConnectionType DEF Init
  <2>3. client \in ClientType /\ pc \in PlaceType /\ request \in RequestType
    BY DEF Init, ClientType, PlaceType, RequestType, NoRequest
  <2>4. left \in LeftType
    BY DeliveryAssumption DEF Init, LeftType
  <2>5. seen \in SeenType
    BY DEF Init, SeenType, Nothing, ForgoneType
  <2> QED
    BY <1>0, <2>1, <2>2, <2>3, <2>4, <2>5 DEF TypeOK, Init
<1>2. Current(hub) = 0
  BY DEF Init, NewHub, Current
<1>3. /\ conn = NoConnection /\ conn.up = FALSE /\ conn.replay = <<>> /\ conn.pending = <<>>
      /\ conn.channel = <<>> /\ conn.batch = <<>> /\ queue = <<>>
  BY NoConnectionIsEmpty DEF Init
<1>4. EpochInv /\ LockInv
  BY <1>3 DEF Init, NewHub, EpochInv, LockInv, NoRequest
<1>5. SnapshotInv /\ CursorInv
  BY <1>2 DEF Init, SnapshotInv, CursorInv, SnapshotDue, Boundary, NoRequest
<1>6. RangeInv
  BY <1>2, <1>3 DEF Init, RangeInv, Within
<1>7. PathInv
  BY <1>2 DEF PathInv
<1> QED
  BY <1>1, <1>4, <1>5, <1>6, <1>7 DEF DeliveryInv

\* The inductive invariant holds of every behaviour of the hub, the connections and
\* supervise.
THEOREM DeliveryInvariant == Spec => []DeliveryInv
<1>1. DeliveryInv /\ [Next]_vars => DeliveryInv'
  <2>1. DeliveryInv => TypeOK /\ EpochInv /\ LockInv /\ SnapshotInv /\ RangeInv
    BY DEF DeliveryInv
  <2> QED
    BY <2>1, StepTypeOK, StepEpochInv, StepLockInv, StepSnapshotInv, StepRangeInv,
       StepPathInv, StepCursorInv DEF DeliveryInv
<1> QED
  BY <1>1, InitDeliveryInv, PTL DEF Spec

\* The renderer's cursor passes no event that it was not given (deliver, the overflow
\* of both queues, the replay after the cursor and the boundary of a snapshot), for any
\* number of events, faults and restarts.
THEOREM DeliveryNoGap == Spec => []NoGap
<1>1. DeliveryInv => NoGap
  <2> SUFFICES ASSUME DeliveryInv, Tracking, NEW n \in 1 .. client.cursor
               PROVE  Given(n)
    BY DEF NoGap
  <2>1. seen.forgone.epoch = 0 /\ 0 < client.epoch /\ client.epoch \in Nat
    BY DEF Tracking, Nothing, DeliveryInv, EpochInv, TypeOK, ClientType
  <2> QED
    BY <2>1 DEF DeliveryInv, CursorInv, Tracking, OwnCursor
<1> QED
  BY <1>1, DeliveryInvariant, PTL

\* Resyncs and events in front of the queue, where NothingStranded looks for them.
LEMMA CoveredOnTheWay ==
  ASSUME TypeOK, NEW n, Covers(queue, n) \/ Covers(conn.replay, n)
  PROVE  n \in OnTheWay \/ Announced
<1> DEFINE q == conn.replay \o queue
<1>1. queue \in Seq(Messages) /\ conn.replay \in Seq(Messages)
  BY DEF TypeOK, ConnType
<1>2. PICK i \in DOMAIN q : Brings(q[i], n)
  <2>1. CASE Covers(conn.replay, n)
    <3>1. PICK j \in DOMAIN conn.replay : Brings(conn.replay[j], n)
      BY <2>1 DEF Covers
    <3>2. j \in DOMAIN q /\ q[j] = conn.replay[j]
      BY <1>1
    <3> QED
      BY <3>1, <3>2
  <2>2. CASE Covers(queue, n)
    <3>1. PICK j \in DOMAIN queue : Brings(queue[j], n)
      BY <2>2 DEF Covers
    <3>2. Len(conn.replay) + j \in DOMAIN q /\ q[Len(conn.replay) + j] = queue[j]
      BY <1>1
    <3> QED
      BY <3>1, <3>2
  <2> QED
    BY <2>1, <2>2
<1> HIDE DEF q
<1>3. CASE q[i].kind = "resync"
  BY <1>2, <1>3 DEF Announced, resyncQueued, q
<1>4. CASE q[i].kind = "event" /\ q[i].sequence = n
  BY <1>2, <1>4 DEF OnTheWay, ToSet, q
<1> QED
  BY <1>2, <1>3, <1>4 DEF Brings

\* On a live connection every event that the renderer has not been given is on its way,
\* or a resync that covers it is (enqueue, pump, forwardEvents, push and Subscribe).
THEOREM DeliveryNothingStranded == Spec => []NothingStranded
<1>1. DeliveryInv => NothingStranded
  <2> SUFFICES ASSUME DeliveryInv, Tracking, conn.up, NEW n \in 1 .. Current(hub),
                      ~Given(n), ~Announced
               PROVE  n \in OnTheWay
    BY DEF NothingStranded, Delivered
  <2>0. TypeOK /\ EpochInv /\ RangeInv /\ PathInv /\ Current(hub) \in Nat
    BY CurrentType DEF DeliveryInv, TypeOK
  <2>1. seen.forgone.epoch = 0 /\ 0 < client.epoch /\ client.epoch \in Nat
    BY <2>0 DEF Tracking, Nothing, EpochInv, TypeOK, ClientType
  <2>2. Owed(n)
    BY <2>1 DEF Owed, Waived, Due, Given, Tracking, OwnCursor, Announced
  <2>3. BeforeNext(n)
    BY <2>0, <2>2 DEF PathInv, InOrder, Tracking
  <2>4. /\ conn.batch \in Seq(1 .. Current(hub)) /\ conn.pending \in Seq(1 .. Current(hub))
    BY <2>0 DEF RangeInv, Tracking
  <2>5. ~Has(conn.batch, 0) /\ ~Has(conn.pending, 0) /\ n # 0
    BY <2>0, <2>4 DEF Has
  <2>6. CASE n = pc.hand
    BY <2>6 DEF OnTheWay
  <2>7. CASE Covers(queue, n) \/ Covers(conn.replay, n)
    BY <2>0, <2>7, CoveredOnTheWay
  <2>8. CASE Has(conn.batch, n)
    BY <2>5, <2>8 DEF Has, OnTheWay, ToSet
  <2>9. CASE Has(conn.channel, n)
    BY <2>9 DEF Has, OnTheWay, Announced, ToSet
  <2>10. CASE conn.resync = TRUE
    BY <2>10 DEF Announced
  <2>11. CASE Has(conn.pending, n)
    BY <2>5, <2>11 DEF Has, OnTheWay, ToSet
  <2> QED
    BY <2>3, <2>6, <2>7, <2>8, <2>9, <2>10, <2>11 DEF BeforeNext, BeforePending,
       BeforeChannel, BeforeBatch, BeforeReplay
<1> QED
  BY <1>1, DeliveryInvariant, PTL

\* Within an epoch the cursor never goes back (deliver, and applySnapshotLocked under
\* applyMu): nothing is delivered twice.
THEOREM DeliveryNoRewind == Spec => NoRewind
<1>1. DeliveryInv /\ [Next]_vars =>
        [client'.epoch = client.epoch /\ seen'.epoch = seen.epoch
           => client'.cursor >= client.cursor]_vars
  <2> SUFFICES ASSUME DeliveryInv, Next, client'.epoch = client.epoch,
                      seen'.epoch = seen.epoch
               PROVE  client'.cursor >= client.cursor
    OBVIOUS
  <2>0. /\ TypeOK /\ EpochInv /\ SnapshotInv /\ LockInv
        /\ client \in ClientType /\ request \in RequestType /\ seen \in SeenType
        /\ client.cursor \in Nat /\ pc.hand \in Nat
    BY DEF DeliveryInv, TypeOK, ClientType, PlaceType
  <2>1. CASE SameCursor
    BY <2>0, <2>1 DEF SameCursor
  <2>2. CASE ApplyInitial \/ ApplyResync \/ ApplySelection
    <3>1. applySnapshotLocked /\ request.stage = "answered" /\ request.epoch = client.epoch
      BY <2>0, <2>2 DEF ApplyInitial, ApplyResync, ApplySelection, Matches, EpochInv
    <3>2. client'.cursor = request.boundary /\ seen'.epoch = request.epoch
      BY <2>0, <3>1, AppliedSnapshot
    <3>3. OwnCursor /\ SnapshotDue
      BY <3>1, <3>2 DEF OwnCursor, SnapshotDue, Boundary
    <3>4. client.cursor <= request.boundary /\ request.boundary \in Nat
      BY <2>0, <3>3 DEF SnapshotInv, RequestType
    <3> QED
      BY <2>0, <3>2, <3>4
  <2>3. CASE Deliver
    BY <2>0, <2>3 DEF Deliver, ClientType
  <2>4. CASE Connect \/ Reconnect
    <3>1. client'.cursor = client.cursor
      BY <2>0, <2>4 DEF Connect, Reconnect, ClientType
    <3> QED
      BY <2>0, <3>1
  <2>5. CASE BeginSnapshot \/ RestartDaemon
    BY <2>0, <2>5 DEF BeginSnapshot, RestartDaemon
  <2>6. ASSUME NEW kind \in Kinds, Publish(kind)
        PROVE  client'.cursor >= client.cursor
    BY <2>0, <2>6 DEF Publish
  <2> QED
    BY <2>0, <2>1, <2>2, <2>3, <2>4, <2>5, <2>6, SameCursorSteps
       DEF Next, Server, Supervise, Selection, Fault
<1> QED
  BY <1>1, DeliveryInvariant, PTL DEF Spec, NoRewind
=============================================================================
