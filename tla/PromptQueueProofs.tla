------------------------- MODULE PromptQueueProofs -------------------------
(***************************************************************************)
(* That no prompt is lost and that a claim respects a pause, for any       *)
(* number of daemons, sessions, items, client mutations and crashes; and,  *)
(* for one daemon, that a prompt is executed at most once and has one      *)
(* fate.                                                                   *)
(*                                                                         *)
(* Saves are compare-and-swaps, so a revision that a thread remembers and  *)
(* that is still the row's stands for all that the thread saw in the row   *)
(* (DecisionInv). The lemmas about rows say what each operation on the     *)
(* sequence of items does to the state of an item; the rest of the proof   *)
(* never looks at positions again, except at the head.                     *)
(***************************************************************************)
EXTENDS PromptQueue, FiniteSetTheorems, SequenceTheorems, TLAPS

LOCAL INSTANCE SequencesExt

-----------------------------------------------------------------------------
(* The inductive invariant, for any number of daemons. *)

\* What the coordinator holds is what its place needs.
PlaceOK(d) ==
  /\ pc[d] \in {"evidence", "reconcile", "scan"} => pick[d].at \in Sessions
  /\ pc[d] \in {"claim", "start", "starting", "recorded", "load", "save"}
       => pick[d].item \in Items
  /\ pick[d].item # NoItem => /\ pick[d].session \in Sessions
                              /\ born[pick[d].item] # 0

PlaceInv == \A d \in Daemons : PlaceOK(d)

\* The slot has a session, a run that stops has the slot, and so does a turn
\* that the coordinator is starting.
SlotOK(d) ==
  /\ slot[d].kind # "free" => slot[d].session \in Sessions
  /\ ending[d].step # "no" => slot[d].kind = "running"
  /\ pc[d] \in {"starting", "recorded"} => slot[d].kind = "starting"

SlotInv == \A d \in Daemons : SlotOK(d)

\* What was decided on a revision is true as long as the row has it.
DecisionOK(d) ==
  LET q == queue[pick[d].session]
  IN /\ pc[d] \in {"scan", "claim"} /\ pick[d].item # NoItem =>
          /\ pick[d].rev <= q.rev
          /\ pick[d].rev = q.rev => /\ Dispatchable(pick[d].session)
                                    /\ Head(q.items).id = pick[d].item
     /\ pc[d] = "save" =>
          /\ pick[d].rev <= q.rev
          /\ pick[d].rev = q.rev
               => stateOf(pick[d].session, pick[d].item) = "dispatching"

DecisionInv == \A d \in Daemons : DecisionOK(d)

\* A row is taken for consumed only when a run carries its id.
EvidenceOK(d) ==
  /\ proof[d].evidence \subseteq Evidence
  /\ pc[d] = "recorded" => runs[pick[d].item] # <<>>
  /\ pc[d] \in {"load", "save"} /\ pick[d].todo = "consume"
       => runs[pick[d].item] # <<>>

EvidenceInv == \A d \in Daemons : EvidenceOK(d)

\* An id that was not used yet is nowhere.
FreshInv ==
  \A i \in Items : born[i] = 0 => ~InQueue(i) /\ i \notin withdrawn /\ runs[i] = <<>>

\* An item is in one queue only.
OneRow ==
  \A i \in Items, s, t \in Sessions :
    stateOf(s, i) # "absent" /\ stateOf(t, i) # "absent" => s = t

QueueInv ==
  /\ TypeOK /\ PlaceInv /\ SlotInv /\ DecisionInv /\ EvidenceInv /\ FreshInv /\ OneRow
  /\ NoPromptLost

-----------------------------------------------------------------------------
(* What is added for one daemon. *)

\* The runs of a list that were not aborted: Turns(i) is Live(runs[i]).
Live(list) == {n \in 1..Len(list) : list[n] # "aborted"}

\* A dispatch under way has its row, and a run only once it is recorded.
DispatchOK(d) ==
  /\ pc[d] \in {"start", "starting", "recorded"}
       => stateOf(pick[d].session, pick[d].item) = "dispatching"
  /\ pc[d] \in {"start", "starting"} => Live(runs[pick[d].item]) = {}
  /\ pc[d] = "recorded" => /\ slot[d].item = pick[d].item
                           /\ Live(runs[pick[d].item]) = {slot[d].run}
  /\ pc[d] \in {"load", "save"} /\ pick[d].todo # "consume"
       => Live(runs[pick[d].item]) = {}
  /\ slot[d].item # NoItem => slot[d].run \in Live(runs[slot[d].item])
  /\ pc[d] = "reconcile" => proof[d].evidence = Evidence

DispatchInv == \A d \in Daemons : DispatchOK(d)

OneTurn == \A i \in Items : \A m, n \in Live(runs[i]) : m = n

OneDaemonInv == DispatchInv /\ OneTurn /\ OneFate

-----------------------------------------------------------------------------
(* The items of a queue. *)

\* The index of an item that is there.
LEMMA IndexOfItem ==
  ASSUME NEW items \in Seq(ItemType), UniqueIds(items), NEW n \in DOMAIN items
  PROVE  promptQueueItemIndex(items, items[n].id) = n
<1> DEFINE P(m) == items[m].id = items[n].id
<1>1. n \in 1 .. Len(items)
  OBVIOUS
<1>2. \A m \in 1 .. Len(items) : P(m) => m = n
  BY <1>1 DEF UniqueIds
<1>3. \E m \in 1 .. Len(items) : P(m)
  BY <1>1
<1>4. (CHOOSE m \in 1 .. Len(items) : P(m)) = n
  BY <1>2, <1>3
<1> QED
  BY <1>3, <1>4 DEF promptQueueItemIndex

\* An item that is there has the state of its place.
LEMMA StateAt ==
  ASSUME NEW items \in Seq(ItemType), UniqueIds(items), NEW n \in DOMAIN items
  PROVE  /\ stateIn(items, items[n].id) = items[n].state
         /\ items[n] \in ItemType /\ items[n].state # "absent"
<1>1. n \in 1 .. Len(items) /\ n # 0
  OBVIOUS
<1>2. promptQueueItemIndex(items, items[n].id) = n
  BY IndexOfItem
<1>3. items[n] \in ItemType
  BY <1>1
<1> QED
  BY <1>1, <1>2, <1>3 DEF stateIn, ItemType, ItemStates

\* An item that no place has is absent.
LEMMA StateNowhere ==
  ASSUME NEW items \in Seq(ItemType), NEW i, \A n \in DOMAIN items : items[n].id # i
  PROVE  stateIn(items, i) = "absent"
<1>1. ~(\E n \in 1 .. Len(items) : items[n].id = i)
  OBVIOUS
<1> QED
  BY <1>1 DEF stateIn, promptQueueItemIndex

\* An item that is not absent has a place.
LEMMA StatePlace ==
  ASSUME NEW items \in Seq(ItemType), UniqueIds(items), NEW i,
         stateIn(items, i) # "absent"
  PROVE  \E n \in DOMAIN items : /\ items[n].id = i
                                 /\ items[n].state = stateIn(items, i)
                                 /\ promptQueueItemIndex(items, i) = n
<1>1. PICK n \in DOMAIN items : items[n].id = i
  BY StateNowhere
<1> QED
  BY <1>1, StateAt, IndexOfItem

\* Every item of a sequence, other than i, is in another one as it is.
Includes(a, b, i) ==
  \A n \in DOMAIN a : a[n].id # i => \E m \in DOMAIN b : b[m] = a[n]

\* Sequences that agree on the items other than i give them the same state.
LEMMA OthersKeep ==
  ASSUME NEW items \in Seq(ItemType), UniqueIds(items),
         NEW new \in Seq(ItemType), UniqueIds(new), NEW i,
         Includes(items, new, i), Includes(new, items, i)
  PROVE  \A j : j # i => stateIn(new, j) = stateIn(items, j)
<1> SUFFICES ASSUME NEW j, j # i
             PROVE  stateIn(new, j) = stateIn(items, j)
  OBVIOUS
<1>1. CASE stateIn(items, j) # "absent"
  <2>1. PICK n \in DOMAIN items : items[n].id = j /\ items[n].state = stateIn(items, j)
    BY <1>1, StatePlace
  <2>2. PICK m \in DOMAIN new : new[m] = items[n]
    BY <2>1 DEF Includes
  <2> QED
    BY <2>1, <2>2, StateAt
<1>2. CASE stateIn(items, j) = "absent"
  <2> SUFFICES ASSUME stateIn(new, j) # "absent"
               PROVE  FALSE
    BY <1>2
  <2>1. PICK m \in DOMAIN new : new[m].id = j
    BY StatePlace
  <2>2. PICK n \in DOMAIN items : items[n] = new[m]
    BY <2>1 DEF Includes
  <2>3. stateIn(items, items[n].id) # "absent"
    BY StateAt
  <2> QED
    BY <1>2, <2>1, <2>2, <2>3
<1> QED
  BY <1>1, <1>2

\* Enqueue: a new id at the end.
LEMMA AppendItem ==
  ASSUME NEW items \in Seq(ItemType), UniqueIds(items), NEW x \in ItemType,
         stateIn(items, x.id) = "absent"
  PROVE  /\ Append(items, x) \in Seq(ItemType) /\ UniqueIds(Append(items, x))
         /\ Len(Append(items, x)) = Len(items) + 1
         /\ stateIn(Append(items, x), x.id) = x.state
         /\ \A j : j # x.id => stateIn(Append(items, x), j) = stateIn(items, j)
<1> DEFINE new == Append(items, x)
<1>1. /\ new \in Seq(ItemType) /\ DOMAIN new = 1 .. Len(items) + 1
      /\ DOMAIN items = 1 .. Len(items) /\ Len(items) \in Nat
      /\ Len(new) = Len(items) + 1
      /\ new[Len(items) + 1] = x /\ \A n \in 1 .. Len(items) : new[n] = items[n]
  OBVIOUS
<1> HIDE DEF new
<1>2. \A n \in DOMAIN items : items[n].id # x.id
  BY StateAt
<1>3. \A n \in DOMAIN new : n = Len(items) + 1 \/ n \in DOMAIN items
  BY <1>1
<1>4. UniqueIds(new)
  BY <1>1, <1>2, <1>3 DEF UniqueIds
<1>5. stateIn(new, x.id) = x.state
  BY <1>1, <1>4, StateAt
<1>6. \A n \in DOMAIN items : n \in DOMAIN new /\ new[n] = items[n]
  BY <1>1
<1>7. \A n \in DOMAIN new : new[n].id # x.id => n \in DOMAIN items /\ items[n] = new[n]
  BY <1>1, <1>3
<1>8. \A j : j # x.id => stateIn(new, j) = stateIn(items, j)
  <2>1. Includes(items, new, x.id) /\ Includes(new, items, x.id)
    BY <1>6, <1>7 DEF Includes
  <2> QED
    BY <1>1, <1>4, <2>1, OthersKeep
<1> QED
  BY <1>1, <1>4, <1>5, <1>8 DEF new

\* RemoveAt of SequencesExt: what is behind the removed place moves up.
LEMMA RemoveAtIndices ==
  ASSUME NEW S, NEW s \in Seq(S), NEW k \in DOMAIN s
  PROVE  /\ RemoveAt(s, k) \in Seq(S)
         /\ DOMAIN RemoveAt(s, k) = 1 .. Len(s) - 1
         /\ Len(RemoveAt(s, k)) = Len(s) - 1
         /\ \A i \in 1 .. Len(s) - 1 :
              RemoveAt(s, k)[i] = IF i < k THEN s[i] ELSE s[i + 1]
<1>1. Len(s) \in Nat /\ k \in 1 .. Len(s)
  OBVIOUS
<1>2. SubSeq(s, 1, k - 1) \in Seq(S) /\ SubSeq(s, k + 1, Len(s)) \in Seq(S)
  BY <1>1
<1>3. Len(SubSeq(s, 1, k - 1)) = k - 1 /\ Len(SubSeq(s, k + 1, Len(s))) = Len(s) - k
  BY <1>1
<1>4. /\ \A i \in 1 .. k - 1 : SubSeq(s, 1, k - 1)[i] = s[i]
      /\ \A i \in 1 .. Len(s) - k : SubSeq(s, k + 1, Len(s))[i] = s[k + i]
  BY <1>1
<1> DEFINE front == SubSeq(s, 1, k - 1)
           back  == SubSeq(s, k + 1, Len(s))
<1> HIDE DEF front, back
<1>5. RemoveAt(s, k) = front \o back
  BY DEF RemoveAt, front, back
<1>7. /\ front \in Seq(S) /\ back \in Seq(S)
      /\ Len(front) = k - 1 /\ Len(back) = Len(s) - k
      /\ \A i \in 1 .. k - 1 : front[i] = s[i]
      /\ \A i \in 1 .. Len(s) - k : back[i] = s[k + i]
  BY <1>2, <1>3, <1>4 DEF front, back
<1>8. /\ RemoveAt(s, k) \in Seq(S) /\ Len(RemoveAt(s, k)) = Len(s) - 1
      /\ \A i \in 1 .. Len(s) - 1 :
           RemoveAt(s, k)[i] = IF i <= k - 1 THEN front[i] ELSE back[i - (k - 1)]
  <2>1. /\ front \o back \in Seq(S)
        /\ Len(front \o back) = Len(front) + Len(back)
        /\ \A i \in 1 .. Len(front) + Len(back) :
             (front \o back)[i] = IF i <= Len(front) THEN front[i] ELSE back[i - Len(front)]
    BY <1>7, ConcatProperties
  <2>2. Len(front) + Len(back) = Len(s) - 1
    BY <1>1, <1>7
  <2> QED
    BY <1>5, <1>7, <2>1, <2>2
<1>6. ASSUME NEW i \in 1 .. Len(s) - 1
      PROVE  RemoveAt(s, k)[i] = IF i < k THEN s[i] ELSE s[i + 1]
  <2>1. CASE i < k
    BY <1>1, <1>7, <1>8, <2>1
  <2>2. CASE ~(i < k)
    <3>1. i - (k - 1) \in 1 .. Len(s) - k /\ k + (i - (k - 1)) = i + 1
      BY <1>1, <2>2
    <3>2. RemoveAt(s, k)[i] = back[i - (k - 1)]
      BY <1>1, <1>8, <2>2
    <3>3. back[i - (k - 1)] = s[k + (i - (k - 1))]
      BY <1>7, <3>1
    <3> QED
      BY <2>2, <3>1, <3>2, <3>3
  <2> QED
    BY <2>1, <2>2
<1>9. DOMAIN RemoveAt(s, k) = 1 .. Len(s) - 1
  BY <1>1, <1>8
<1> QED
  BY <1>6, <1>8, <1>9

\* Remove, guide and consume: the item is no longer there.
LEMMA WithoutItem ==
  ASSUME NEW items \in Seq(ItemType), UniqueIds(items), NEW i,
         stateIn(items, i) # "absent"
  PROVE  /\ Without(items, i) \in Seq(ItemType) /\ UniqueIds(Without(items, i))
         /\ Len(Without(items, i)) = Len(items) - 1
         /\ stateIn(Without(items, i), i) = "absent"
         /\ \A j : j # i => stateIn(Without(items, i), j) = stateIn(items, j)
<1>1. PICK k \in DOMAIN items : items[k].id = i /\ promptQueueItemIndex(items, i) = k
  BY StatePlace
<1> DEFINE new == RemoveAt(items, k)
<1>2. Without(items, i) = new
  BY <1>1 DEF Without
<1>3. /\ new \in Seq(ItemType) /\ DOMAIN new = 1 .. Len(items) - 1
      /\ Len(new) = Len(items) - 1
      /\ \A n \in 1 .. Len(items) - 1 : new[n] = IF n < k THEN items[n] ELSE items[n + 1]
  BY RemoveAtIndices
<1> HIDE DEF new
<1>4. Len(items) \in Nat /\ k \in 1 .. Len(items) /\ DOMAIN items = 1 .. Len(items)
  OBVIOUS
<1> DEFINE old(n) == IF n < k THEN n ELSE n + 1
<1>6. \A n \in DOMAIN new : /\ old(n) \in DOMAIN items /\ new[n] = items[old(n)]
                            /\ old(n) # k
  BY <1>3, <1>4
<1>7. \A m, n \in DOMAIN new : old(m) = old(n) => m = n
  BY <1>3, <1>4
<1>8. UniqueIds(new)
  <2> HIDE DEF old
  <2> QED
    BY <1>6, <1>7 DEF UniqueIds
<1>9. \A n \in DOMAIN new : new[n].id # i
  <2> HIDE DEF old
  <2> QED
    BY <1>1, <1>6 DEF UniqueIds
<1>10. stateIn(new, i) = "absent"
  BY <1>3, <1>9, StateNowhere
<1>11. Includes(items, new, i)
  <2> SUFFICES ASSUME NEW n \in DOMAIN items, n # k
               PROVE  \E m \in DOMAIN new : new[m] = items[n]
    BY <1>1 DEF Includes
  <2>1. CASE n < k
    <3>1. n \in DOMAIN new /\ new[n] = items[n]
      BY <1>3, <1>4, <2>1
    <3> QED
      BY <3>1
  <2>2. CASE k < n
    <3>1. n - 1 \in 1 .. Len(items) - 1 /\ ~(n - 1 < k) /\ (n - 1) + 1 = n
      BY <1>4, <2>2
    <3>2. n - 1 \in DOMAIN new /\ new[n - 1] = items[n]
      BY <1>3, <3>1
    <3> QED
      BY <3>2
  <2> QED
    BY <1>4, <2>1, <2>2
<1>12. Includes(new, items, i)
  <2> HIDE DEF old
  <2> QED
    BY <1>6 DEF Includes
<1>13. \A j : j # i => stateIn(new, j) = stateIn(items, j)
  BY <1>3, <1>8, <1>11, <1>12, OthersKeep
<1> QED
  BY <1>2, <1>3, <1>8, <1>10, <1>13

\* Retry, claim, reset and fail: the item has another state.
LEMMA WithStateItem ==
  ASSUME NEW items \in Seq(ItemType), UniqueIds(items), NEW i \in Items,
         stateIn(items, i) # "absent", NEW state \in ItemStates
  PROVE  /\ WithState(items, i, state) \in Seq(ItemType)
         /\ UniqueIds(WithState(items, i, state))
         /\ Len(WithState(items, i, state)) = Len(items)
         /\ stateIn(WithState(items, i, state), i) = state
         /\ \A j : j # i => stateIn(WithState(items, i, state), j) = stateIn(items, j)
<1> DEFINE new == WithState(items, i, state)
           x == [id |-> i, state |-> state]
<1>1. x \in ItemType /\ x.id = i /\ x.state = state
  BY DEF ItemType
<1> HIDE DEF x
<1>2. new = [n \in 1 .. Len(items) |-> IF items[n].id = i THEN x ELSE items[n]]
  BY DEF WithState, x
<1> HIDE DEF new
<1>3. Len(items) \in Nat /\ DOMAIN items = 1 .. Len(items)
      /\ \A n \in 1 .. Len(items) : items[n] \in ItemType
  OBVIOUS
<1>4. /\ new \in Seq(ItemType) /\ DOMAIN new = 1 .. Len(items)
      /\ Len(new) = Len(items)
      /\ \A n \in 1 .. Len(items) : new[n] = IF items[n].id = i THEN x ELSE items[n]
  <2>1. DOMAIN new = 1 .. Len(items)
        /\ \A n \in 1 .. Len(items) : new[n] = IF items[n].id = i THEN x ELSE items[n]
    BY <1>2
  <2>2. \A n \in 1 .. Len(items) : new[n] \in ItemType
    BY <1>1, <1>3, <2>1
  <2>3. new \in [1 .. Len(items) -> ItemType]
    BY <1>2, <2>1, <2>2
  <2> QED
    BY <1>3, <2>1, <2>3
<1>5. \A n \in DOMAIN new : new[n].id = items[n].id
  BY <1>1, <1>3, <1>4
<1>6. UniqueIds(new)
  BY <1>3, <1>4, <1>5 DEF UniqueIds
<1>7. PICK k \in DOMAIN items : items[k].id = i
  BY StatePlace
<1>8. k \in DOMAIN new /\ new[k] = x
  BY <1>3, <1>4, <1>7
<1>9. stateIn(new, i) = state
  BY <1>1, <1>4, <1>6, <1>8, StateAt
<1>10. \A n \in DOMAIN items : items[n].id # i => n \in DOMAIN new /\ new[n] = items[n]
  BY <1>3, <1>4
<1>11. \A n \in DOMAIN new : new[n].id # i => n \in DOMAIN items /\ items[n] = new[n]
  BY <1>1, <1>3, <1>4
<1>12. \A j : j # i => stateIn(new, j) = stateIn(items, j)
  <2>1. Includes(items, new, i) /\ Includes(new, items, i)
    BY <1>10, <1>11 DEF Includes
  <2> QED
    BY <1>4, <1>6, <2>1, OthersKeep
<1> QED
  BY <1>4, <1>6, <1>9, <1>12 DEF new

\* InsertAt of SequencesExt: what is at the place and behind it moves down.
LEMMA InsertAtIndices ==
  ASSUME NEW S, NEW s \in Seq(S), NEW k \in DOMAIN s, NEW e \in S
  PROVE  /\ InsertAt(s, k, e) \in Seq(S)
         /\ DOMAIN InsertAt(s, k, e) = 1 .. Len(s) + 1
         /\ Len(InsertAt(s, k, e)) = Len(s) + 1
         /\ \A i \in 1 .. Len(s) + 1 :
              InsertAt(s, k, e)[i] = IF i < k THEN s[i] ELSE IF i = k THEN e ELSE s[i - 1]
<1>1. Len(s) \in Nat /\ k \in 1 .. Len(s)
  OBVIOUS
<1> DEFINE front == SubSeq(s, 1, k - 1)
           back  == SubSeq(s, k, Len(s))
           left  == front \o <<e>>
<1>2. /\ front \in Seq(S) /\ back \in Seq(S)
      /\ Len(front) = k - 1 /\ Len(back) = Len(s) - k + 1
  BY <1>1
<1>3. /\ \A i \in 1 .. k - 1 : front[i] = s[i]
      /\ \A i \in 1 .. Len(s) - k + 1 : back[i] = s[k + i - 1]
  BY <1>1
<1> HIDE DEF front, back
<1>4. <<e>> \in Seq(S) /\ Len(<<e>>) = 1 /\ <<e>>[1] = e
  OBVIOUS
<1>5. /\ left \in Seq(S) /\ Len(left) = Len(front) + Len(<<e>>)
      /\ \A i \in 1 .. Len(front) + Len(<<e>>) :
           left[i] = IF i <= Len(front) THEN front[i] ELSE <<e>>[i - Len(front)]
  BY <1>2, <1>4, ConcatProperties
<1> HIDE DEF left
<1>6. /\ Len(left) = k
      /\ \A i \in 1 .. k : left[i] = IF i < k THEN s[i] ELSE e
  <2>1. Len(left) = k
    BY <1>1, <1>2, <1>4, <1>5
  <2>2. ASSUME NEW i \in 1 .. k
        PROVE  left[i] = IF i < k THEN s[i] ELSE e
    <3>1. left[i] = IF i <= k - 1 THEN front[i] ELSE <<e>>[i - (k - 1)]
      BY <1>1, <1>2, <1>4, <1>5
    <3>2. CASE i < k
      BY <1>1, <1>3, <3>1, <3>2
    <3>3. CASE ~(i < k)
      <4>1. i - (k - 1) = 1 /\ ~(i <= k - 1)
        BY <1>1, <3>3
      <4> QED
        BY <1>4, <3>1, <3>3, <4>1
    <3> QED
      BY <3>2, <3>3
  <2> QED
    BY <2>1, <2>2
<1>7. InsertAt(s, k, e) = left \o back
  BY DEF InsertAt, left, front, back
<1>8. /\ left \o back \in Seq(S) /\ Len(left \o back) = Len(left) + Len(back)
      /\ \A i \in 1 .. Len(left) + Len(back) :
           (left \o back)[i] = IF i <= Len(left) THEN left[i] ELSE back[i - Len(left)]
  <2>1. left \in Seq(S) /\ back \in Seq(S)
    BY <1>2, <1>5
  <2> QED
    BY <2>1, ConcatProperties
<1>9. Len(left) + Len(back) = Len(s) + 1
  BY <1>1, <1>2, <1>6
<1>10. /\ InsertAt(s, k, e) \in Seq(S) /\ Len(InsertAt(s, k, e)) = Len(s) + 1
       /\ \A i \in 1 .. Len(s) + 1 :
            InsertAt(s, k, e)[i] = IF i <= k THEN left[i] ELSE back[i - k]
  BY <1>6, <1>7, <1>8, <1>9
<1>11. ASSUME NEW i \in 1 .. Len(s) + 1
       PROVE  InsertAt(s, k, e)[i] = IF i < k THEN s[i] ELSE IF i = k THEN e ELSE s[i - 1]
  <2>1. CASE i <= k
    <3>1. i \in 1 .. k
      BY <1>1, <2>1
    <3> QED
      BY <1>1, <1>6, <1>10, <2>1, <3>1
  <2>2. CASE ~(i <= k)
    <3>1. i - k \in 1 .. Len(s) - k + 1 /\ k + (i - k) - 1 = i - 1
      BY <1>1, <2>2
    <3>2. InsertAt(s, k, e)[i] = back[i - k]
      BY <1>10, <2>2
    <3>3. back[i - k] = s[k + (i - k) - 1]
      BY <1>3, <3>1
    <3>4. ~(i < k) /\ i # k
      BY <1>1, <2>2
    <3> QED
      BY <3>1, <3>2, <3>3, <3>4
  <2> QED
    BY <2>1, <2>2
<1>12. DOMAIN InsertAt(s, k, e) = 1 .. Len(s) + 1
  BY <1>1, <1>10
<1> QED
  BY <1>10, <1>11, <1>12

\* Reorder: an item comes back, in front of another one.
LEMMA InsertItem ==
  ASSUME NEW items \in Seq(ItemType), UniqueIds(items), NEW x \in ItemType,
         stateIn(items, x.id) = "absent", NEW k \in DOMAIN items
  PROVE  /\ InsertAt(items, k, x) \in Seq(ItemType)
         /\ UniqueIds(InsertAt(items, k, x))
         /\ Len(InsertAt(items, k, x)) = Len(items) + 1
         /\ stateIn(InsertAt(items, k, x), x.id) = x.state
         /\ \A j : j # x.id => stateIn(InsertAt(items, k, x), j) = stateIn(items, j)
<1> DEFINE new == InsertAt(items, k, x)
<1>1. /\ new \in Seq(ItemType) /\ DOMAIN new = 1 .. Len(items) + 1
      /\ Len(new) = Len(items) + 1
      /\ \A i \in 1 .. Len(items) + 1 :
           new[i] = IF i < k THEN items[i] ELSE IF i = k THEN x ELSE items[i - 1]
  BY InsertAtIndices
<1> HIDE DEF new
<1>2. Len(items) \in Nat /\ k \in 1 .. Len(items) /\ DOMAIN items = 1 .. Len(items)
  OBVIOUS
<1> DEFINE old(n) == IF n < k THEN n ELSE n - 1
<1>3. \A n \in DOMAIN new : n # k => old(n) \in DOMAIN items /\ new[n] = items[old(n)]
  BY <1>1, <1>2
<1>4. \A m, n \in DOMAIN new : m # k /\ n # k /\ old(m) = old(n) => m = n
  BY <1>1, <1>2
<1>5. k \in DOMAIN new /\ new[k] = x
  BY <1>1, <1>2
<1>6. \A n \in DOMAIN items : items[n].id # x.id
  BY StateAt
<1>7. \A n \in DOMAIN items : \E m \in DOMAIN new : new[m] = items[n]
  <2> SUFFICES ASSUME NEW n \in DOMAIN items
               PROVE  \E m \in DOMAIN new : new[m] = items[n]
    OBVIOUS
  <2>1. CASE n < k
    <3>1. n \in DOMAIN new /\ new[n] = items[n]
      BY <1>1, <1>2, <2>1
    <3> QED
      BY <3>1
  <2>2. CASE ~(n < k)
    <3>1. n + 1 \in 1 .. Len(items) + 1 /\ ~(n + 1 < k) /\ n + 1 # k /\ (n + 1) - 1 = n
      BY <1>2, <2>2
    <3>2. n + 1 \in DOMAIN new /\ new[n + 1] = items[n]
      BY <1>1, <3>1
    <3> QED
      BY <3>2
  <2> QED
    BY <2>1, <2>2
<1> HIDE DEF old
<1>8. UniqueIds(new)
  <2> SUFFICES ASSUME NEW m \in DOMAIN new, NEW n \in DOMAIN new, new[m].id = new[n].id
               PROVE  m = n
    BY DEF UniqueIds
  <2>1. CASE m # k /\ n # k
    BY <1>3, <1>4, <2>1 DEF UniqueIds
  <2>2. CASE m = k \/ n = k
    BY <1>3, <1>5, <1>6, <2>2
  <2> QED
    BY <2>1, <2>2
<1>9. stateIn(new, x.id) = x.state
  BY <1>1, <1>5, <1>8, StateAt
<1>10. Includes(items, new, x.id) /\ Includes(new, items, x.id)
  BY <1>3, <1>5, <1>7 DEF Includes
<1>11. \A j : j # x.id => stateIn(new, j) = stateIn(items, j)
  BY <1>1, <1>8, <1>10, OthersKeep
<1> QED
  BY <1>1, <1>8, <1>9, <1>11 DEF new

\* Reorder keeps every item in its state.
LEMMA ReorderItems ==
  ASSUME NEW items \in Seq(ItemType), UniqueIds(items), NEW i, NEW before,
         stateIn(items, i) # "absent", NEW new,
         LET rest == Without(items, i)
             row == items[promptQueueItemIndex(items, i)]
             n == promptQueueItemIndex(rest, before)
         IN \/ new = Append(rest, row)
            \/ n # 0 /\ new = InsertAt(rest, n, row)
  PROVE  /\ new \in Seq(ItemType) /\ UniqueIds(new) /\ Len(new) = Len(items)
         /\ \A j : stateIn(new, j) = stateIn(items, j)
<1> DEFINE rest == Without(items, i)
           row == items[promptQueueItemIndex(items, i)]
           n == promptQueueItemIndex(rest, before)
<1>1. PICK k \in DOMAIN items : /\ items[k].id = i /\ items[k].state = stateIn(items, i)
                                /\ promptQueueItemIndex(items, i) = k
  BY StatePlace
<1>2. row \in ItemType /\ row.id = i /\ row.state = stateIn(items, i)
  BY <1>1, StateAt
<1>3. /\ rest \in Seq(ItemType) /\ UniqueIds(rest) /\ Len(rest) = Len(items) - 1
      /\ stateIn(rest, i) = "absent"
      /\ \A j : j # i => stateIn(rest, j) = stateIn(items, j)
  BY WithoutItem
<1>4. n # 0 => n \in DOMAIN rest
  <2> HIDE DEF rest
  <2>1. n # 0 => \E m \in 1 .. Len(rest) : rest[m].id = before
    BY DEF promptQueueItemIndex
  <2>2. DOMAIN rest = 1 .. Len(rest)
    BY <1>3
  <2>3. n # 0 => stateIn(rest, before) # "absent"
    BY <1>3, <2>1, <2>2, StateAt
  <2> QED
    BY <1>3, <2>3, StatePlace
<1>5. new = Append(rest, row) \/ (n # 0 /\ new = InsertAt(rest, n, row))
  OBVIOUS
<1> HIDE DEF rest, row, n
<1>6. /\ new \in Seq(ItemType) /\ UniqueIds(new) /\ Len(new) = Len(rest) + 1
      /\ stateIn(new, row.id) = row.state
      /\ \A j : j # row.id => stateIn(new, j) = stateIn(rest, j)
  <2>1. CASE new = Append(rest, row)
    BY <1>2, <1>3, <2>1, AppendItem
  <2>2. CASE n # 0 /\ new = InsertAt(rest, n, row)
    BY <1>2, <1>3, <1>4, <2>2, InsertItem
  <2> QED
    BY <1>5, <2>1, <2>2
<1>7. Len(items) \in Nat
  OBVIOUS
<1> QED
  BY <1>2, <1>3, <1>6, <1>7

\* The k-th member of a finite set of numbers exists and is one of its own.
LEMMA RankOfNumber ==
  ASSUME NEW len \in Nat, NEW kept \in SUBSET (1 .. len)
  PROVE  /\ Cardinality(kept) \in Nat /\ Cardinality(kept) <= len
         /\ \A n \in kept : Cardinality(kept \cap 1 .. n) \in 1 .. Cardinality(kept)
         /\ \A m, n \in kept :
              Cardinality(kept \cap 1 .. m) = Cardinality(kept \cap 1 .. n) => m = n
         /\ \A k \in 1 .. Cardinality(kept) : \E n \in kept : Cardinality(kept \cap 1 .. n) = k
<1> DEFINE rank == [n \in kept |-> Cardinality(kept \cap 1 .. n)]
           size == Cardinality(kept)
<1>1. IsFiniteSet(1 .. len) /\ Cardinality(1 .. len) = len
  BY FS_Interval
<1>2. IsFiniteSet(kept) /\ size \in Nat /\ size <= len
  BY <1>1, FS_Subset, FS_CardinalityType
<1>3. \A n \in kept : /\ IsFiniteSet(kept \cap 1 .. n) /\ Cardinality(kept \cap 1 .. n) <= size
                      /\ Cardinality(kept \cap 1 .. n) \in Nat
  <2> SUFFICES ASSUME NEW n \in kept
               PROVE  /\ IsFiniteSet(kept \cap 1 .. n)
                      /\ Cardinality(kept \cap 1 .. n) <= size
                      /\ Cardinality(kept \cap 1 .. n) \in Nat
    OBVIOUS
  <2>1. kept \cap 1 .. n \in SUBSET kept
    OBVIOUS
  <2> QED
    BY <1>2, <2>1, FS_Subset, FS_CardinalityType
<1>4. \A n \in kept : Cardinality(kept \cap 1 .. n) # 0
  <2> SUFFICES ASSUME NEW n \in kept
               PROVE  Cardinality(kept \cap 1 .. n) # 0
    OBVIOUS
  <2>1. n \in kept \cap 1 .. n
    OBVIOUS
  <2> QED
    BY <1>3, <2>1, FS_EmptySet
<1>5. ASSUME NEW m \in kept, NEW n \in kept, m < n,
             Cardinality(kept \cap 1 .. m) = Cardinality(kept \cap 1 .. n)
      PROVE  FALSE
  <2>1. kept \cap 1 .. m \in SUBSET (kept \cap 1 .. n)
    BY <1>5
  <2>2. kept \cap 1 .. n = kept \cap 1 .. m
    BY <1>3, <1>5, <2>1, FS_Subset
  <2>3. n \in kept \cap 1 .. n /\ n \notin kept \cap 1 .. m
    BY <1>5
  <2> QED
    BY <2>2, <2>3
<1>6. \A m, n \in kept :
        Cardinality(kept \cap 1 .. m) = Cardinality(kept \cap 1 .. n) => m = n
  <2> SUFFICES ASSUME NEW m \in kept, NEW n \in kept, m # n,
                      Cardinality(kept \cap 1 .. m) = Cardinality(kept \cap 1 .. n)
               PROVE  FALSE
    OBVIOUS
  <2>1. m < n \/ n < m
    OBVIOUS
  <2> QED
    BY <1>5, <2>1
<1>7. \A n \in kept : Cardinality(kept \cap 1 .. n) \in 1 .. size
  BY <1>2, <1>3, <1>4
<1> HIDE DEF size
<1>8. IsFiniteSet(1 .. size) /\ Cardinality(1 .. size) = size
  BY <1>2, FS_Interval
<1>11. \A k \in 1 .. size : \E n \in kept : Cardinality(kept \cap 1 .. n) = k
  <2> SUFFICES ASSUME NEW k \in 1 .. size,
                      \A n \in kept : Cardinality(kept \cap 1 .. n) # k
               PROVE  FALSE
    OBVIOUS
  <2> DEFINE rest == (1 .. size) \ {k}
  <2>1. IsFiniteSet(rest) /\ Cardinality(rest) = size - 1
    BY <1>8, FS_RemoveElement
  <2>2. rank \in [kept -> rest]
    BY <1>7
  <2>3. Cardinality(rest) < Cardinality(kept)
    BY <1>2, <2>1 DEF size
  <2> HIDE DEF rest, rank
  <2>4. \E x, y \in kept : x # y /\ rank[x] = rank[y]
    BY <1>2, <2>1, <2>2, <2>3, FS_PigeonHole
  <2> QED
    BY <1>6, <2>4 DEF rank
<1> QED
  BY <1>2, <1>6, <1>7, <1>11 DEF size

\* Reconciliation: dispatching items with evidence are consumed, the other
\* dispatching items are queued again, and the rest stays.
LEMMA ReconciledItems ==
  ASSUME NEW items \in Seq(ItemType), UniqueIds(items), NEW evidence
  PROVE  /\ Reconciled(items, evidence) \in Seq(ItemType)
         /\ UniqueIds(Reconciled(items, evidence))
         /\ Len(Reconciled(items, evidence)) <= Len(items)
         /\ \A j : stateIn(Reconciled(items, evidence), j)
                     = IF stateIn(items, j) # "dispatching" THEN stateIn(items, j)
                       ELSE IF j \in evidence THEN "absent" ELSE "queued"
<1> DEFINE kept == {n \in DOMAIN items :
                      items[n].state = "dispatching" => items[n].id \notin evidence}
           size == Cardinality(kept)
           rank(n) == Cardinality(kept \cap 1 .. n)
           nth(k) == CHOOSE n \in kept : rank(n) = k
           after(x) == [id |-> x.id,
                        state |-> IF x.state = "dispatching" THEN "queued" ELSE x.state]
           new == [k \in 1 .. size |-> after(items[nth(k)])]
<1>1. Reconciled(items, evidence) = new
  BY DEF Reconciled
<1>2. Len(items) \in Nat /\ DOMAIN items = 1 .. Len(items) /\ kept \in SUBSET (1 .. Len(items))
  OBVIOUS
<1>3. /\ size \in Nat /\ size <= Len(items)
      /\ \A n \in kept : rank(n) \in 1 .. size
      /\ \A m, n \in kept : rank(m) = rank(n) => m = n
      /\ \A k \in 1 .. size : \E n \in kept : rank(n) = k
  <2> HIDE DEF kept
  <2> QED
    BY <1>2, RankOfNumber
<1>4. \A n \in kept : n \in DOMAIN items /\ items[n] \in ItemType
  BY <1>2
<1>5. \A x \in ItemType : after(x) \in ItemType /\ after(x).id = x.id
        /\ after(x).state = IF x.state = "dispatching" THEN "queued" ELSE x.state
  BY DEF ItemType, ItemStates
<1> HIDE DEF size, rank, after
<1>6. \A k \in 1 .. size : nth(k) \in kept /\ rank(nth(k)) = k
  <2> HIDE DEF kept
  <2> QED
    BY <1>3
<1> HIDE DEF nth
<1>7. \A n \in kept : nth(rank(n)) = n
  <2> HIDE DEF kept
  <2> QED
    BY <1>3, <1>6
<1>8. /\ DOMAIN new = 1 .. size /\ \A k \in 1 .. size : new[k] = after(items[nth(k)])
      /\ new \in Seq(ItemType) /\ Len(new) = size
  <2>1. DOMAIN new = 1 .. size /\ \A k \in 1 .. size : new[k] = after(items[nth(k)])
    OBVIOUS
  <2>2. \A k \in 1 .. size : after(items[nth(k)]) \in ItemType
    BY <1>4, <1>5, <1>6
  <2>3. new \in [1 .. size -> ItemType]
    BY <2>2
  <2> HIDE DEF new
  <2>4. new \in Seq(ItemType) /\ Len(new) = size
    BY <1>3, <2>1, <2>3
  <2> QED
    BY <2>1, <2>4
<1> HIDE DEF new
<1>9. \A k \in DOMAIN new : /\ nth(k) \in kept /\ nth(k) \in DOMAIN items
                            /\ new[k].id = items[nth(k)].id
                            /\ new[k].state = IF items[nth(k)].state = "dispatching"
                                              THEN "queued" ELSE items[nth(k)].state
  <2> HIDE DEF kept
  <2> QED
    BY <1>4, <1>5, <1>6, <1>8
<1>10. UniqueIds(new)
  <2> SUFFICES ASSUME NEW k \in DOMAIN new, NEW l \in DOMAIN new, new[k].id = new[l].id
               PROVE  k = l
    BY DEF UniqueIds
  <2>1. nth(k) = nth(l)
    BY <1>9 DEF UniqueIds
  <2> QED
    BY <1>6, <1>8, <2>1
<1>11. ASSUME NEW j
       PROVE  stateIn(new, j) = IF stateIn(items, j) # "dispatching" THEN stateIn(items, j)
                                ELSE IF j \in evidence THEN "absent" ELSE "queued"
  <2>1. CASE \E n \in kept : items[n].id = j
    <3>1. PICK n \in kept : items[n].id = j
      BY <2>1
    <3>2. /\ rank(n) \in DOMAIN new /\ new[rank(n)].id = j
          /\ new[rank(n)].state = IF items[n].state = "dispatching" THEN "queued"
                                                                    ELSE items[n].state
      BY <1>3, <1>7, <1>8, <1>9, <3>1
    <3>3. stateIn(items, j) = items[n].state
      BY <3>1, StateAt
    <3>4. stateIn(new, j) = new[rank(n)].state
      BY <1>8, <1>10, <3>2, StateAt
    <3>5. items[n].state = "dispatching" => j \notin evidence
      BY <3>1
    <3> QED
      BY <3>2, <3>3, <3>4, <3>5
  <2>2. CASE ~(\E n \in kept : items[n].id = j)
    <3>1. \A k \in DOMAIN new : new[k].id # j
      BY <1>9, <2>2
    <3>2. stateIn(new, j) = "absent"
      BY <1>8, <3>1, StateNowhere
    <3>3. CASE stateIn(items, j) = "absent"
      BY <3>2, <3>3
    <3>4. CASE stateIn(items, j) # "absent"
      <4>1. PICK n \in DOMAIN items : items[n].id = j /\ items[n].state = stateIn(items, j)
        BY <3>4, StatePlace
      <4>2. items[n].state = "dispatching" /\ items[n].id \in evidence
        BY <2>2, <4>1
      <4> QED
        BY <3>2, <4>1, <4>2
    <3> QED
      BY <3>3, <3>4
  <2> QED
    BY <2>1, <2>2
<1> QED
  BY <1>1, <1>3, <1>8, <1>10, <1>11

-----------------------------------------------------------------------------
(* What a save does to the rows. *)

\* The rows are well-formed.
RowsOK ==
  /\ queue \in [Sessions -> RowType]
  /\ \A s \in Sessions : Len(queue[s].items) <= MaxQueueItems /\ UniqueIds(queue[s].items)

\* A row keeps its revision only if it is not touched.
RevsGrow ==
  \A s \in Sessions : /\ queue[s].rev <= queue'[s].rev
                      /\ queue'[s].rev = queue[s].rev => queue'[s] = queue[s]

\* Every item keeps its state.
RowsStay ==
  \A t \in Sessions, j \in Items : stateIn(queue'[t].items, j) = stateIn(queue[t].items, j)

\* One item in one session gets a new state.
RowMoves(s, i, state) ==
  \A t \in Sessions, j \in Items :
    stateIn(queue'[t].items, j)
      = IF t = s /\ j = i THEN state ELSE stateIn(queue[t].items, j)

\* What is known of a row.
LEMMA RowParts ==
  ASSUME RowsOK, NEW s \in Sessions
  PROVE  /\ queue[s] \in RowType /\ queue[s].rev \in Nat
         /\ queue[s].state \in {"active", "paused"}
         /\ queue[s].items \in Seq(ItemType) /\ UniqueIds(queue[s].items)
         /\ Len(queue[s].items) <= MaxQueueItems /\ Len(queue[s].items) \in Nat
BY DEF RowsOK, RowType

\* Items that a row can hold.
Storable(items) ==
  items \in Seq(ItemType) /\ UniqueIds(items) /\ Len(items) <= MaxQueueItems

\* A save replaces one row.
LEMMA SaveRow ==
  ASSUME RowsOK, NEW s \in Sessions, NEW rev, NEW state \in {"active", "paused"},
         NEW items, Storable(items), rev = queue[s].rev,
         queue' = [queue EXCEPT ![s] = [rev |-> rev + 1, state |-> state, items |-> items]]
  PROVE  /\ RowsOK' /\ RevsGrow
         /\ rev = queue[s].rev /\ queue'[s].rev = queue[s].rev + 1
         /\ queue'[s].items = items /\ queue'[s].state = state
         /\ \A t \in Sessions : t # s => queue'[t] = queue[t]
<1> DEFINE row == [rev |-> rev + 1, state |-> state, items |-> items]
<1>1. rev = queue[s].rev /\ queue' = [queue EXCEPT ![s] = row]
  OBVIOUS
<1>2. row \in RowType /\ row.rev = rev + 1 /\ row.state = state /\ row.items = items
  BY <1>1, RowParts DEF RowType, Storable
<1> HIDE DEF row
<1>3. queue'[s] = row /\ \A t \in Sessions : t # s => queue'[t] = queue[t]
  BY <1>1 DEF RowsOK
<1>4. RowsOK'
  BY <1>1, <1>2, <1>3 DEF RowsOK, Storable
<1>5. \A t \in Sessions : queue[t].rev \in Nat
  BY RowParts
<1>6. RevsGrow
  BY <1>1, <1>2, <1>3, <1>5 DEF RevsGrow
<1> QED
  BY <1>1, <1>2, <1>3, <1>4, <1>6

\* A save that leaves the items as they are.
LEMMA SaveSameItems ==
  ASSUME RowsOK, NEW s \in Sessions, NEW rev, NEW state \in {"active", "paused"},
         SavePromptQueueCAS(s, rev, state, queue[s].items)
  PROVE  RowsOK' /\ RevsGrow /\ RowsStay
<1>1. /\ RowsOK' /\ RevsGrow /\ queue'[s].items = queue[s].items
      /\ \A t \in Sessions : t # s => queue'[t] = queue[t]
  <2>1. Storable(queue[s].items)
    BY RowParts DEF Storable
  <2> QED
    BY <2>1, SaveRow, ZenonT(30) DEF SavePromptQueueCAS
<1> QED
  BY <1>1 DEF RowsStay

\* A save that changes the state of one item.
LEMMA SaveWithState ==
  ASSUME RowsOK, NEW s \in Sessions, NEW rev, NEW state \in {"active", "paused"},
         NEW i \in Items, stateIn(queue[s].items, i) # "absent", NEW st \in ItemStates,
         SavePromptQueueCAS(s, rev, state, WithState(queue[s].items, i, st))
  PROVE  RowsOK' /\ RevsGrow /\ RowMoves(s, i, st)
<1> DEFINE items == WithState(queue[s].items, i, st)
<1>1. /\ items \in Seq(ItemType) /\ UniqueIds(items) /\ Len(items) = Len(queue[s].items)
      /\ stateIn(items, i) = st
      /\ \A j : j # i => stateIn(items, j) = stateIn(queue[s].items, j)
  BY RowParts, WithStateItem
<1> HIDE DEF items
<1>2. Len(items) <= MaxQueueItems
  BY <1>1, RowParts
<1>3. SavePromptQueueCAS(s, rev, state, items)
  BY DEF items
<1>4. /\ RowsOK' /\ RevsGrow /\ queue'[s].items = items
      /\ \A t \in Sessions : t # s => queue'[t] = queue[t]
  <2>1. Storable(items)
    BY <1>1, <1>2 DEF Storable
  <2>2. /\ rev = queue[s].rev
        /\ queue' = [queue EXCEPT ![s] = [rev |-> rev + 1, state |-> state, items |-> items]]
    BY <1>3 DEF SavePromptQueueCAS
  <2> QED
    BY <2>1, <2>2, SaveRow, ZenonT(30)
<1> QED
  BY <1>1, <1>4 DEF RowMoves

\* A save that removes one item.
LEMMA SaveWithout ==
  ASSUME RowsOK, NEW s \in Sessions, NEW rev, NEW state \in {"active", "paused"},
         NEW i \in Items, stateIn(queue[s].items, i) # "absent",
         SavePromptQueueCAS(s, rev, state, Without(queue[s].items, i))
  PROVE  RowsOK' /\ RevsGrow /\ RowMoves(s, i, "absent")
<1> DEFINE items == Without(queue[s].items, i)
<1>1. /\ items \in Seq(ItemType) /\ UniqueIds(items) /\ Len(items) = Len(queue[s].items) - 1
      /\ stateIn(items, i) = "absent"
      /\ \A j : j # i => stateIn(items, j) = stateIn(queue[s].items, j)
  BY RowParts, WithoutItem
<1> HIDE DEF items
<1>2. Len(items) <= MaxQueueItems
  <2>1. Len(queue[s].items) \in Nat /\ Len(queue[s].items) <= MaxQueueItems
    BY RowParts
  <2> QED
    BY <1>1, <2>1, PromptQueueAssumption
<1>3. SavePromptQueueCAS(s, rev, state, items)
  BY DEF items
<1>4. /\ RowsOK' /\ RevsGrow /\ queue'[s].items = items
      /\ \A t \in Sessions : t # s => queue'[t] = queue[t]
  <2>1. Storable(items)
    BY <1>1, <1>2 DEF Storable
  <2>2. /\ rev = queue[s].rev
        /\ queue' = [queue EXCEPT ![s] = [rev |-> rev + 1, state |-> state, items |-> items]]
    BY <1>3 DEF SavePromptQueueCAS
  <2> QED
    BY <2>1, <2>2, SaveRow, ZenonT(30)
<1> QED
  BY <1>1, <1>4 DEF RowMoves

\* Enqueue.
LEMMA EnqueueRows ==
  ASSUME RowsOK, NEW s \in Sessions, NEW i \in Items,
         stateIn(queue[s].items, i) = "absent", Enqueue(s, i)
  PROVE  RowsOK' /\ RevsGrow /\ RowMoves(s, i, "queued")
<1> DEFINE x == [id |-> i, state |-> "queued"]
           items == Append(queue[s].items, x)
<1>1. x \in ItemType /\ x.id = i /\ x.state = "queued"
  BY DEF ItemType, ItemStates
<1>2. Len(queue[s].items) < MaxQueueItems
      /\ SavePromptQueueCAS(s, queue[s].rev, queue[s].state, items)
  BY DEF Enqueue
<1> HIDE DEF x
<1>3. /\ items \in Seq(ItemType) /\ UniqueIds(items)
      /\ Len(items) = Len(queue[s].items) + 1
      /\ stateIn(items, i) = "queued"
      /\ \A j : j # i => stateIn(items, j) = stateIn(queue[s].items, j)
  BY <1>1, RowParts, AppendItem
<1> HIDE DEF items
<1>4. Len(items) <= MaxQueueItems
  <2>1. Len(queue[s].items) \in Nat
    BY RowParts
  <2> QED
    BY <1>2, <1>3, <2>1, PromptQueueAssumption
<1>5. /\ RowsOK' /\ RevsGrow /\ queue'[s].items = items
      /\ \A t \in Sessions : t # s => queue'[t] = queue[t]
  <2>1. Storable(items)
    BY <1>3, <1>4 DEF Storable
  <2>2. queue[s].state \in {"active", "paused"}
    BY RowParts
  <2> QED
    BY <1>2, <2>1, <2>2, SaveRow, ZenonT(30) DEF SavePromptQueueCAS
<1> QED
  BY <1>3, <1>5 DEF RowMoves

\* Reorder.
LEMMA ReorderRows ==
  ASSUME RowsOK, NEW s \in Sessions, NEW i \in Items, NEW before, Reorder(s, i, before)
  PROVE  RowsOK' /\ RevsGrow /\ RowsStay
<1> DEFINE rest == Without(queue[s].items, i)
           row == queue[s].items[promptQueueItemIndex(queue[s].items, i)]
           n == promptQueueItemIndex(rest, before)
           items == IF before = NoItem THEN Append(rest, row) ELSE InsertAt(rest, n, row)
<1>1. /\ stateIn(queue[s].items, i) # "absent" /\ (before # NoItem => n # 0)
      /\ SavePromptQueueCAS(s, queue[s].rev, queue[s].state, items)
  BY DEF Reorder, stateOf, editableQueuedPrompt
<1>2. items = Append(rest, row) \/ (n # 0 /\ items = InsertAt(rest, n, row))
  BY <1>1
<1>3. queue[s].items \in Seq(ItemType) /\ UniqueIds(queue[s].items)
      /\ queue[s].state \in {"active", "paused"}
      /\ Len(queue[s].items) <= MaxQueueItems
  BY RowParts
<1> HIDE DEF items
<1>4. /\ items \in Seq(ItemType) /\ UniqueIds(items) /\ Len(items) = Len(queue[s].items)
      /\ \A j : stateIn(items, j) = stateIn(queue[s].items, j)
  BY <1>1, <1>2, <1>3, ReorderItems
<1>5. Len(items) <= MaxQueueItems
  BY <1>3, <1>4
<1>6. /\ RowsOK' /\ RevsGrow /\ queue'[s].items = items
      /\ \A t \in Sessions : t # s => queue'[t] = queue[t]
  <2>1. Storable(items)
    BY <1>4, <1>5 DEF Storable
  <2> QED
    BY <1>1, <1>3, <2>1, SaveRow, ZenonT(30) DEF SavePromptQueueCAS
<1> QED
  BY <1>4, <1>6 DEF RowsStay

\* Reconciliation of one queue.
LEMMA ReconcileRows ==
  ASSUME RowsOK, NEW d \in Daemons, pick[d].at \in Sessions, ReconcileSave(d)
  PROVE  /\ RowsOK' /\ RevsGrow
         /\ \/ RowsStay
            \/ \A t \in Sessions, j \in Items :
                 stateIn(queue'[t].items, j)
                   = IF t # pick[d].at \/ stateIn(queue[t].items, j) # "dispatching"
                     THEN stateIn(queue[t].items, j)
                     ELSE IF j \in proof[d].evidence THEN "absent" ELSE "queued"
<1> DEFINE s == pick[d].at
           items == Reconciled(queue[s].items, proof[d].evidence)
<1>1. \/ UNCHANGED queue
      \/ SavePromptQueueCAS(s, proof[d].listed[s], queue[s].state, items)
  BY DEF ReconcileSave
<1>2. CASE UNCHANGED queue
  <2>1. \A t \in Sessions : queue[t].rev \in Nat
    BY RowParts
  <2> QED
    BY <1>2, <2>1 DEF RowsOK, RevsGrow, RowsStay
<1>3. CASE SavePromptQueueCAS(s, proof[d].listed[s], queue[s].state, items)
  <2>1. queue[s].items \in Seq(ItemType) /\ UniqueIds(queue[s].items)
        /\ queue[s].state \in {"active", "paused"}
        /\ Len(queue[s].items) <= MaxQueueItems /\ Len(queue[s].items) \in Nat
    BY RowParts
  <2>2. /\ items \in Seq(ItemType) /\ UniqueIds(items)
        /\ Len(items) <= Len(queue[s].items)
        /\ \A j : stateIn(items, j)
                    = IF stateIn(queue[s].items, j) # "dispatching"
                      THEN stateIn(queue[s].items, j)
                      ELSE IF j \in proof[d].evidence THEN "absent" ELSE "queued"
    BY <2>1, ReconciledItems
  <2> HIDE DEF items
  <2>3. Len(items) \in Nat
    BY <2>2
  <2>4. Len(items) <= MaxQueueItems
    BY <2>1, <2>2, <2>3, PromptQueueAssumption
  <2>5. /\ RowsOK' /\ RevsGrow /\ queue'[s].items = items
        /\ \A t \in Sessions : t # s => queue'[t] = queue[t]
    <3>1. Storable(items)
      BY <2>2, <2>4 DEF Storable
    <3>2. /\ proof[d].listed[s] = queue[s].rev
          /\ queue' = [queue EXCEPT ![s] = [rev |-> proof[d].listed[s] + 1,
                                            state |-> queue[s].state, items |-> items]]
      BY <1>3 DEF SavePromptQueueCAS
    <3> DEFINE rev == proof[d].listed[s]
               state == queue[s].state
    <3>3. s \in Sessions /\ state \in {"active", "paused"} /\ rev = queue[s].rev
      BY <2>1, <3>2
    <3>4. queue' = [queue EXCEPT ![s] = [rev |-> rev + 1, state |-> state, items |-> items]]
      BY <3>2
    <3> HIDE DEF s, rev, state
    <3> QED
      BY <3>1, <3>3, <3>4, SaveRow, ZenonT(30)
  <2> QED
    BY <2>2, <2>5
<1> QED
  BY <1>1, <1>2, <1>3

-----------------------------------------------------------------------------
(* What a step does to the items: one of a few things. *)

\* Nothing.
Quiet == RowsStay /\ UNCHANGED <<runs, born, withdrawn>>

\* An item is enqueued.
Accepted(s, i) ==
  /\ born[i] = 0 /\ born'[i] # 0 /\ \A j \in Items : j # i => born'[j] = born[j]
  /\ born' \in [Items -> Nat]
  /\ RowMoves(s, i, "queued")
  /\ UNCHANGED <<runs, withdrawn>>

\* A client removes an item or turns it into guidance.
Withdrawn(s, i) ==
  /\ stateIn(queue[s].items, i) \in {"queued", "failed"}
  /\ RowMoves(s, i, "absent")
  /\ withdrawn' = withdrawn \cup {i}
  /\ UNCHANGED <<runs, born>>

\* A client retries an item.
Retried(s, i) ==
  /\ stateIn(queue[s].items, i) = "failed"
  /\ RowMoves(s, i, "queued")
  /\ UNCHANGED <<runs, born, withdrawn>>

\* A daemon that has started settles what it finds dispatching.
Reviewed(d) ==
  /\ pc[d] = "reconcile"
  /\ \A t \in Sessions, j \in Items :
       stateIn(queue'[t].items, j)
         = IF t # pick[d].at \/ stateIn(queue[t].items, j) # "dispatching"
           THEN stateIn(queue[t].items, j)
           ELSE IF j \in proof[d].evidence THEN "absent" ELSE "queued"
  /\ UNCHANGED <<runs, born, withdrawn>>

\* The coordinator claims an item.
Claimed(d) ==
  /\ pc[d] = "claim"
  /\ Dispatchable(pick[d].session)
  /\ Head(queue[pick[d].session].items).id = pick[d].item
  /\ stateIn(queue[pick[d].session].items, pick[d].item) = "queued"
  /\ RowMoves(pick[d].session, pick[d].item, "dispatching")
  /\ UNCHANGED <<runs, born, withdrawn>>

\* The state in which a dispatch leaves its row.
Fate(todo) ==
  CASE todo = "consume" -> "absent"
    [] todo = "reset" -> "queued"
    [] todo = "fail" -> "failed"

\* The coordinator brings an item to its outcome.
SettledRow(d) ==
  /\ pc[d] = "save"
  /\ stateIn(queue[pick[d].session].items, pick[d].item) = "dispatching"
  /\ RowMoves(pick[d].session, pick[d].item, Fate(pick[d].todo))
  /\ UNCHANGED <<runs, born, withdrawn>>

\* A run is recorded for an item.
Recorded(d) ==
  /\ pc[d] = "starting"
  /\ RowsStay
  /\ runs' = [runs EXCEPT ![pick[d].item] = Append(@, "open")]
  /\ UNCHANGED <<born, withdrawn>>

\* A run ends, or never begins.
Ended(d, outcome) ==
  /\ slot[d].item # NoItem
  /\ outcome = "aborted" => pc[d] = "recorded"
  /\ RowsStay
  /\ runs' = [runs EXCEPT ![slot[d].item][slot[d].run] = outcome]
  /\ UNCHANGED <<born, withdrawn>>

ItemsStep ==
  \/ Quiet
  \/ \E s \in Sessions, i \in Items : Accepted(s, i) \/ Withdrawn(s, i) \/ Retried(s, i)
  \/ \E d \in Daemons : \/ Reviewed(d) \/ Claimed(d) \/ SettledRow(d) \/ Recorded(d)
                        \/ \E outcome \in RunStates \ {"open"} : Ended(d, outcome)

\* The creation time of a new item is not 0.
LEMMA BirthIsPositive ==
  ASSUME NEW c \in SUBSET Items
  PROVE  Cardinality(c) + 1 \in Nat \ {0}
<1>1. IsFiniteSet(c)
  BY PromptQueueAssumption, FS_Subset
<1>2. Cardinality(c) \in Nat
  BY <1>1, FS_CardinalityType
<1> QED
  BY <1>2

\* A step that leaves the rows alone.
LEMMA SameRows ==
  ASSUME RowsOK, UNCHANGED queue
  PROVE  RowsOK' /\ RevsGrow /\ RowsStay
<1>1. \A t \in Sessions : queue[t].rev \in Nat
  BY RowParts
<1> QED
  BY <1>1 DEF RowsOK, RevsGrow, RowsStay

\* The end of a run.
LEMMA RunEndsItems ==
  ASSUME NEW d \in Daemons, NEW outcome \in RunStates \ {"open"},
         outcome = "aborted" => pc[d] = "recorded",
         RunEnds(d, outcome), RowsStay, UNCHANGED <<born, withdrawn>>
  PROVE  ItemsStep
<1>1. CASE slot[d].item = NoItem
  BY <1>1 DEF RunEnds, ItemsStep, Quiet
<1>2. CASE slot[d].item # NoItem
  BY <1>2 DEF RunEnds, ItemsStep, Ended
<1> QED
  BY <1>1, <1>2

\* The item the coordinator works on.
LEMMA PickParts ==
  ASSUME QueueInv, NEW d \in Daemons,
         pc[d] \in {"claim", "start", "starting", "recorded", "load", "save"}
  PROVE  pick[d].item \in Items /\ pick[d].session \in Sessions
BY PromptQueueAssumption DEF QueueInv, PlaceInv, PlaceOK

\* The head of a queue that can be dispatched is a queued item.
LEMMA HeadItem ==
  ASSUME RowsOK, NEW s \in Sessions, Dispatchable(s)
  PROVE  /\ Head(queue[s].items).id \in Items
         /\ stateIn(queue[s].items, Head(queue[s].items).id) = "queued"
<1>1. queue[s].items \in Seq(ItemType) /\ UniqueIds(queue[s].items) /\ queue[s].items # <<>>
      /\ Head(queue[s].items).state = "queued"
  BY RowParts DEF Dispatchable
<1>2. 1 \in DOMAIN queue[s].items /\ Head(queue[s].items) = queue[s].items[1]
  BY <1>1
<1> QED
  BY <1>1, <1>2, StateAt DEF ItemType

\* Every step of the system is one of these for the items.
LEMMA StepItems ==
  ASSUME QueueInv, [Next]_vars
  PROVE  RowsOK' /\ RevsGrow /\ ItemsStep
<1> DEFINE Goal == RowsOK' /\ RevsGrow /\ ItemsStep
<1>0. RowsOK /\ TypeOK
  BY DEF QueueInv, TypeOK, RowsOK
<1> SUFFICES Goal
  OBVIOUS
<1>1. ASSUME NEW s \in Sessions, Pause(s) PROVE Goal
  <2>1. SavePromptQueueCAS(s, queue[s].rev, "paused", queue[s].items)
        /\ UNCHANGED <<runs, born, withdrawn>>
    BY <1>1 DEF Pause, Mutation
  <2>2. RowsOK' /\ RevsGrow /\ RowsStay
    BY <1>0, <2>1, SaveSameItems
  <2> QED
    BY <2>1, <2>2 DEF ItemsStep, Quiet
<1>2. ASSUME NEW s \in Sessions, Resume(s) PROVE Goal
  <2>1. SavePromptQueueCAS(s, queue[s].rev, "active", queue[s].items)
        /\ UNCHANGED <<runs, born, withdrawn>>
    BY <1>2 DEF Resume, Mutation
  <2>2. RowsOK' /\ RevsGrow /\ RowsStay
    BY <1>0, <2>1, SaveSameItems
  <2> QED
    BY <2>1, <2>2 DEF ItemsStep, Quiet
<1>3. ASSUME NEW s \in Sessions, NEW i \in Items, Enqueue(s, i) PROVE Goal
  <2>1. /\ born[i] = 0 /\ UNCHANGED <<runs, withdrawn>>
        /\ born' = [born EXCEPT ![i] = Cardinality({j \in Items : born[j] # 0}) + 1]
    BY <1>3 DEF Enqueue, Mutation
  <2>2. stateIn(queue[s].items, i) = "absent"
    BY <2>1 DEF QueueInv, FreshInv, InQueue, stateOf
  <2>3. RowsOK' /\ RevsGrow /\ RowMoves(s, i, "queued")
    BY <1>0, <1>3, <2>2, EnqueueRows
  <2>4. born'[i] # 0 /\ born' \in [Items -> Nat] /\ \A j \in Items : j # i => born'[j] = born[j]
    <3>1. Cardinality({j \in Items : born[j] # 0}) + 1 \in Nat \ {0}
      BY BirthIsPositive
    <3> QED
      BY <1>0, <2>1, <3>1 DEF TypeOK
  <2> QED
    BY <2>1, <2>3, <2>4 DEF ItemsStep, Accepted
<1>4. ASSUME NEW s \in Sessions, NEW i \in Items, Update(s, i) PROVE Goal
  <2>1. SavePromptQueueCAS(s, queue[s].rev, queue[s].state, queue[s].items)
        /\ UNCHANGED <<runs, born, withdrawn>>
    BY <1>4 DEF Update, Mutation
  <2>2. RowsOK' /\ RevsGrow /\ RowsStay
    BY <1>0, <2>1, RowParts, SaveSameItems
  <2> QED
    BY <2>1, <2>2 DEF ItemsStep, Quiet
<1>5. ASSUME NEW s \in Sessions, NEW i \in Items, RemoveItem(s, i) PROVE Goal
  <2>1. /\ SavePromptQueueCAS(s, queue[s].rev, queue[s].state, Without(queue[s].items, i))
        /\ withdrawn' = withdrawn \cup {i} /\ UNCHANGED <<runs, born>>
        /\ stateIn(queue[s].items, i) \in {"queued", "failed"}
    BY <1>5 DEF RemoveItem, Mutation, editableQueuedPrompt, stateOf
  <2>2. RowsOK' /\ RevsGrow /\ RowMoves(s, i, "absent")
    BY <1>0, <2>1, RowParts, SaveWithout
  <2> QED
    BY <2>1, <2>2 DEF ItemsStep, Withdrawn
<1>6. ASSUME NEW s \in Sessions, NEW i \in Items, Retry(s, i) PROVE Goal
  <2>1. /\ SavePromptQueueCAS(s, queue[s].rev, queue[s].state,
                              WithState(queue[s].items, i, "queued"))
        /\ UNCHANGED <<runs, born, withdrawn>>
        /\ stateIn(queue[s].items, i) = "failed"
    BY <1>6 DEF Retry, Mutation, stateOf
  <2>2. RowsOK' /\ RevsGrow /\ RowMoves(s, i, "queued")
    BY <1>0, <2>1, RowParts, SaveWithState DEF ItemStates
  <2> QED
    BY <2>1, <2>2 DEF ItemsStep, Retried
<1>7. ASSUME NEW s \in Sessions, NEW i \in Items, Guide(s, i) PROVE Goal
  <2>1. /\ SavePromptQueueCAS(s, queue[s].rev, queue[s].state, Without(queue[s].items, i))
        /\ withdrawn' = withdrawn \cup {i} /\ UNCHANGED <<runs, born>>
        /\ stateIn(queue[s].items, i) \in {"queued", "failed"}
    BY <1>7 DEF Guide, Mutation, editableQueuedPrompt, stateOf
  <2>2. RowsOK' /\ RevsGrow /\ RowMoves(s, i, "absent")
    BY <1>0, <2>1, RowParts, SaveWithout
  <2> QED
    BY <2>1, <2>2 DEF ItemsStep, Withdrawn
<1>8. ASSUME NEW s \in Sessions, NEW i \in Items, NEW before, Reorder(s, i, before) PROVE Goal
  <2>1. RowsOK' /\ RevsGrow /\ RowsStay
    BY <1>0, <1>8, ReorderRows
  <2>2. UNCHANGED <<runs, born, withdrawn>>
    BY <1>8 DEF Reorder, Mutation
  <2> QED
    BY <2>1, <2>2 DEF ItemsStep, Quiet
<1>9. ASSUME UNCHANGED queue, UNCHANGED <<runs, born, withdrawn>> PROVE Goal
  BY <1>0, <1>9, SameRows DEF ItemsStep, Quiet
<1>10. ASSUME NEW d \in Daemons, CompleteRun(d) PROVE Goal
  <2>1. RunEnds(d, "completed") /\ UNCHANGED queue /\ UNCHANGED <<born, withdrawn>>
    BY <1>10 DEF CompleteRun
  <2>2. RowsOK' /\ RevsGrow /\ RowsStay
    BY <1>0, <2>1, SameRows
  <2> QED
    BY <2>1, <2>2, RunEndsItems DEF RunStates
<1>11. ASSUME NEW d \in Daemons, FreeAfterStop(d), RowsStay, UNCHANGED <<born, withdrawn>>
       PROVE  ItemsStep
  <2>1. RunEnds(d, ending[d].outcome) /\ ending[d].outcome \in RunStates \ {"open", "aborted"}
    BY <1>0, <1>11, PromptQueueAssumption DEF FreeAfterStop, TypeOK, EndingType, RunStates
  <2> QED
    BY <1>11, <2>1, RunEndsItems
<1>12. ASSUME NEW d \in Daemons, PauseLoad(d) PROVE Goal
  <2>1. UNCHANGED queue /\ UNCHANGED <<born, withdrawn>>
        /\ (FreeAfterStop(d) \/ UNCHANGED runs)
    BY <1>12 DEF PauseLoad
  <2>2. RowsOK' /\ RevsGrow /\ RowsStay
    BY <1>0, <2>1, SameRows
  <2> QED
    BY <1>9, <1>11, <2>1, <2>2
<1>13. ASSUME NEW d \in Daemons, PauseSave(d) PROVE Goal
  <2> DEFINE s == slot[d].session
  <2>0. s \in Sessions
    BY <1>13 DEF PauseSave, QueueInv, SlotInv, SlotOK
  <2>1. UNCHANGED <<born, withdrawn>> /\ (FreeAfterStop(d) \/ UNCHANGED <<runs, queue>>)
        /\ \/ SavePromptQueueCAS(s, ending[d].rev, "paused", queue[s].items)
           \/ UNCHANGED queue
    BY <1>13 DEF PauseSave
  <2>2. RowsOK' /\ RevsGrow /\ RowsStay
    BY <1>0, <2>0, <2>1, SameRows, SaveSameItems
  <2> QED
    BY <1>9, <1>11, <2>1, <2>2
<1>14. ASSUME NEW d \in Daemons, ReconcileSave(d) PROVE Goal
  <2>1. pc[d] = "reconcile" /\ pick[d].at \in Sessions /\ UNCHANGED <<runs, born, withdrawn>>
    BY <1>14 DEF ReconcileSave, QueueInv, PlaceInv, PlaceOK
  <2> QED
    BY <1>0, <1>14, <2>1, ReconcileRows DEF ItemsStep, Quiet, Reviewed
<1>15. ASSUME NEW d \in Daemons, Claim(d) PROVE Goal
  <2> DEFINE s == pick[d].session
             i == pick[d].item
  <2>1. pc[d] = "claim" /\ UNCHANGED <<runs, born, withdrawn>> /\ s \in Sessions /\ i \in Items
    BY <1>15, PickParts DEF Claim
  <2>2. CASE SavePromptQueueCAS(s, pick[d].rev, "active",
               WithState(queue[s].items, i, "dispatching"))
    <3>1. pick[d].rev = queue[s].rev
      BY <2>2 DEF SavePromptQueueCAS
    <3>2. Dispatchable(s) /\ Head(queue[s].items).id = i
      BY <2>1, <3>1, PromptQueueAssumption DEF QueueInv, DecisionInv, DecisionOK
    <3>3. stateIn(queue[s].items, i) = "queued"
      BY <1>0, <2>1, <3>2, HeadItem
    <3>4. RowsOK' /\ RevsGrow /\ RowMoves(s, i, "dispatching")
      BY <1>0, <2>1, <2>2, <3>3, SaveWithState DEF ItemStates
    <3> QED
      BY <2>1, <3>2, <3>3, <3>4 DEF ItemsStep, Claimed
  <2>3. CASE UNCHANGED queue
    BY <1>9, <2>1, <2>3
  <2> QED
    BY <1>15, <2>2, <2>3 DEF Claim
<1>16. ASSUME NEW d \in Daemons, SettleSave(d) PROVE Goal
  <2> DEFINE s == pick[d].session
             i == pick[d].item
  <2>1. pc[d] = "save" /\ UNCHANGED <<runs, born, withdrawn>> /\ s \in Sessions /\ i \in Items
    BY <1>16, PickParts DEF SettleSave
  <2>2. CASE SavePromptQueueCAS(s, pick[d].rev, queue[s].state, Outcome(d))
    <3>1. pick[d].rev = queue[s].rev
      BY <2>2 DEF SavePromptQueueCAS
    <3>2. stateIn(queue[s].items, i) = "dispatching"
      BY <2>1, <3>1 DEF QueueInv, DecisionInv, DecisionOK, stateOf
    <3>3. queue[s].state \in {"active", "paused"} /\ pick[d].todo \in Todos
      BY <1>0, <2>1, RowParts DEF TypeOK, PickType
    <3>4. RowsOK' /\ RevsGrow /\ RowMoves(s, i, Fate(pick[d].todo))
      <4>1. CASE pick[d].todo = "consume"
        BY <1>0, <2>1, <2>2, <3>2, <3>3, <4>1, SaveWithout DEF Outcome, Fate
      <4>2. CASE pick[d].todo = "reset"
        BY <1>0, <2>1, <2>2, <3>2, <3>3, <4>2, SaveWithState DEF Outcome, Fate, ItemStates
      <4>3. CASE pick[d].todo = "fail"
        BY <1>0, <2>1, <2>2, <3>2, <3>3, <4>3, SaveWithState DEF Outcome, Fate, ItemStates
      <4> QED
        BY <3>3, <4>1, <4>2, <4>3 DEF Todos
    <3> QED
      BY <2>1, <3>2, <3>4 DEF ItemsStep, SettledRow
  <2>3. CASE UNCHANGED queue
    BY <1>9, <2>1, <2>3
  <2> QED
    BY <1>16, <2>2, <2>3 DEF SettleSave
<1>17. ASSUME NEW d \in Daemons, RecordRun(d) PROVE Goal
  <2>1. /\ pc[d] = "starting" /\ UNCHANGED queue /\ UNCHANGED <<born, withdrawn>>
        /\ runs' = [runs EXCEPT ![pick[d].item] = Append(@, "open")]
    BY <1>17 DEF RecordRun
  <2>2. RowsOK' /\ RevsGrow /\ RowsStay
    BY <1>0, <2>1, SameRows
  <2> QED
    BY <2>1, <2>2 DEF ItemsStep, Recorded
<1>18. ASSUME NEW d \in Daemons, StartFails(d) PROVE Goal
  <2>1. UNCHANGED queue /\ UNCHANGED <<born, withdrawn>>
        /\ (UNCHANGED runs \/ (pc[d] = "recorded" /\ RunEnds(d, "aborted")))
    BY <1>18 DEF StartFails
  <2>2. RowsOK' /\ RevsGrow /\ RowsStay
    BY <1>0, <2>1, SameRows
  <2> QED
    BY <1>9, <2>1, <2>2, RunEndsItems DEF RunStates
<1>19. CASE Mutate
  BY <1>1, <1>2, <1>3, <1>4, <1>5, <1>6, <1>7, <1>8, <1>19 DEF Mutate
<1>20. ASSUME NEW d \in Daemons, EndRun(d) PROVE Goal
  BY <1>9, <1>10, <1>12, <1>13, <1>20 DEF EndRun, StopRun, rowVars
<1>21. ASSUME NEW d \in Daemons, Coordinate(d) PROVE Goal
  <2>1. CASE ReconcileSave(d) \/ Claim(d) \/ SettleSave(d) \/ RecordRun(d)
    BY <1>14, <1>15, <1>16, <1>17, <2>1
  <2>2. CASE \/ ReconcileList(d) \/ ReconcileEvidence(d) \/ TakeWake(d) \/ CheckBusy(d)
             \/ Scan(d) \/ StartTurn(d) \/ HandOff(d) \/ SettleLoad(d)
    <3>1. UNCHANGED queue /\ UNCHANGED <<runs, born, withdrawn>>
      BY <2>2 DEF ReconcileList, ReconcileEvidence, TakeWake, CheckBusy, Scan, StartTurn,
         HandOff, SettleLoad, rowVars
    <3> QED
      BY <1>9, <3>1
  <2> QED
    BY <1>21, <2>1, <2>2 DEF Coordinate
<1>22. CASE UNCHANGED vars
  BY <1>9, <1>22 DEF vars
<1>23. ASSUME NEW d \in Daemons, \/ StartPromptQueueCoordinator(d) \/ Crash(d)
                                 \/ \E s \in Sessions : ReserveTurn(d, s)
                                 \/ BeginTurn(d) \/ ReleaseTurn(d) \/ StoreFails(d)
       PROVE  Goal
  <2>1. UNCHANGED queue /\ UNCHANGED <<runs, born, withdrawn>>
    BY <1>23 DEF StartPromptQueueCoordinator, Crash, ReserveTurn, BeginTurn, ReleaseTurn,
       StoreFails, rowVars
  <2> QED
    BY <1>9, <2>1
<1> QED
  BY <1>18, <1>19, <1>20, <1>21, <1>22, <1>23 DEF Next


-----------------------------------------------------------------------------
(* What a step leaves of the daemons. *)

\* The session ids are numbers from 1.
LEMMA SessionNumbers ==
  /\ 1 \in Sessions /\ 0 \notin Sessions /\ Cardinality(Sessions) \in Nat
  /\ \A s \in Sessions : s \in Nat /\ (s # Cardinality(Sessions) => s + 1 \in Sessions)
<1>1. Cardinality(Sessions) \in Nat
  BY PromptQueueAssumption, FS_CardinalityType
<1> QED
  BY <1>1, PromptQueueAssumption

\* A run that gets another state in a sequence of runs.
LEMMA ExceptRun ==
  ASSUME NEW list \in Seq(RunStates), NEW k, NEW state \in RunStates
  PROVE  /\ [list EXCEPT ![k] = state] \in Seq(RunStates)
         /\ Len([list EXCEPT ![k] = state]) = Len(list)
         /\ \A n \in 1 .. Len(list) :
              [list EXCEPT ![k] = state][n] = IF n = k THEN state ELSE list[n]
<1> DEFINE new == [n \in 1 .. Len(list) |-> IF n = k THEN state ELSE list[n]]
<1>1. [list EXCEPT ![k] = state] = new
  OBVIOUS
<1>2. Len(list) \in Nat /\ \A n \in 1 .. Len(list) : list[n] \in RunStates
  OBVIOUS
<1>3. new \in Seq(RunStates)
  BY <1>2
<1>4. Len(new) = Len(list)
  BY <1>2
<1> QED
  BY <1>1, <1>3, <1>4

\* An item that was enqueued keeps its creation time.
LEMMA BirthStays ==
  ASSUME ItemsStep
  PROVE  \A i \in Items : born[i] # 0 => born'[i] # 0
BY DEF ItemsStep, Quiet, Accepted, Withdrawn, Retried, Reviewed, Claimed, SettledRow,
   Recorded, Ended

\* An item that a run carries stays carried.
LEMMA RunsRemain ==
  ASSUME QueueInv, ItemsStep
  PROVE  \A i \in Items : runs[i] # <<>> => runs'[i] # <<>>
<1>0. TypeOK
  BY DEF QueueInv
<1>1. CASE UNCHANGED runs
  BY <1>1
<1>2. ASSUME NEW d \in Daemons, Recorded(d)
      PROVE  \A i \in Items : runs[i] # <<>> => runs'[i] # <<>>
  <2>1. pick[d].item \in Items
    BY <1>2, PickParts DEF Recorded
  <2>2. runs[pick[d].item] \in Seq(RunStates)
    BY <1>0, <2>1 DEF TypeOK
  <2>3. Append(runs[pick[d].item], "open") # <<>>
    BY <2>2
  <2> QED
    BY <1>0, <1>2, <2>1, <2>3 DEF Recorded, TypeOK
<1>3. ASSUME NEW d \in Daemons, NEW outcome \in RunStates \ {"open"}, Ended(d, outcome)
      PROVE  \A i \in Items : runs[i] # <<>> => runs'[i] # <<>>
  <2> DEFINE j == slot[d].item
  <2>1. j \in Items
    BY <1>0, <1>3 DEF Ended, TypeOK, SlotType
  <2>2. runs[j] \in Seq(RunStates)
    BY <1>0, <2>1 DEF TypeOK
  <2>3. /\ runs'[j] = [runs[j] EXCEPT ![slot[d].run] = outcome]
        /\ \A i \in Items : i # j => runs'[i] = runs[i]
    BY <1>0, <1>3, <2>1 DEF Ended, TypeOK
  <2>4. runs'[j] \in Seq(RunStates) /\ Len(runs'[j]) = Len(runs[j])
    <3> HIDE DEF j
    <3>1. /\ [runs[j] EXCEPT ![slot[d].run] = outcome] \in Seq(RunStates)
          /\ Len([runs[j] EXCEPT ![slot[d].run] = outcome]) = Len(runs[j])
      BY <2>2, ExceptRun
    <3> QED
      BY <2>3, <3>1
  <2>5. runs[j] # <<>> => runs'[j] # <<>>
    BY <2>2, <2>4
  <2> QED
    BY <2>3, <2>5
<1> QED
  BY <1>1, <1>2, <1>3 DEF ItemsStep, Quiet, Accepted, Withdrawn, Retried, Reviewed, Claimed,
     SettledRow

\* A coordinator that does not move stands as well after a step as before it.
LEMMA CoordinatorKept ==
  ASSUME QueueInv, RowsOK', RevsGrow, ItemsStep, NEW d \in Daemons,
         pc'[d] = pc[d], pick'[d] = pick[d], proof'[d] = proof[d]
  PROVE  PlaceOK(d)' /\ DecisionOK(d)' /\ EvidenceOK(d)'
<1>0. TypeOK /\ PlaceOK(d) /\ DecisionOK(d) /\ EvidenceOK(d)
  BY DEF QueueInv, PlaceInv, DecisionInv, EvidenceInv
<1>1. /\ \A i \in Items : born[i] # 0 => born'[i] # 0
      /\ \A i \in Items : runs[i] # <<>> => runs'[i] # <<>>
  BY BirthStays, RunsRemain
<1>2. pick[d].item \in Items \cup {NoItem} /\ pick[d].rev \in Nat /\ proof[d].evidence \subseteq Items
  BY <1>0 DEF TypeOK, PickType, ProofType
<1>3. PlaceOK(d)'
  BY <1>0, <1>1, <1>2 DEF PlaceOK
<1>4. ASSUME pick[d].session \in Sessions, pick[d].rev <= queue[pick[d].session].rev
      PROVE  /\ pick[d].rev <= queue'[pick[d].session].rev
             /\ pick[d].rev = queue'[pick[d].session].rev
                  => /\ pick[d].rev = queue[pick[d].session].rev
                     /\ queue'[pick[d].session] = queue[pick[d].session]
  <2>1. queue[pick[d].session].rev \in Nat /\ queue'[pick[d].session].rev \in Nat
    BY <1>0, <1>4 DEF TypeOK, RowsOK, RowType
  <2> QED
    BY <1>2, <1>4, <2>1 DEF RevsGrow
<1>5. DecisionOK(d)'
  <2>1. ASSUME pc[d] \in {"scan", "claim"}, pick[d].item # NoItem
        PROVE  /\ pick[d].rev <= queue'[pick[d].session].rev
               /\ pick[d].rev = queue'[pick[d].session].rev
                    => /\ Dispatchable(pick[d].session)'
                       /\ Head(queue'[pick[d].session].items).id = pick[d].item
    <3>1. pick[d].session \in Sessions
      BY <1>0, <2>1 DEF PlaceOK
    <3> QED
      BY <1>0, <1>4, <2>1, <3>1 DEF DecisionOK, Dispatchable
  <2>2. ASSUME pc[d] = "save"
        PROVE  /\ pick[d].rev <= queue'[pick[d].session].rev
               /\ pick[d].rev = queue'[pick[d].session].rev
                    => stateIn(queue'[pick[d].session].items, pick[d].item) = "dispatching"
    <3>1. pick[d].session \in Sessions
      BY <2>2, PickParts
    <3> QED
      BY <1>0, <1>4, <2>2, <3>1 DEF DecisionOK, stateOf
  <2> QED
    BY <2>1, <2>2 DEF DecisionOK, stateOf, Dispatchable
<1>6. EvidenceOK(d)'
  <2>1. pc[d] \in {"recorded", "load", "save"} => pick[d].item \in Items
    BY PickParts
  <2> QED
    BY <1>0, <1>1, <1>2, <2>1 DEF EvidenceOK, Evidence
<1> QED
  BY <1>3, <1>5, <1>6

\* What only the daemons keep, and its types.
DaemonTypes ==
  /\ slot \in [Daemons -> SlotType]
  /\ ending \in [Daemons -> EndingType]
  /\ pc \in [Daemons -> PCs]
  /\ pick \in [Daemons -> PickType]
  /\ proof \in [Daemons -> ProofType]

Sound(d) == PlaceOK(d) /\ SlotOK(d) /\ DecisionOK(d) /\ EvidenceOK(d)

CoordinatorStays(d) == pc'[d] = pc[d] /\ pick'[d] = pick[d] /\ proof'[d] = proof[d]
SlotStays(d) == slot'[d] = slot[d] /\ ending'[d] = ending[d]

\* A step of the daemon d is sound: the other daemons are left alone.
SoundStep(d) ==
  /\ DaemonTypes'
  /\ Sound(d)'
  /\ \A e \in Daemons : e # d => CoordinatorStays(e) /\ SlotStays(e)

\* The parts of the types of one daemon.
LEMMA DaemonParts ==
  ASSUME QueueInv, NEW d \in Daemons
  PROVE  /\ DaemonTypes /\ Sound(d)
         /\ slot[d] \in SlotType /\ ending[d] \in EndingType /\ pick[d] \in PickType
         /\ proof[d] \in ProofType
BY DEF QueueInv, TypeOK, DaemonTypes, Sound, PlaceInv, SlotInv, DecisionInv, EvidenceInv

\* What stands for nothing has the types.
LEMMA NothingTypes ==
  /\ FreeSlot \in SlotType /\ NotEnding \in EndingType /\ NoPick \in PickType
  /\ NoProof \in ProofType
  /\ NoPick.item = NoItem /\ NoProof.evidence = {} /\ FreeSlot.kind = "free"
  /\ NotEnding.step = "no"
BY DEF FreeSlot, NotEnding, NoPick, NoProof, SlotType, EndingType, PickType, ProofType, Todos

\* Steps of a client's turn and of the end of a run: the coordinator stays.
LEMMA SlotStep ==
  ASSUME QueueInv, RowsOK', RevsGrow, ItemsStep, NEW d \in Daemons,
         \/ \E s \in Sessions : ReserveTurn(d, s)
         \/ BeginTurn(d) \/ ReleaseTurn(d) \/ EndRun(d)
  PROVE  SoundStep(d)
<1>0. /\ DaemonTypes /\ Sound(d) /\ slot[d] \in SlotType /\ ending[d] \in EndingType
      /\ SlotOK(d)
  BY DaemonParts DEF Sound
<1>1. UNCHANGED <<pc, pick, proof>>
  BY DEF ReserveTurn, BeginTurn, ReleaseTurn, EndRun, CompleteRun, StopRun, PauseLoad, PauseSave,
     coordVars
<1>2. PlaceOK(d)' /\ DecisionOK(d)' /\ EvidenceOK(d)'
  BY <1>1, CoordinatorKept
<1> DEFINE Goal ==
      /\ slot' \in [Daemons -> SlotType] /\ ending' \in [Daemons -> EndingType]
      /\ SlotOK(d)'
      /\ \A e \in Daemons : e # d => SlotStays(e)
<1>3. ASSUME NEW v \in SlotType, slot' = [slot EXCEPT ![d] = v],
             NEW w \in EndingType, ending' = [ending EXCEPT ![d] = w],
             v.kind # "free" => v.session \in Sessions,
             w.step # "no" => v.kind = "running",
             pc[d] \in {"starting", "recorded"} => v.kind = "starting"
      PROVE  Goal
  <2>1. slot'[d] = v /\ ending'[d] = w
    BY <1>0, <1>3 DEF DaemonTypes
  <2>2. SlotOK(d)'
    BY <1>1, <1>3, <2>1 DEF SlotOK
  <2>3. slot' \in [Daemons -> SlotType] /\ ending' \in [Daemons -> EndingType]
    BY <1>0, <1>3 DEF DaemonTypes
  <2>4. \A e \in Daemons : e # d => SlotStays(e)
    BY <1>0, <1>3 DEF DaemonTypes, SlotStays
  <2> QED
    BY <2>2, <2>3, <2>4
<1>4. ending = [ending EXCEPT ![d] = ending[d]] /\ slot = [slot EXCEPT ![d] = slot[d]]
  BY <1>0 DEF DaemonTypes
<1>5. ASSUME NEW s \in Sessions, ReserveTurn(d, s) PROVE Goal
  <2> DEFINE v == [FreeSlot EXCEPT !.kind = "reserved", !.session = s]
  <2>1. v \in SlotType /\ v.kind = "reserved" /\ v.session = s
    BY DEF SlotType, FreeSlot
  <2>2. slot' = [slot EXCEPT ![d] = v] /\ ending' = [ending EXCEPT ![d] = ending[d]]
    BY <1>4, <1>5 DEF ReserveTurn
  <2>3. slot[d].kind = "free"
    BY <1>5 DEF ReserveTurn, busy
  <2> HIDE DEF v
  <2> QED
    BY <1>0, <1>3, <2>1, <2>2, <2>3 DEF SlotOK
<1>6. ASSUME BeginTurn(d) PROVE Goal
  <2> DEFINE v == [slot[d] EXCEPT !.kind = "running"]
  <2>1. v \in SlotType /\ v.kind = "running" /\ v.session = slot[d].session
    BY <1>0 DEF SlotType
  <2>2. slot' = [slot EXCEPT ![d] = v] /\ ending' = [ending EXCEPT ![d] = ending[d]]
    BY <1>4, <1>6 DEF BeginTurn
  <2>3. slot[d].kind = "reserved"
    BY <1>6 DEF BeginTurn
  <2> HIDE DEF v
  <2> QED
    BY <1>0, <1>3, <2>1, <2>2, <2>3 DEF SlotOK
<1>7. ASSUME ReleaseTurn(d) PROVE Goal
  <2>1. slot' = [slot EXCEPT ![d] = FreeSlot] /\ ending' = [ending EXCEPT ![d] = ending[d]]
        /\ slot[d].kind = "reserved"
    BY <1>4, <1>7 DEF ReleaseTurn
  <2> QED
    BY <1>0, <1>3, <2>1, NothingTypes DEF SlotOK
<1>8. ASSUME CompleteRun(d) PROVE Goal
  <2>1. slot' = [slot EXCEPT ![d] = FreeSlot] /\ ending' = [ending EXCEPT ![d] = ending[d]]
        /\ slot[d].kind = "running" /\ ending[d] = NotEnding
    BY <1>4, <1>8 DEF CompleteRun
  <2> QED
    BY <1>0, <1>3, <2>1, NothingTypes DEF SlotOK
<1>9. ASSUME NEW outcome \in Outcomes, StopRun(d, outcome) PROVE Goal
  <2> DEFINE w == [step |-> "load", outcome |-> outcome, rev |-> 0, tries |-> 0]
  <2>1. w \in EndingType
    BY DEF EndingType
  <2>2. ending' = [ending EXCEPT ![d] = w] /\ slot' = [slot EXCEPT ![d] = slot[d]]
        /\ slot[d].kind = "running"
    BY <1>4, <1>9 DEF StopRun
  <2> HIDE DEF w
  <2> QED
    BY <1>0, <1>3, <2>1, <2>2 DEF SlotOK
<1>10. ASSUME FreeAfterStop(d), ending[d].step # "no" PROVE Goal
  <2>1. slot' = [slot EXCEPT ![d] = FreeSlot] /\ ending' = [ending EXCEPT ![d] = NotEnding]
    BY <1>10 DEF FreeAfterStop
  <2> QED
    BY <1>0, <1>3, <1>10, <2>1, NothingTypes DEF SlotOK
<1>11. ASSUME PauseLoad(d) PROVE Goal
  <2> DEFINE q == queue[slot[d].session]
             w == [ending[d] EXCEPT !.step = "save", !.rev = q.rev]
  <2>1. ending[d].step = "load" /\ slot[d].kind = "running" /\ slot[d].session \in Sessions
    BY <1>0, <1>11 DEF PauseLoad, SlotOK
  <2>2. q.rev \in Nat
    BY <2>1, RowParts DEF QueueInv, TypeOK, RowsOK
  <2>3. w \in EndingType
    BY <1>0, <2>2 DEF EndingType
  <2>4. CASE FreeAfterStop(d)
    BY <1>10, <2>1, <2>4
  <2>5. CASE ending' = [ending EXCEPT ![d].step = "save", ![d].rev = q.rev] /\ UNCHANGED slot
    <3>1. ending' = [ending EXCEPT ![d] = w] /\ slot' = [slot EXCEPT ![d] = slot[d]]
      BY <1>0, <1>4, <2>5 DEF DaemonTypes, EndingType
    <3> HIDE DEF w
    <3> QED
      BY <1>0, <1>3, <2>1, <2>3, <3>1 DEF SlotOK
  <2> QED
    BY <1>11, <2>4, <2>5 DEF PauseLoad
<1>12. ASSUME PauseSave(d) PROVE Goal
  <2> DEFINE w == [ending[d] EXCEPT !.step = "load", !.tries = @ + 1]
  <2>1. ending[d].step = "save" /\ slot[d].kind = "running" /\ slot[d].session \in Sessions
    BY <1>0, <1>12 DEF PauseSave, SlotOK
  <2>2. w \in EndingType
    <3>1. ending[d].tries + 1 \in Nat
      BY <1>0 DEF EndingType
    <3>2. w = [ending[d] EXCEPT !.step = "load", !.tries = ending[d].tries + 1]
      BY <1>0 DEF EndingType
    <3> QED
      BY <1>0, <3>1, <3>2 DEF EndingType
  <2>3. CASE FreeAfterStop(d)
    BY <1>10, <2>1, <2>3
  <2>4. CASE ending' = [ending EXCEPT ![d].step = "load", ![d].tries = @ + 1] /\ UNCHANGED slot
    <3>1. ending' = [ending EXCEPT ![d] = w] /\ slot' = [slot EXCEPT ![d] = slot[d]]
      BY <1>0, <1>4, <2>4 DEF DaemonTypes, EndingType
    <3> HIDE DEF w
    <3> QED
      BY <1>0, <1>3, <2>1, <2>2, <3>1 DEF SlotOK
  <2> QED
    BY <1>12, <2>3, <2>4 DEF PauseSave
<1>13. Goal
  BY <1>5, <1>6, <1>7, <1>8, <1>9, <1>11, <1>12 DEF EndRun
<1> QED
  BY <1>0, <1>1, <1>2, <1>13 DEF SoundStep, DaemonTypes, Sound, CoordinatorStays

\* A step of the coordinator that brings it to a place and gives it its work.
LEMMA CoordinatorMoves ==
  ASSUME QueueInv, NEW d \in Daemons,
         NEW label \in PCs, pc' = [pc EXCEPT ![d] = label],
         NEW p \in PickType, pick' = [pick EXCEPT ![d] = p],
         NEW e \in ProofType, proof' = [proof EXCEPT ![d] = e]
  PROVE  /\ pc'[d] = label /\ pick'[d] = p /\ proof'[d] = e
         /\ pc' \in [Daemons -> PCs] /\ pick' \in [Daemons -> PickType]
         /\ proof' \in [Daemons -> ProofType]
         /\ \A f \in Daemons : f # d => CoordinatorStays(f)
<1>0. DaemonTypes
  BY DaemonParts
<1>1. pc'[d] = label /\ pc' \in [Daemons -> PCs]
      /\ \A f \in Daemons : f # d => pc'[f] = pc[f]
  BY <1>0 DEF DaemonTypes
<1>2. pick'[d] = p /\ pick' \in [Daemons -> PickType]
      /\ \A f \in Daemons : f # d => pick'[f] = pick[f]
  BY <1>0 DEF DaemonTypes
<1>3. proof'[d] = e /\ proof' \in [Daemons -> ProofType]
      /\ \A f \in Daemons : f # d => proof'[f] = proof[f]
  BY <1>0 DEF DaemonTypes
<1> QED
  BY <1>1, <1>2, <1>3 DEF CoordinatorStays

\* The daemon that moves keeps its own part when it does not touch it.
LEMMA SelfKept ==
  ASSUME QueueInv, NEW d \in Daemons
  PROVE  /\ pc = [pc EXCEPT ![d] = pc[d]] /\ pick = [pick EXCEPT ![d] = pick[d]]
         /\ proof = [proof EXCEPT ![d] = proof[d]]
         /\ slot = [slot EXCEPT ![d] = slot[d]] /\ ending = [ending EXCEPT ![d] = ending[d]]
BY DaemonParts DEF DaemonTypes

\* What is left to show of a step of the coordinator that leaves the slot.
LEMMA QuietSlotStep ==
  ASSUME QueueInv, NEW d \in Daemons, UNCHANGED <<slot, ending>>,
         pc'[d] \notin {"starting", "recorded"},
         pc' \in [Daemons -> PCs], pick' \in [Daemons -> PickType],
         proof' \in [Daemons -> ProofType],
         \A f \in Daemons : f # d => CoordinatorStays(f),
         PlaceOK(d)' /\ DecisionOK(d)' /\ EvidenceOK(d)'
  PROVE  SoundStep(d)
<1>1. DaemonTypes /\ SlotOK(d)
  BY DaemonParts DEF Sound
<1>2. SlotOK(d)'
  BY <1>1 DEF SlotOK
<1> QED
  BY <1>1, <1>2 DEF SoundStep, DaemonTypes, Sound, SlotStays

\* The evidence of a coordinator and the birth of its item stay.
LEMMA HandsKept ==
  ASSUME QueueInv, ItemsStep, NEW d \in Daemons
  PROVE  /\ proof[d].evidence \subseteq Evidence'
         /\ pick[d].item # NoItem => /\ pick[d].session \in Sessions
                                     /\ pick[d].item \in Items /\ born'[pick[d].item] # 0
<1>1. Sound(d) /\ proof[d] \in ProofType /\ pick[d] \in PickType
  BY DaemonParts
<1>2. proof[d].evidence \subseteq Evidence'
  BY <1>1, RunsRemain DEF Sound, EvidenceOK, Evidence
<1> QED
  BY <1>1, <1>2, BirthStays DEF Sound, PlaceOK, PickType

\* A coordinator that is not at work.
LEMMA IdleSound ==
  ASSUME QueueInv, ItemsStep, NEW d \in Daemons, UNCHANGED <<slot, ending>>,
         NEW label \in {"off", "list", "wait", "check"}, pc' = [pc EXCEPT ![d] = label],
         pick' = [pick EXCEPT ![d] = NoPick] \/ UNCHANGED pick,
         proof' = [proof EXCEPT ![d] = NoProof] \/ UNCHANGED proof
  PROVE  SoundStep(d)
<1>0. pick[d] \in PickType /\ proof[d] \in ProofType
  BY DaemonParts
<1>1. PICK p \in {NoPick, pick[d]} : pick' = [pick EXCEPT ![d] = p]
  BY SelfKept
<1>2. PICK e \in {NoProof, proof[d]} : proof' = [proof EXCEPT ![d] = e]
  BY SelfKept
<1>3. p \in PickType /\ e \in ProofType /\ label \in PCs
  BY <1>0, NothingTypes DEF PCs
<1>4. /\ pc'[d] = label /\ pick'[d] = p /\ proof'[d] = e
      /\ pc' \in [Daemons -> PCs] /\ pick' \in [Daemons -> PickType]
      /\ proof' \in [Daemons -> ProofType]
      /\ \A f \in Daemons : f # d => CoordinatorStays(f)
  BY <1>1, <1>2, <1>3, CoordinatorMoves
<1>5. PlaceOK(d)'
  BY <1>1, <1>4, HandsKept, NothingTypes DEF PlaceOK
<1>6. DecisionOK(d)'
  BY <1>4 DEF DecisionOK
<1>7. EvidenceOK(d)'
  BY <1>2, <1>4, HandsKept, NothingTypes DEF EvidenceOK
<1> QED
  BY <1>4, <1>5, <1>6, <1>7, QuietSlotStep

\* The coordinator starts, or a round begins or ends.
LEMMA RestStep ==
  ASSUME QueueInv, ItemsStep, NEW d \in Daemons,
         \/ StartPromptQueueCoordinator(d) \/ TakeWake(d) \/ StoreFails(d)
         \/ Wait(d) /\ UNCHANGED <<slot, ending, proof>>
         \/ NextRound(d) /\ UNCHANGED <<slot, ending, proof>>
  PROVE  SoundStep(d)
<1>1. CASE StartPromptQueueCoordinator(d)
  BY <1>1, IdleSound DEF StartPromptQueueCoordinator, slotVars
<1>2. CASE TakeWake(d)
  BY <1>2, IdleSound DEF TakeWake, slotVars, Goto
<1>3. CASE Wait(d) /\ UNCHANGED <<slot, ending, proof>>
  BY <1>3, IdleSound DEF Wait, Goto
<1>4. CASE NextRound(d) /\ UNCHANGED <<slot, ending, proof>>
  BY <1>4, IdleSound DEF NextRound, Goto
<1>5. CASE StoreFails(d)
  <2>1. proof' = [proof EXCEPT ![d] = NoProof] /\ (NextRound(d) \/ Wait(d))
        /\ UNCHANGED <<slot, ending>>
    BY <1>5 DEF StoreFails, slotVars
  <2> QED
    BY <2>1, IdleSound DEF NextRound, Wait, Goto
<1> QED
  BY <1>1, <1>2, <1>3, <1>4, <1>5

\* A crash takes everything that a daemon holds.
LEMMA CrashStep ==
  ASSUME QueueInv, NEW d \in Daemons, Crash(d)
  PROVE  SoundStep(d)
<1>0. DaemonTypes
  BY DaemonParts
<1>1. /\ pc' = [pc EXCEPT ![d] = "off"] /\ pick' = [pick EXCEPT ![d] = NoPick]
      /\ proof' = [proof EXCEPT ![d] = NoProof]
      /\ slot' = [slot EXCEPT ![d] = FreeSlot] /\ ending' = [ending EXCEPT ![d] = NotEnding]
  BY DEF Crash
<1>2. /\ pc'[d] = "off" /\ pick'[d] = NoPick /\ proof'[d] = NoProof
      /\ pc' \in [Daemons -> PCs] /\ pick' \in [Daemons -> PickType]
      /\ proof' \in [Daemons -> ProofType]
      /\ \A f \in Daemons : f # d => CoordinatorStays(f)
  BY <1>1, CoordinatorMoves, NothingTypes DEF PCs
<1>3. slot'[d] = FreeSlot /\ slot' \in [Daemons -> SlotType]
      /\ ending'[d] = NotEnding /\ ending' \in [Daemons -> EndingType]
      /\ \A f \in Daemons : f # d => SlotStays(f)
  BY <1>0, <1>1, NothingTypes DEF DaemonTypes, SlotStays
<1>4. Sound(d)'
  BY <1>2, <1>3, NothingTypes DEF Sound, PlaceOK, SlotOK, DecisionOK, EvidenceOK
<1> QED
  BY <1>2, <1>3, <1>4 DEF SoundStep, DaemonTypes

\* The coordinator reviews the queues, session by session.
LEMMA ReconcileStep ==
  ASSUME QueueInv, ItemsStep, NEW d \in Daemons,
         ReconcileList(d) \/ ReconcileEvidence(d) \/ ReconcileSave(d)
  PROVE  SoundStep(d)
<1>0. Sound(d) /\ pick[d] \in PickType /\ proof[d] \in ProofType /\ RowsOK
      /\ UNCHANGED <<slot, ending>> /\ TypeOK
  BY DaemonParts DEF ReconcileList, ReconcileEvidence, ReconcileSave, slotVars, QueueInv,
     TypeOK, RowsOK
<1> DEFINE Frame == /\ pc' \in [Daemons -> PCs] /\ pick' \in [Daemons -> PickType]
                    /\ proof' \in [Daemons -> ProofType]
                    /\ \A f \in Daemons : f # d => CoordinatorStays(f)
<1>1. CASE ReconcileList(d)
  <2> DEFINE revs == [s \in Sessions |-> queue[s].rev]
             p == [NoPick EXCEPT !.at = 1]
             e == [proof[d] EXCEPT !.listed = revs]
  <2>1. revs \in [Sessions -> Nat]
    BY <1>0, RowParts
  <2>2. e \in ProofType /\ e.evidence = proof[d].evidence
    <3> HIDE DEF revs
    <3> QED
      BY <1>0, <2>1 DEF ProofType
  <2>3. p \in PickType /\ p.at = 1 /\ p.item = NoItem
    BY DEF PickType, NoPick, Todos
  <2>4. /\ pc' = [pc EXCEPT ![d] = "evidence"] /\ pick' = [pick EXCEPT ![d] = p]
        /\ proof' = [proof EXCEPT ![d] = e]
    BY <1>1 DEF ReconcileList, Goto
  <2> HIDE DEF p, e
  <2>5. pc'[d] = "evidence" /\ pick'[d] = p /\ proof'[d] = e /\ Frame
    BY <2>2, <2>3, <2>4, CoordinatorMoves DEF PCs
  <2>6. PlaceOK(d)' /\ DecisionOK(d)' /\ EvidenceOK(d)'
    BY <2>2, <2>3, <2>5, SessionNumbers, HandsKept DEF PlaceOK, DecisionOK, EvidenceOK
  <2> QED
    BY <1>0, <2>5, <2>6, QuietSlotStep
<1>2. CASE ReconcileEvidence(d)
  <2> DEFINE e == [proof[d] EXCEPT !.evidence = Evidence]
  <2>1. e \in ProofType /\ e.evidence = Evidence
    BY <1>0 DEF ProofType, Evidence
  <2>2. /\ pc' = [pc EXCEPT ![d] = "reconcile"] /\ pick' = [pick EXCEPT ![d] = pick[d]]
        /\ proof' = [proof EXCEPT ![d] = e]
    BY <1>2, SelfKept DEF ReconcileEvidence, Goto
  <2>3. pc[d] = "evidence" /\ UNCHANGED runs
    BY <1>2 DEF ReconcileEvidence, rowVars
  <2>4. Evidence' = Evidence
    BY <2>3 DEF Evidence
  <2> HIDE DEF e
  <2>5. pc'[d] = "reconcile" /\ pick'[d] = pick[d] /\ proof'[d] = e /\ Frame
    BY <1>0, <2>1, <2>2, CoordinatorMoves DEF PCs
  <2>6. PlaceOK(d)'
    BY <1>0, <2>3, <2>5, HandsKept DEF Sound, PlaceOK
  <2>7. DecisionOK(d)' /\ EvidenceOK(d)'
    BY <2>1, <2>4, <2>5 DEF DecisionOK, EvidenceOK
  <2> QED
    BY <1>0, <2>5, <2>6, <2>7, QuietSlotStep
<1>3. CASE ReconcileSave(d)
  <2> DEFINE s == pick[d].at
  <2>1. pc[d] = "reconcile" /\ s \in Sessions
    BY <1>0, <1>3 DEF ReconcileSave, Sound, PlaceOK
  <2>2. CASE /\ Goto(d, "wait") /\ pick' = [pick EXCEPT ![d] = NoPick]
             /\ proof' = [proof EXCEPT ![d] = NoProof]
    BY <1>0, <2>2, IdleSound DEF Goto
  <2>3. CASE /\ s # Cardinality(Sessions) /\ Goto(d, "evidence")
             /\ pick' = [pick EXCEPT ![d].at = s + 1]
             /\ proof' = [proof EXCEPT ![d].evidence = {}]
    <3> DEFINE p == [pick[d] EXCEPT !.at = s + 1]
               e == [proof[d] EXCEPT !.evidence = {}]
    <3>1. s + 1 \in Sessions /\ s + 1 \in Nat
      BY <2>1, <2>3, SessionNumbers
    <3>2. p \in PickType /\ p.at = s + 1 /\ p.item = pick[d].item /\ p.session = pick[d].session
      BY <1>0, <3>1 DEF PickType
    <3>3. e \in ProofType /\ e.evidence = {}
      BY <1>0 DEF ProofType
    <3>4. /\ pc' = [pc EXCEPT ![d] = "evidence"] /\ pick' = [pick EXCEPT ![d] = p]
          /\ proof' = [proof EXCEPT ![d] = e]
      BY <2>3 DEF Goto
    <3> HIDE DEF p, e
    <3>5. pc'[d] = "evidence" /\ pick'[d] = p /\ proof'[d] = e /\ Frame
      BY <3>2, <3>3, <3>4, CoordinatorMoves DEF PCs
    <3>6. PlaceOK(d)'
      BY <3>1, <3>2, <3>5, HandsKept DEF PlaceOK
    <3>7. DecisionOK(d)' /\ EvidenceOK(d)'
      BY <3>3, <3>5 DEF DecisionOK, EvidenceOK
    <3> QED
      BY <1>0, <3>5, <3>6, <3>7, QuietSlotStep
  <2> QED
    BY <1>3, <2>2, <2>3 DEF ReconcileSave
<1> QED
  BY <1>1, <1>2, <1>3

\* The coordinator looks for the oldest head that can be dispatched.
LEMMA ScanStep ==
  ASSUME QueueInv, ItemsStep, NEW d \in Daemons, CheckBusy(d) \/ Scan(d)
  PROVE  SoundStep(d)
<1>0. Sound(d) /\ pick[d] \in PickType /\ proof[d] \in ProofType /\ RowsOK
      /\ UNCHANGED <<slot, ending, proof>> /\ UNCHANGED <<queue, born>> /\ TypeOK
  BY DaemonParts DEF CheckBusy, Scan, slotVars, rowVars, QueueInv, TypeOK, RowsOK
<1> DEFINE Frame == /\ pc' \in [Daemons -> PCs] /\ pick' \in [Daemons -> PickType]
                    /\ proof' \in [Daemons -> ProofType]
                    /\ \A f \in Daemons : f # d => CoordinatorStays(f)
<1>1. CASE CheckBusy(d)
  <2>1. CASE Wait(d)
    BY <1>0, <2>1, RestStep
  <2>2. CASE Goto(d, "scan") /\ pick' = [pick EXCEPT ![d] = [NoPick EXCEPT !.at = 1]]
    <3> DEFINE p == [NoPick EXCEPT !.at = 1]
    <3>1. p \in PickType /\ p.at = 1 /\ p.item = NoItem
      BY DEF PickType, NoPick, Todos
    <3>2. /\ pc' = [pc EXCEPT ![d] = "scan"] /\ pick' = [pick EXCEPT ![d] = p]
          /\ proof' = [proof EXCEPT ![d] = proof[d]]
      BY <1>0, <2>2, SelfKept DEF Goto
    <3> HIDE DEF p
    <3>3. pc'[d] = "scan" /\ pick'[d] = p /\ proof'[d] = proof[d] /\ Frame
      BY <1>0, <3>1, <3>2, CoordinatorMoves DEF PCs
    <3>4. PlaceOK(d)' /\ DecisionOK(d)' /\ EvidenceOK(d)'
      BY <3>1, <3>3, SessionNumbers, HandsKept DEF PlaceOK, DecisionOK, EvidenceOK
    <3> QED
      BY <1>0, <3>3, <3>4, QuietSlotStep
  <2> QED
    BY <1>1, <2>1, <2>2 DEF CheckBusy
<1>2. CASE Scan(d)
  <2> DEFINE s == pick[d].at
             best == IF Older(d, s)
                     THEN [pick[d] EXCEPT !.session = s, !.rev = queue[s].rev,
                                          !.item = Head(queue[s].items).id]
                     ELSE pick[d]
  <2>1. pc[d] = "scan" /\ s \in Sessions
    <3>1. pc[d] = "scan"
      BY <1>2 DEF Scan
    <3> HIDE DEF best
    <3> QED
      BY <1>0, <3>1 DEF Sound, PlaceOK
  <2>2. /\ best \in PickType
        /\ best.item # NoItem =>
             /\ best.session \in Sessions /\ best.item \in Items /\ born[best.item] # 0
             /\ best.rev <= queue[best.session].rev
             /\ best.rev = queue[best.session].rev
                  => Dispatchable(best.session) /\ Head(queue[best.session].items).id = best.item
    <3>1. CASE Older(d, s)
      <4> DEFINE i == Head(queue[s].items).id
      <4>1. Dispatchable(s) /\ i \in Items /\ stateIn(queue[s].items, i) = "queued"
        BY <1>0, <2>1, <3>1, HeadItem DEF Older
      <4>2. born[i] # 0
        BY <2>1, <4>1 DEF QueueInv, FreshInv, InQueue, stateOf
      <4>3. queue[s].rev \in Nat
        BY <1>0, <2>1, RowParts
      <4> HIDE DEF i
      <4>4. /\ best = [pick[d] EXCEPT !.session = s, !.rev = queue[s].rev, !.item = i]
        BY <3>1 DEF i
      <4>5. best \in PickType /\ best.session = s /\ best.rev = queue[s].rev /\ best.item = i
        <5> HIDE DEF best
        <5> QED
          BY <1>0, <2>1, <4>1, <4>3, <4>4 DEF PickType
      <4> QED
        BY <2>1, <4>1, <4>2, <4>3, <4>5 DEF i
    <3>2. CASE ~Older(d, s)
      BY <1>0, <2>1, <3>2 DEF Sound, PlaceOK, DecisionOK, PickType
    <3> QED
      BY <3>1, <3>2, Zenon
  <2>3. \/ /\ s < Cardinality(Sessions) /\ UNCHANGED pc
           /\ pick' = [pick EXCEPT ![d] = [best EXCEPT !.at = s + 1]]
        \/ Wait(d)
        \/ /\ best.item # NoItem /\ Goto(d, "claim")
           /\ pick' = [pick EXCEPT ![d] = [best EXCEPT !.at = 0]]
    BY <1>2 DEF Scan
  <2> HIDE DEF best
  <2>4. CASE Wait(d)
    BY <1>0, <2>4, RestStep
  <2>5. ASSUME NEW label \in {"scan", "claim"}, pc' = [pc EXCEPT ![d] = label],
               NEW at \in Nat, label = "scan" => at \in Sessions,
               label = "claim" => best.item # NoItem,
               pick' = [pick EXCEPT ![d] = [best EXCEPT !.at = at]]
        PROVE  SoundStep(d)
    <3> DEFINE p == [best EXCEPT !.at = at]
    <3>1. /\ p \in PickType /\ p.at = at /\ p.item = best.item /\ p.session = best.session
          /\ p.rev = best.rev
      BY <2>2, <2>5 DEF PickType
    <3>2. /\ pick' = [pick EXCEPT ![d] = p] /\ proof' = [proof EXCEPT ![d] = proof[d]]
      BY <1>0, <2>5, SelfKept
    <3> HIDE DEF p
    <3>3. pc'[d] = label /\ pick'[d] = p /\ proof'[d] = proof[d] /\ Frame
      <4>1. label \in PCs /\ p \in PickType /\ proof[d] \in ProofType
        BY <1>0, <2>5, <3>1 DEF PCs
      <4>2. pc' = [pc EXCEPT ![d] = label]
        BY <2>5
      <4> QED
        BY <3>2, <4>1, <4>2, CoordinatorMoves
    <3>4. PlaceOK(d)'
      BY <1>0, <2>2, <2>5, <3>1, <3>3 DEF PlaceOK
    <3>5. DecisionOK(d)'
      <4>1. queue' = queue
        BY <1>0
      <4>2. label # "save"
        BY <2>5
      <4> QED
        BY <2>2, <3>1, <3>3, <4>1, <4>2 DEF DecisionOK, Dispatchable
    <3>6. EvidenceOK(d)'
      BY <2>5, <3>3, HandsKept DEF EvidenceOK
    <3> QED
      BY <1>0, <2>5, <3>3, <3>4, <3>5, <3>6, QuietSlotStep
  <2>6. CASE s < Cardinality(Sessions) /\ UNCHANGED pc
             /\ pick' = [pick EXCEPT ![d] = [best EXCEPT !.at = s + 1]]
    <3>1. s + 1 \in Sessions /\ s + 1 \in Nat
      BY <2>1, <2>6, SessionNumbers
    <3>2. pc' = [pc EXCEPT ![d] = "scan"]
      BY <2>1, <2>6, SelfKept
    <3> QED
      BY <2>5, <2>6, <3>1, <3>2
  <2>7. CASE best.item # NoItem /\ Goto(d, "claim")
             /\ pick' = [pick EXCEPT ![d] = [best EXCEPT !.at = 0]]
    BY <2>5, <2>7 DEF Goto
  <2> QED
    BY <2>3, <2>4, <2>6, <2>7
<1> QED
  BY <1>1, <1>2

\* The coordinator claims a row, or finds that the row has changed.
LEMMA ClaimStep ==
  ASSUME QueueInv, ItemsStep, NEW d \in Daemons, Claim(d)
  PROVE  SoundStep(d)
<1>0. Sound(d) /\ pick[d] \in PickType /\ proof[d] \in ProofType
      /\ UNCHANGED <<slot, ending, proof>> /\ pc[d] = "claim" /\ pick[d].item \in Items
  BY DaemonParts, PickParts DEF Claim, slotVars
<1>1. CASE Wait(d)
  BY <1>0, <1>1, RestStep
<1>2. CASE Goto(d, "start") /\ pick' = [pick EXCEPT ![d].rev = 0]
  <2> DEFINE p == [pick[d] EXCEPT !.rev = 0]
  <2>1. p \in PickType /\ p.item = pick[d].item /\ p.session = pick[d].session
    BY <1>0 DEF PickType
  <2>2. /\ pc' = [pc EXCEPT ![d] = "start"] /\ pick' = [pick EXCEPT ![d] = p]
        /\ proof' = [proof EXCEPT ![d] = proof[d]]
    BY <1>0, <1>2, SelfKept DEF Goto
  <2> HIDE DEF p
  <2>3. /\ pc'[d] = "start" /\ pick'[d] = p /\ proof'[d] = proof[d]
        /\ pc' \in [Daemons -> PCs] /\ pick' \in [Daemons -> PickType]
        /\ proof' \in [Daemons -> ProofType]
        /\ \A f \in Daemons : f # d => CoordinatorStays(f)
    BY <1>0, <2>1, <2>2, CoordinatorMoves DEF PCs
  <2>4. PlaceOK(d)' /\ DecisionOK(d)' /\ EvidenceOK(d)'
    BY <1>0, <2>1, <2>3, HandsKept DEF PlaceOK, DecisionOK, EvidenceOK
  <2> QED
    BY <1>0, <2>3, <2>4, QuietSlotStep
<1> QED
  BY <1>1, <1>2 DEF Claim

\* The coordinator has decided what to do with its row.
LEMMA SettleSound ==
  ASSUME QueueInv, ItemsStep, NEW d \in Daemons,
         pc[d] \in {"start", "starting", "recorded"}, UNCHANGED <<ending, proof>>,
         NEW todo \in Todos, Settle(d, todo), todo = "consume" => pc[d] = "recorded",
         NEW v \in SlotType, slot' = [slot EXCEPT ![d] = v],
         v.kind # "free" => v.session \in Sessions,
         v.kind = slot[d].kind \/ slot[d].kind = "starting"
  PROVE  SoundStep(d)
<1>0. Sound(d) /\ pick[d] \in PickType /\ proof[d] \in ProofType /\ DaemonTypes
      /\ pick[d].item \in Items
  BY DaemonParts, PickParts
<1> DEFINE p == [pick[d] EXCEPT !.todo = todo]
<1>1. p \in PickType /\ p.item = pick[d].item /\ p.session = pick[d].session /\ p.todo = todo
  BY <1>0 DEF PickType
<1>2. /\ pc' = [pc EXCEPT ![d] = "load"] /\ pick' = [pick EXCEPT ![d] = p]
      /\ proof' = [proof EXCEPT ![d] = proof[d]]
  BY SelfKept DEF Settle, Goto
<1> HIDE DEF p
<1>3. /\ pc'[d] = "load" /\ pick'[d] = p /\ proof'[d] = proof[d]
      /\ pc' \in [Daemons -> PCs] /\ pick' \in [Daemons -> PickType]
      /\ proof' \in [Daemons -> ProofType]
      /\ \A f \in Daemons : f # d => CoordinatorStays(f)
  <2>1. "load" \in PCs /\ p \in PickType /\ proof[d] \in ProofType
    BY <1>0, <1>1 DEF PCs
  <2> QED
    BY <1>2, <2>1, CoordinatorMoves
<1>4. slot'[d] = v /\ slot' \in [Daemons -> SlotType] /\ ending' \in [Daemons -> EndingType]
      /\ ending'[d] = ending[d] /\ \A f \in Daemons : f # d => SlotStays(f)
  BY <1>0 DEF DaemonTypes, SlotStays
<1>5. PlaceOK(d)'
  BY <1>0, <1>1, <1>3, HandsKept DEF PlaceOK
<1>6. DecisionOK(d)'
  BY <1>3 DEF DecisionOK
<1>7. EvidenceOK(d)'
  <2>1. todo = "consume" => runs'[pick[d].item] # <<>>
    BY <1>0, RunsRemain DEF Sound, EvidenceOK
  <2>2. proof[d].evidence \subseteq Evidence'
    BY HandsKept
  <2> QED
    BY <1>1, <1>3, <2>1, <2>2 DEF EvidenceOK
<1>8. SlotOK(d)'
  BY <1>0, <1>3, <1>4 DEF Sound, SlotOK
<1> QED
  BY <1>3, <1>4, <1>5, <1>6, <1>7, <1>8 DEF SoundStep, DaemonTypes, Sound

\* The coordinator starts the turn of its row.
LEMMA StartStep ==
  ASSUME QueueInv, ItemsStep, NEW d \in Daemons,
         StartTurn(d) \/ RecordRun(d) \/ HandOff(d) \/ StartFails(d)
  PROVE  SoundStep(d)
<1>0. Sound(d) /\ pick[d] \in PickType /\ proof[d] \in ProofType /\ slot[d] \in SlotType
      /\ DaemonTypes /\ pick[d].item \in Items /\ pick[d].session \in Sessions
      /\ UNCHANGED <<ending, proof>> /\ SlotOK(d)
  BY DaemonParts, PickParts DEF StartTurn, RecordRun, HandOff, StartFails, Sound
<1>1. ASSUME NEW label \in {"starting", "recorded"}, pc' = [pc EXCEPT ![d] = label],
             UNCHANGED pick, NEW v \in SlotType, slot' = [slot EXCEPT ![d] = v],
             v.kind = "starting", v.session \in Sessions, ending[d].step = "no",
             label = "recorded" => runs'[pick[d].item] # <<>>
      PROVE  SoundStep(d)
  <2>1. /\ pc'[d] = label /\ pick'[d] = pick[d] /\ proof'[d] = proof[d]
        /\ pc' \in [Daemons -> PCs] /\ pick' \in [Daemons -> PickType]
        /\ proof' \in [Daemons -> ProofType]
        /\ \A f \in Daemons : f # d => CoordinatorStays(f)
    <3>1. label \in PCs /\ pc' = [pc EXCEPT ![d] = label]
      BY <1>1 DEF PCs
    <3>2. pick' = [pick EXCEPT ![d] = pick[d]] /\ proof' = [proof EXCEPT ![d] = proof[d]]
      BY <1>0, <1>1, SelfKept
    <3> QED
      BY <1>0, <3>1, <3>2, CoordinatorMoves
  <2>2. slot'[d] = v /\ slot' \in [Daemons -> SlotType] /\ ending' \in [Daemons -> EndingType]
        /\ ending'[d] = ending[d] /\ \A f \in Daemons : f # d => SlotStays(f)
    BY <1>0, <1>1 DEF DaemonTypes, SlotStays
  <2>3. PlaceOK(d)'
    BY <1>0, <1>1, <2>1, HandsKept DEF PlaceOK
  <2>4. DecisionOK(d)'
    BY <1>1, <2>1 DEF DecisionOK
  <2>5. EvidenceOK(d)'
    BY <1>1, <2>1, HandsKept DEF EvidenceOK
  <2>6. SlotOK(d)'
    BY <1>1, <2>1, <2>2 DEF SlotOK
  <2> QED
    BY <2>1, <2>2, <2>3, <2>4, <2>5, <2>6 DEF SoundStep, DaemonTypes, Sound
<1>2. CASE StartTurn(d)
  <2>1. CASE Settle(d, "reset") /\ UNCHANGED slot
    <3>1. pc[d] = "start" /\ slot' = [slot EXCEPT ![d] = slot[d]] /\ "reset" \in Todos
      BY <1>2, <2>1, SelfKept DEF StartTurn, Todos
    <3> QED
      BY <1>0, <2>1, <3>1, SettleSound DEF SlotOK
  <2>2. CASE ~busy(d) /\ Goto(d, "starting") /\ UNCHANGED pick
             /\ slot' = [slot EXCEPT ![d] = [FreeSlot EXCEPT !.kind = "starting",
                                                             !.session = pick[d].session]]
    <3> DEFINE v == [FreeSlot EXCEPT !.kind = "starting", !.session = pick[d].session]
    <3>1. v \in SlotType /\ v.kind = "starting" /\ v.session = pick[d].session
      BY <1>0 DEF SlotType, FreeSlot
    <3>2. slot' = [slot EXCEPT ![d] = v] /\ pc' = [pc EXCEPT ![d] = "starting"]
      BY <2>2 DEF Goto
    <3>3. ending[d].step = "no"
      BY <1>0, <2>2 DEF busy, SlotOK
    <3> HIDE DEF v
    <3> QED
      BY <1>0, <1>1, <2>2, <3>1, <3>2, <3>3
  <2> QED
    BY <1>2, <2>1, <2>2 DEF StartTurn
<1>3. CASE RecordRun(d)
  <2> DEFINE i == pick[d].item
             v == [slot[d] EXCEPT !.item = i, !.run = Len(runs[i]) + 1]
  <2>1. runs[i] \in Seq(RunStates)
    BY <1>0 DEF QueueInv, TypeOK
  <2>2. Len(runs[i]) + 1 \in Nat /\ Append(runs[i], "open") # <<>>
    BY <2>1
  <2>3. pc[d] = "starting" /\ pc' = [pc EXCEPT ![d] = "recorded"] /\ UNCHANGED pick
        /\ runs' = [runs EXCEPT ![i] = Append(@, "open")]
    BY <1>3 DEF RecordRun, Goto
  <2>4. slot[d].kind = "starting" /\ slot[d].session \in Sessions /\ ending[d].step = "no"
    BY <1>0, <2>3 DEF SlotOK
  <2>5. v \in SlotType /\ v.kind = "starting" /\ v.session = slot[d].session
    <3>1. v = [slot[d] EXCEPT !.item = pick[d].item, !.run = Len(runs[i]) + 1]
      OBVIOUS
    <3> HIDE DEF v, i
    <3> QED
      BY <1>0, <2>2, <2>4, <3>1 DEF SlotType
  <2>6. slot' = [slot EXCEPT ![d] = v]
    BY <1>0, <1>3 DEF RecordRun, DaemonTypes, SlotType
  <2>7. runs'[i] # <<>>
    BY <1>0, <2>2, <2>3 DEF QueueInv, TypeOK
  <2> HIDE DEF v
  <2> QED
    BY <1>1, <2>3, <2>4, <2>5, <2>6, <2>7
<1>4. CASE HandOff(d)
  <2> DEFINE v == [slot[d] EXCEPT !.kind = "running"]
  <2>1. pc[d] = "recorded" /\ Settle(d, "consume") /\ slot' = [slot EXCEPT ![d] = v]
    BY <1>4 DEF HandOff
  <2>2. slot[d].kind = "starting" /\ slot[d].session \in Sessions
    BY <1>0, <2>1 DEF SlotOK
  <2>3. v \in SlotType /\ v.session = slot[d].session /\ "consume" \in Todos
    BY <1>0 DEF SlotType, Todos
  <2> HIDE DEF v
  <2> QED
    BY <1>0, <2>1, <2>2, <2>3, SettleSound
<1>5. CASE StartFails(d)
  <2>1. pc[d] \in {"start", "starting", "recorded"} /\ Settle(d, "fail") /\ "fail" \in Todos
    BY <1>5 DEF StartFails, Todos
  <2>2. CASE pc[d] = "start"
    <3>1. slot' = [slot EXCEPT ![d] = slot[d]]
      BY <1>5, <2>2, SelfKept DEF StartFails
    <3> QED
      BY <1>0, <2>1, <3>1, SettleSound DEF SlotOK
  <2>3. CASE pc[d] # "start"
    <3>1. slot' = [slot EXCEPT ![d] = FreeSlot] /\ slot[d].kind = "starting"
      BY <1>0, <1>5, <2>1, <2>3 DEF StartFails, SlotOK
    <3> QED
      BY <1>0, <2>1, <3>1, SettleSound, NothingTypes
  <2> QED
    BY <2>2, <2>3
<1> QED
  BY <1>2, <1>3, <1>4, <1>5

\* The coordinator brings its row to its outcome.
LEMMA SettleStep ==
  ASSUME QueueInv, ItemsStep, NEW d \in Daemons, SettleLoad(d) \/ SettleSave(d)
  PROVE  SoundStep(d)
<1>0. Sound(d) /\ pick[d] \in PickType /\ proof[d] \in ProofType
      /\ UNCHANGED <<slot, ending, proof>> /\ pc[d] \in {"load", "save"}
      /\ pick[d].item \in Items /\ pick[d].session \in Sessions
  BY DaemonParts, PickParts DEF SettleLoad, SettleSave, slotVars
<1>1. CASE NextRound(d)
  BY <1>0, <1>1, RestStep
<1>2. ASSUME NEW label \in {"load", "save"}, pc' = [pc EXCEPT ![d] = label],
             NEW p \in PickType, pick' = [pick EXCEPT ![d] = p],
             p.item = pick[d].item, p.session = pick[d].session, p.todo = pick[d].todo,
             label = "save" =>
               /\ p.rev <= queue'[p.session].rev
               /\ stateIn(queue'[p.session].items, p.item) = "dispatching"
      PROVE  SoundStep(d)
  <2>1. /\ pc'[d] = label /\ pick'[d] = p /\ proof'[d] = proof[d]
        /\ pc' \in [Daemons -> PCs] /\ pick' \in [Daemons -> PickType]
        /\ proof' \in [Daemons -> ProofType]
        /\ \A f \in Daemons : f # d => CoordinatorStays(f)
    <3>1. label \in PCs /\ pc' = [pc EXCEPT ![d] = label] /\ pick' = [pick EXCEPT ![d] = p]
      BY <1>2 DEF PCs
    <3>2. proof' = [proof EXCEPT ![d] = proof[d]] /\ proof[d] \in ProofType
      BY <1>0, SelfKept
    <3> QED
      BY <3>1, <3>2, CoordinatorMoves
  <2>2. PlaceOK(d)'
    BY <1>0, <1>2, <2>1, HandsKept DEF PlaceOK
  <2>3. DecisionOK(d)'
    BY <1>2, <2>1 DEF DecisionOK, stateOf
  <2>4. EvidenceOK(d)'
    <3>1. pick[d].todo = "consume" => runs'[pick[d].item] # <<>>
      BY <1>0, RunsRemain DEF Sound, EvidenceOK
    <3>2. proof[d].evidence \subseteq Evidence'
      BY HandsKept
    <3> QED
      BY <1>2, <2>1, <3>1, <3>2 DEF EvidenceOK
  <2> QED
    BY <1>0, <1>2, <2>1, <2>2, <2>3, <2>4, QuietSlotStep
<1>3. CASE SettleLoad(d)
  <2>1. CASE /\ stateIn(queue[pick[d].session].items, pick[d].item) = "dispatching"
             /\ Goto(d, "save")
             /\ pick' = [pick EXCEPT ![d].rev = queue[pick[d].session].rev]
    <3> DEFINE p == [pick[d] EXCEPT !.rev = queue[pick[d].session].rev]
    <3>1. queue[pick[d].session].rev \in Nat /\ UNCHANGED queue
      BY <1>0, <1>3, RowParts DEF QueueInv, TypeOK, RowsOK, SettleLoad, rowVars
    <3>2. p \in PickType /\ p.item = pick[d].item /\ p.session = pick[d].session
          /\ p.todo = pick[d].todo /\ p.rev = queue[pick[d].session].rev
      BY <1>0, <3>1 DEF PickType
    <3>3. pc' = [pc EXCEPT ![d] = "save"] /\ pick' = [pick EXCEPT ![d] = p]
      BY <2>1 DEF Goto
    <3> HIDE DEF p
    <3>4. p.rev <= queue'[p.session].rev
          /\ stateIn(queue'[p.session].items, p.item) = "dispatching"
      BY <2>1, <3>1, <3>2
    <3> QED
      BY <1>2, <3>2, <3>3, <3>4
  <2> QED
    BY <1>1, <1>3, <2>1 DEF SettleLoad, stateOf
<1>4. CASE SettleSave(d)
  <2>1. CASE Goto(d, "load") /\ pick' = [pick EXCEPT ![d].tries = @ + 1]
    <3> DEFINE p == [pick[d] EXCEPT !.tries = pick[d].tries + 1]
    <3>1. pick[d].tries + 1 \in Nat
      BY <1>0 DEF PickType
    <3>2. p \in PickType /\ p.item = pick[d].item /\ p.session = pick[d].session
          /\ p.todo = pick[d].todo
      BY <1>0, <3>1 DEF PickType
    <3>3. pc' = [pc EXCEPT ![d] = "load"] /\ pick' = [pick EXCEPT ![d] = p]
      BY <2>1, DaemonParts DEF Goto, DaemonTypes, PickType
    <3> HIDE DEF p
    <3> QED
      BY <1>2, <3>2, <3>3
  <2> QED
    BY <1>1, <1>4, <2>1 DEF SettleSave
<1> QED
  BY <1>3, <1>4

-----------------------------------------------------------------------------
(* The invariant for any number of daemons. *)

\* The runs, the creation times and the withdrawn items have their types.
LEMMA ItemTypes ==
  ASSUME QueueInv, ItemsStep
  PROVE  /\ runs' \in [Items -> Seq(RunStates)] /\ born' \in [Items -> Nat]
         /\ withdrawn' \subseteq Items
<1>0. runs \in [Items -> Seq(RunStates)] /\ born \in [Items -> Nat] /\ withdrawn \subseteq Items
  BY DEF QueueInv, TypeOK
<1>1. born' \in [Items -> Nat]
  BY <1>0 DEF ItemsStep, Quiet, Accepted, Withdrawn, Retried, Reviewed, Claimed, SettledRow,
     Recorded, Ended
<1>2. withdrawn' \subseteq Items
  BY <1>0 DEF ItemsStep, Quiet, Accepted, Withdrawn, Retried, Reviewed, Claimed, SettledRow,
     Recorded, Ended
<1>3. ASSUME NEW d \in Daemons, Recorded(d) PROVE runs' \in [Items -> Seq(RunStates)]
  <2>1. pick[d].item \in Items
    BY <1>3, PickParts DEF Recorded
  <2>2. Append(runs[pick[d].item], "open") \in Seq(RunStates)
    BY <1>0, <2>1 DEF RunStates
  <2> QED
    BY <1>0, <1>3, <2>1, <2>2 DEF Recorded
<1>4. ASSUME NEW d \in Daemons, NEW outcome \in RunStates \ {"open"}, Ended(d, outcome)
      PROVE  runs' \in [Items -> Seq(RunStates)]
  <2>1. slot[d].item \in Items
    BY <1>4, DaemonParts DEF Ended, SlotType
  <2>2. runs[slot[d].item] \in Seq(RunStates)
    BY <1>0, <2>1
  <2>3. [runs[slot[d].item] EXCEPT ![slot[d].run] = outcome] \in Seq(RunStates)
    BY <2>2, ExceptRun
  <2> QED
    BY <1>0, <1>4, <2>1, <2>3 DEF Ended
<1>5. runs' \in [Items -> Seq(RunStates)]
  BY <1>0, <1>3, <1>4 DEF ItemsStep, Quiet, Accepted, Withdrawn, Retried, Reviewed, Claimed,
     SettledRow
<1> QED
  BY <1>1, <1>2, <1>5

\* A client's mutation leaves the daemons alone, but for a wake token.
LEMMA MutateFrame ==
  ASSUME Mutate
  PROVE  /\ \E s \in Sessions, op \in AllOps \cup {"enqueue"} :
              Mutation(s, op) /\ (Wakes(s) \/ UNCHANGED wake)
         /\ UNCHANGED <<slot, ending, pc, pick, proof>>
<1>1. ASSUME NEW s \in Sessions, NEW op \in AllOps \cup {"enqueue"}, Mutation(s, op),
             Wakes(s) \/ UNCHANGED wake
      PROVE  /\ \E t \in Sessions, o \in AllOps \cup {"enqueue"} :
                  Mutation(t, o) /\ (Wakes(t) \/ UNCHANGED wake)
             /\ UNCHANGED <<slot, ending, pc, pick, proof>>
  <2>1. UNCHANGED <<slot, ending, pc, pick, proof>>
    BY <1>1 DEF Mutation, slotVars, coordVars
  <2> QED
    BY <1>1, <2>1
<1>2. ASSUME NEW s \in Sessions, Pause(s) \/ Resume(s)
      PROVE  \E op \in AllOps \cup {"enqueue"} : Mutation(s, op) /\ (Wakes(s) \/ UNCHANGED wake)
  BY <1>2 DEF Pause, Resume, AllOps
<1>3. ASSUME NEW s \in Sessions, NEW i \in Items, Enqueue(s, i) \/ Update(s, i) \/ RemoveItem(s, i)
      PROVE  \E op \in AllOps \cup {"enqueue"} : Mutation(s, op) /\ (Wakes(s) \/ UNCHANGED wake)
  BY <1>3 DEF Enqueue, Update, RemoveItem, AllOps
<1>4. ASSUME NEW s \in Sessions, NEW i \in Items, Retry(s, i) \/ Guide(s, i)
      PROVE  \E op \in AllOps \cup {"enqueue"} : Mutation(s, op) /\ (Wakes(s) \/ UNCHANGED wake)
  BY <1>4 DEF Retry, Guide, AllOps
<1>5. ASSUME NEW s \in Sessions, NEW i \in Items, NEW before, Reorder(s, i, before)
      PROVE  \E op \in AllOps \cup {"enqueue"} : Mutation(s, op) /\ (Wakes(s) \/ UNCHANGED wake)
  BY <1>5 DEF Reorder, AllOps
<1> QED
  BY <1>1, <1>2, <1>3, <1>4, <1>5 DEF Mutate

\* The wake token is one token, and a bound is never exceeded.
LEMMA TokenTypes ==
  ASSUME QueueInv, [Next]_vars
  PROVE  /\ wake' \in [Daemons -> BOOLEAN]
         /\ budget' \in [mutations : Nat, turns : Nat, crashes : Nat]
<1> DEFINE Budgets == [mutations : Nat, turns : Nat, crashes : Nat]
           Goal == wake' \in [Daemons -> BOOLEAN] /\ budget' \in Budgets
<1>0. wake \in [Daemons -> BOOLEAN] /\ budget \in Budgets /\ Home \in [Sessions -> Daemons]
  BY PromptQueueAssumption DEF QueueInv, TypeOK
<1>1. ASSUME NEW s \in Sessions, NEW op, Mutation(s, op), Wakes(s) \/ UNCHANGED wake PROVE Goal
  <2>1. budget' \in Budgets
    BY <1>0, <1>1 DEF Mutation
  <2>2. wake' \in [Daemons -> BOOLEAN]
    BY <1>0, <1>1 DEF Wakes
  <2> QED
    BY <2>1, <2>2
<1>2. CASE Mutate
  BY <1>1, <1>2, MutateFrame
<1>3. ASSUME NEW d \in Daemons, Crash(d) PROVE Goal
  <2>1. budget' \in Budgets
    BY <1>0, <1>3 DEF Crash
  <2>2. wake' \in [Daemons -> BOOLEAN]
    BY <1>0, <1>3 DEF Crash
  <2> QED
    BY <2>1, <2>2
<1>4. ASSUME NEW d \in Daemons, NEW s \in Sessions, ReserveTurn(d, s) PROVE Goal
  BY <1>0, <1>4 DEF ReserveTurn
<1>5. ASSUME NEW d \in Daemons, UNCHANGED budget,
             UNCHANGED wake \/ (\E b \in BOOLEAN : wake' = [wake EXCEPT ![d] = b])
      PROVE  Goal
  BY <1>0, <1>5
<1>6. ASSUME NEW d \in Daemons, StartPromptQueueCoordinator(d) \/ TakeWake(d) \/ CompleteRun(d)
      PROVE  Goal
  BY <1>5, <1>6 DEF StartPromptQueueCoordinator, TakeWake, CompleteRun
<1>7. ASSUME NEW d \in Daemons,
             \/ BeginTurn(d) \/ ReleaseTurn(d) \/ (\E outcome \in Outcomes : StopRun(d, outcome))
             \/ PauseLoad(d) \/ PauseSave(d) \/ ReconcileList(d) \/ ReconcileEvidence(d)
             \/ ReconcileSave(d) \/ CheckBusy(d) \/ Scan(d)
      PROVE  Goal
  <2>1. UNCHANGED <<budget, wake>>
    BY <1>7 DEF BeginTurn, ReleaseTurn, StopRun, PauseLoad, PauseSave, ReconcileList,
       ReconcileEvidence, ReconcileSave, CheckBusy, Scan
  <2> QED
    BY <1>0, <2>1
<1>8. ASSUME NEW d \in Daemons,
             \/ Claim(d) \/ StartTurn(d) \/ RecordRun(d) \/ HandOff(d) \/ SettleLoad(d)
             \/ SettleSave(d) \/ StartFails(d) \/ StoreFails(d)
      PROVE  Goal
  <2>1. UNCHANGED <<budget, wake>>
    BY <1>8 DEF Claim, StartTurn, RecordRun, HandOff, SettleLoad, SettleSave, StartFails,
       StoreFails
  <2> QED
    BY <1>0, <2>1
<1>9. CASE UNCHANGED vars
  BY <1>0, <1>9 DEF vars
<1> QED
  BY <1>2, <1>3, <1>4, <1>6, <1>7, <1>8, <1>9 DEF Next, EndRun, Coordinate

\* A step that is not an enqueue brings no item into a queue.
LEMMA RowsOnlyMove ==
  ASSUME QueueInv, ItemsStep, NEW t \in Sessions, NEW j \in Items,
         stateIn(queue'[t].items, j) # "absent"
  PROVE  \/ stateIn(queue[t].items, j) # "absent"
         \/ Accepted(t, j)
<1> DEFINE Goal == stateIn(queue[t].items, j) # "absent" \/ Accepted(t, j)
<1>1. CASE RowsStay
  BY <1>1 DEF RowsStay
<1>2. ASSUME NEW s \in Sessions, NEW i \in Items, Accepted(s, i) PROVE Goal
  <2>1. (t = s /\ j = i) \/ stateIn(queue'[t].items, j) = stateIn(queue[t].items, j)
    BY <1>2 DEF Accepted, RowMoves
  <2> QED
    BY <1>2, <2>1
<1>3. ASSUME NEW s \in Sessions, NEW i \in Items, Withdrawn(s, i) \/ Retried(s, i) PROVE Goal
  BY <1>3 DEF Withdrawn, Retried, RowMoves
<1>4. ASSUME NEW d \in Daemons, Reviewed(d) PROVE Goal
  BY <1>4 DEF Reviewed
<1>5. ASSUME NEW d \in Daemons, Claimed(d) PROVE Goal
  BY <1>5 DEF Claimed, RowMoves
<1>6. ASSUME NEW d \in Daemons, SettledRow(d) PROVE Goal
  BY <1>6 DEF SettledRow, RowMoves
<1> QED
  BY <1>1, <1>2, <1>3, <1>4, <1>5, <1>6 DEF ItemsStep, Quiet, Recorded, Ended

\* The ids that were not used are still nowhere.
LEMMA FreshStep ==
  ASSUME QueueInv, ItemsStep
  PROVE  FreshInv'
<1> SUFFICES ASSUME NEW i \in Items, born'[i] = 0
             PROVE  /\ \A s \in Sessions : stateIn(queue'[s].items, i) = "absent"
                    /\ i \notin withdrawn' /\ runs'[i] = <<>>
  BY DEF FreshInv, InQueue, stateOf
<1>1. born[i] = 0
  BY BirthStays
<1>2. /\ \A s \in Sessions : stateIn(queue[s].items, i) = "absent"
      /\ i \notin withdrawn /\ runs[i] = <<>>
  BY <1>1 DEF QueueInv, FreshInv, InQueue, stateOf
<1>3. \A s \in Sessions : stateIn(queue'[s].items, i) = "absent"
  BY <1>2, RowsOnlyMove DEF Accepted
<1>4. i \notin withdrawn'
  BY <1>2 DEF ItemsStep, Quiet, Accepted, Withdrawn, Retried, Reviewed, Claimed, SettledRow,
     Recorded, Ended
<1>5. ASSUME NEW d \in Daemons, Recorded(d) PROVE runs'[i] = <<>>
  <2>1. pick[d].item \in Items
    BY <1>5, PickParts DEF Recorded
  <2>2. born[pick[d].item] # 0
    BY <2>1, PromptQueueAssumption DEF QueueInv, PlaceInv, PlaceOK
  <2>3. runs \in [Items -> Seq(RunStates)]
    BY DEF QueueInv, TypeOK
  <2> QED
    BY <1>1, <1>2, <1>5, <2>1, <2>2, <2>3 DEF Recorded
<1>6. ASSUME NEW d \in Daemons, NEW outcome \in RunStates \ {"open"}, Ended(d, outcome)
      PROVE  runs'[i] = <<>>
  <2>1. runs \in [Items -> Seq(RunStates)] /\ slot[d].item \in Items
    BY <1>6, DaemonParts DEF QueueInv, TypeOK, Ended, SlotType
  <2>2. CASE slot[d].item # i
    BY <1>2, <1>6, <2>1, <2>2 DEF Ended
  <2>3. CASE slot[d].item = i
    <3>1. runs'[i] = [runs[i] EXCEPT ![slot[d].run] = outcome]
      BY <1>6, <2>1, <2>3 DEF Ended
    <3>2. runs[i] \in Seq(RunStates) /\ Len(runs[i]) = 0
      BY <1>2, <2>1
    <3>3. /\ [runs[i] EXCEPT ![slot[d].run] = outcome] \in Seq(RunStates)
          /\ Len([runs[i] EXCEPT ![slot[d].run] = outcome]) = Len(runs[i])
      BY <3>2, ExceptRun
    <3>4. runs'[i] \in Seq(RunStates) /\ Len(runs'[i]) = 0
      BY <3>1, <3>2, <3>3
    <3> QED
      BY <3>4
  <2> QED
    BY <2>2, <2>3
<1>7. runs'[i] = <<>>
  BY <1>2, <1>5, <1>6 DEF ItemsStep, Quiet, Accepted, Withdrawn, Retried, Reviewed, Claimed,
     SettledRow
<1> QED
  BY <1>3, <1>4, <1>7

\* An item stays in one queue.
LEMMA OneRowStep ==
  ASSUME QueueInv, ItemsStep
  PROVE  OneRow'
<1> SUFFICES ASSUME NEW i \in Items, NEW s \in Sessions, NEW t \in Sessions,
                    stateIn(queue'[s].items, i) # "absent", stateIn(queue'[t].items, i) # "absent"
             PROVE  s = t
  BY DEF OneRow, stateOf
<1>1. CASE stateIn(queue[s].items, i) # "absent" /\ stateIn(queue[t].items, i) # "absent"
  BY <1>1 DEF QueueInv, OneRow, stateOf
<1>2. ASSUME NEW u \in Sessions, Accepted(u, i) PROVE s = t
  <2>1. \A v \in Sessions : stateIn(queue[v].items, i) = "absent"
    BY <1>2 DEF Accepted, QueueInv, FreshInv, InQueue, stateOf
  <2> QED
    BY <1>2, <2>1 DEF Accepted, RowMoves
<1> QED
  BY <1>1, <1>2, RowsOnlyMove

\* No prompt is lost in a step.
LEMMA NoPromptLostStep ==
  ASSUME QueueInv, ItemsStep
  PROVE  NoPromptLost'
<1> SUFFICES ASSUME NEW i \in Items, born'[i] # 0
             PROVE  \/ \E s \in Sessions : stateIn(queue'[s].items, i) # "absent"
                    \/ i \in withdrawn' \/ runs'[i] # <<>>
  BY DEF NoPromptLost, InQueue, stateOf
<1>1. CASE born[i] = 0
  <2>1. PICK s \in Sessions : Accepted(s, i)
    BY <1>1 DEF ItemsStep, Quiet, Accepted, Withdrawn, Retried, Reviewed, Claimed, SettledRow,
       Recorded, Ended
  <2> QED
    BY <2>1 DEF Accepted, RowMoves
<1>2. CASE runs[i] # <<>>
  BY <1>2, RunsRemain
<1>3. CASE i \in withdrawn
  BY <1>3 DEF ItemsStep, Quiet, Accepted, Withdrawn, Retried, Reviewed, Claimed, SettledRow,
     Recorded, Ended
<1>4. ASSUME NEW s \in Sessions, stateIn(queue[s].items, i) # "absent"
      PROVE  stateIn(queue'[s].items, i) # "absent" \/ i \in withdrawn' \/ runs[i] # <<>>
  <2>1. CASE RowsStay
    BY <1>4, <2>1 DEF RowsStay
  <2>2. ASSUME NEW t \in Sessions, NEW j \in Items, Accepted(t, j) \/ Retried(t, j)
        PROVE  stateIn(queue'[s].items, i) # "absent"
    BY <1>4, <2>2 DEF Accepted, Retried, RowMoves
  <2>3. ASSUME NEW t \in Sessions, NEW j \in Items, Withdrawn(t, j)
        PROVE  stateIn(queue'[s].items, i) # "absent" \/ i \in withdrawn'
    BY <1>4, <2>3 DEF Withdrawn, RowMoves
  <2>4. ASSUME NEW d \in Daemons, Reviewed(d)
        PROVE  stateIn(queue'[s].items, i) # "absent" \/ runs[i] # <<>>
    <3>1. proof[d].evidence \subseteq Evidence
      BY DEF QueueInv, EvidenceInv, EvidenceOK
    <3> QED
      BY <1>4, <2>4, <3>1 DEF Reviewed, Evidence
  <2>5. ASSUME NEW d \in Daemons, Claimed(d)
        PROVE  stateIn(queue'[s].items, i) # "absent"
    BY <1>4, <2>5 DEF Claimed, RowMoves
  <2>6. ASSUME NEW d \in Daemons, SettledRow(d)
        PROVE  stateIn(queue'[s].items, i) # "absent" \/ runs[i] # <<>>
    <3>1. pc[d] = "save" /\ pick[d].todo \in Todos
      BY <2>6, DaemonParts DEF SettledRow, PickType
    <3>2. CASE pick[d].todo = "consume"
      <4>1. runs[pick[d].item] # <<>>
        BY <3>1, <3>2 DEF QueueInv, EvidenceInv, EvidenceOK
      <4> QED
        BY <1>4, <2>6, <4>1 DEF SettledRow, RowMoves
    <3>3. CASE pick[d].todo # "consume"
      <4>1. Fate(pick[d].todo) # "absent"
        BY <3>1, <3>3 DEF Fate, Todos
      <4> QED
        BY <1>4, <2>6, <4>1 DEF SettledRow, RowMoves
    <3> QED
      BY <3>2, <3>3
  <2> QED
    BY <2>1, <2>2, <2>3, <2>4, <2>5, <2>6 DEF ItemsStep, Quiet, Recorded, Ended
<1>5. (\E s \in Sessions : stateIn(queue[s].items, i) # "absent") \/ i \in withdrawn
      \/ runs[i] # <<>> \/ born[i] = 0
  BY DEF QueueInv, NoPromptLost, InQueue, stateOf
<1> QED
  BY <1>1, <1>2, <1>3, <1>4, <1>5, RunsRemain

\* Every step of a daemon is sound.
LEMMA DaemonStep ==
  ASSUME QueueInv, [Next]_vars, RowsOK', RevsGrow, ItemsStep
  PROVE  \/ \E d \in Daemons : SoundStep(d)
         \/ UNCHANGED <<slot, ending, pc, pick, proof>>
<1>1. CASE Mutate
  BY <1>1, MutateFrame
<1>2. ASSUME NEW d \in Daemons, Coordinate(d) PROVE SoundStep(d)
  BY <1>2, RestStep, ReconcileStep, ScanStep, ClaimStep, StartStep, SettleStep DEF Coordinate
<1>3. ASSUME NEW d \in Daemons, \/ StartPromptQueueCoordinator(d) \/ StoreFails(d) \/ StartFails(d)
                                \/ Crash(d)
      PROVE  SoundStep(d)
  BY <1>3, RestStep, StartStep, CrashStep
<1>4. ASSUME NEW d \in Daemons, \/ \E s \in Sessions : ReserveTurn(d, s)
                                \/ BeginTurn(d) \/ ReleaseTurn(d) \/ EndRun(d)
      PROVE  SoundStep(d)
  BY <1>4, SlotStep
<1> QED
  BY <1>1, <1>2, <1>3, <1>4 DEF Next, vars

\* Every step keeps the invariant.
LEMMA QueueStep ==
  ASSUME QueueInv, [Next]_vars
  PROVE  QueueInv'
<1>1. RowsOK' /\ RevsGrow /\ ItemsStep
  BY StepItems
<1>2. FreshInv' /\ OneRow' /\ NoPromptLost'
  BY <1>1, FreshStep, OneRowStep, NoPromptLostStep
<1>3. DaemonTypes' /\ \A d \in Daemons : Sound(d)'
  <2>1. CASE UNCHANGED <<slot, ending, pc, pick, proof>>
    <3>1. DaemonTypes'
      BY <2>1 DEF DaemonTypes, QueueInv, TypeOK
    <3>2. ASSUME NEW d \in Daemons PROVE Sound(d)'
      <4>1. PlaceOK(d)' /\ DecisionOK(d)' /\ EvidenceOK(d)'
        BY <1>1, <2>1, CoordinatorKept
      <4>2. SlotOK(d)'
        BY <2>1 DEF QueueInv, SlotInv, SlotOK
      <4> QED
        BY <4>1, <4>2 DEF Sound
    <3> QED
      BY <3>1, <3>2
  <2>2. ASSUME NEW d \in Daemons, SoundStep(d)
        PROVE  DaemonTypes' /\ \A f \in Daemons : Sound(f)'
    <3>1. ASSUME NEW f \in Daemons, f # d PROVE Sound(f)'
      <4>1. CoordinatorStays(f) /\ SlotStays(f)
        BY <2>2, <3>1 DEF SoundStep
      <4>2. PlaceOK(f)' /\ DecisionOK(f)' /\ EvidenceOK(f)'
        BY <1>1, <4>1, CoordinatorKept DEF CoordinatorStays
      <4>3. SlotOK(f)'
        BY <4>1 DEF QueueInv, SlotInv, SlotOK, SlotStays, CoordinatorStays
      <4> QED
        BY <4>2, <4>3 DEF Sound
    <3> QED
      BY <2>2, <3>1 DEF SoundStep
  <2> QED
    BY <1>1, <2>1, <2>2, DaemonStep
<1>4. TypeOK'
  BY <1>1, <1>3, ItemTypes, TokenTypes DEF TypeOK, RowsOK, DaemonTypes
<1> QED
  BY <1>2, <1>3, <1>4 DEF QueueInv, Sound, PlaceInv, SlotInv, DecisionInv, EvidenceInv

\* The initial states.
LEMMA QueueInit ==
  ASSUME Init
  PROVE  QueueInv
<1>1. ASSUME NEW s \in Sessions
      PROVE  /\ queue[s] \in RowType /\ queue[s].items = <<>> /\ Len(queue[s].items) = 0
             /\ UniqueIds(queue[s].items)
             /\ \A i : stateIn(queue[s].items, i) = "absent"
  <2>1. queue[s] = [rev |-> 0, state |-> "active", items |-> <<>>]
    BY DEF Init
  <2>2. <<>> \in Seq(ItemType) /\ Len(<<>>) = 0 /\ DOMAIN <<>> = {}
    OBVIOUS
  <2>3. queue[s] \in RowType /\ queue[s].items = <<>>
    BY <2>1, <2>2 DEF RowType
  <2> QED
    BY <2>2, <2>3 DEF UniqueIds, stateIn, promptQueueItemIndex
<1>2. queue \in [Sessions -> RowType]
  BY <1>1 DEF Init
<1>3. DaemonTypes
  BY NothingTypes DEF Init, DaemonTypes, PCs
<1>4. TypeOK
  <2>1. \A s \in Sessions : Len(queue[s].items) <= MaxQueueItems /\ UniqueIds(queue[s].items)
    BY <1>1, PromptQueueAssumption
  <2>2. runs \in [Items -> Seq(RunStates)] /\ born \in [Items -> Nat] /\ withdrawn \subseteq Items
    BY DEF Init
  <2>3. wake \in [Daemons -> BOOLEAN]
        /\ budget \in [mutations : Nat, turns : Nat, crashes : Nat]
    BY PromptQueueAssumption DEF Init
  <2> QED
    BY <1>2, <1>3, <2>1, <2>2, <2>3 DEF TypeOK, DaemonTypes
<1>5. ASSUME NEW d \in Daemons PROVE Sound(d)
  <2>1. pc[d] = "off" /\ pick[d] = NoPick /\ proof[d] = NoProof /\ slot[d] = FreeSlot
        /\ ending[d] = NotEnding
    BY DEF Init
  <2> QED
    BY <2>1, NothingTypes DEF Sound, PlaceOK, SlotOK, DecisionOK, EvidenceOK
<1>6. FreshInv /\ OneRow /\ NoPromptLost
  <2>1. \A i \in Items : born[i] = 0 /\ runs[i] = <<>> /\ i \notin withdrawn
    BY DEF Init
  <2> QED
    BY <1>1, <2>1 DEF FreshInv, OneRow, NoPromptLost, InQueue, stateOf
<1> QED
  BY <1>4, <1>5, <1>6 DEF QueueInv, Sound, PlaceInv, SlotInv, DecisionInv, EvidenceInv

\* The inductive invariant of the queues and of any number of daemons on them.
THEOREM QueueInvariant == Spec => []QueueInv
<1>1. Init => QueueInv
  BY QueueInit
<1>2. QueueInv /\ [Next]_vars => QueueInv'
  BY QueueStep
<1> QED
  BY <1>1, <1>2, PTL DEF Spec

\* No prompt disappears, for any number of daemons, sessions, clients'
\* mutations and crashes: an accepted item is in a queue until a client
\* withdraws it or a run carries its id.
THEOREM QueueNoPromptLost == Spec => []NoPromptLost
<1>1. QueueInv => NoPromptLost
  BY DEF QueueInv
<1> QED
  BY <1>1, QueueInvariant, PTL

\* A claim takes the head of a queue that is not paused, although the
\* coordinator decided on an older load and other daemons save the same row.
THEOREM QueueClaimRespectsPause == Spec => ClaimRespectsPause
<1>1. ASSUME QueueInv, [Next]_vars, NEW s \in Sessions, NEW i \in Items,
             stateOf(s, i) = "queued", stateOf(s, i)' = "dispatching"
      PROVE  queue[s].state = "active" /\ Head(queue[s].items).id = i
  <2>1. ItemsStep
    BY <1>1, StepItems
  <2>2. stateIn(queue[s].items, i) = "queued" /\ stateIn(queue'[s].items, i) = "dispatching"
    BY <1>1 DEF stateOf
  <2>3. \E d \in Daemons : Claimed(d) /\ pick[d].session = s /\ pick[d].item = i
    <3>1. ~RowsStay
      BY <2>2 DEF RowsStay
    <3>2. ~\E t \in Sessions, j \in Items : Accepted(t, j) \/ Withdrawn(t, j) \/ Retried(t, j)
      BY <2>2 DEF Accepted, Withdrawn, Retried, RowMoves
    <3>3. ~\E d \in Daemons : Reviewed(d)
      BY <2>2 DEF Reviewed
    <3>4. ~\E d \in Daemons : SettledRow(d)
      BY <2>2 DEF SettledRow, RowMoves
    <3>5. PICK d \in Daemons : Claimed(d)
      BY <2>1, <3>1, <3>2, <3>3, <3>4 DEF ItemsStep, Quiet, Recorded, Ended
    <3> QED
      BY <2>2, <3>5 DEF Claimed, RowMoves
  <2> QED
    BY <2>3 DEF Claimed, Dispatchable
<1>2. QueueInv /\ [Next]_vars
        => [\A s \in Sessions, i \in Items :
              stateOf(s, i) = "queued" /\ stateOf(s, i)' = "dispatching"
                => /\ queue[s].state = "active"
                   /\ Head(queue[s].items).id = i]_vars
  BY <1>1
<1> QED
  BY <1>2, QueueInvariant, PTL DEF Spec, ClaimRespectsPause

-----------------------------------------------------------------------------
(* One daemon: a prompt is executed at most once and has one fate. *)

\* The turns of the items when a run is recorded.
LEMMA RecordedTurns ==
  ASSUME QueueInv, NEW d \in Daemons, Recorded(d)
  PROVE  /\ pick[d].item \in Items
         /\ \A i \in Items :
              Live(runs'[i]) = Live(runs[i]) \cup IF i = pick[d].item THEN {Len(runs[i]) + 1} ELSE {}
<1> DEFINE j == pick[d].item
           list == runs[j]
<1>1. j \in Items
  BY PickParts DEF Recorded
<1>2. runs \in [Items -> Seq(RunStates)] /\ runs' = [runs EXCEPT ![j] = Append(@, "open")]
  BY DEF QueueInv, TypeOK, Recorded
<1>3. runs'[j] = Append(list, "open") /\ list \in Seq(RunStates)
      /\ \A i \in Items : i # j => runs'[i] = runs[i]
  BY <1>1, <1>2
<1> HIDE DEF j, list
<1>4. /\ Len(list) \in Nat /\ Len(Append(list, "open")) = Len(list) + 1
      /\ Append(list, "open")[Len(list) + 1] = "open"
      /\ \A n \in 1 .. Len(list) : Append(list, "open")[n] = list[n]
  BY <1>3
<1>5. 1 .. (Len(list) + 1) = (1 .. Len(list)) \cup {Len(list) + 1}
  BY <1>4
<1>6. {n \in 1 .. Len(runs'[j]) : runs'[j][n] # "aborted"}
        = {n \in 1 .. Len(list) : list[n] # "aborted"} \cup {Len(list) + 1}
  BY <1>3, <1>4, <1>5
<1>7. ASSUME NEW i \in Items
      PROVE  Live(runs'[i]) = Live(runs[i]) \cup IF i = j THEN {Len(runs[i]) + 1} ELSE {}
  <2>1. CASE i = j
    BY <1>3, <1>6, <2>1 DEF Live, list
  <2>2. CASE i # j
    BY <1>3, <2>2 DEF Live
  <2> QED
    BY <2>1, <2>2
<1> QED
  BY <1>1, <1>7 DEF j

\* The turns of the items when a run ends, or never begins.
LEMMA EndedTurns ==
  ASSUME QueueInv, NEW d \in Daemons, NEW outcome \in RunStates, slot[d].item # NoItem,
         slot[d].run \in Live(runs[slot[d].item]),
         runs' = [runs EXCEPT ![slot[d].item][slot[d].run] = outcome]
  PROVE  /\ slot[d].item \in Items
         /\ \A i \in Items : Len(runs'[i]) = Len(runs[i])
         /\ Evidence' = Evidence
         /\ \A i \in Items :
              Live(runs'[i]) = Live(runs[i]) \ IF i = slot[d].item /\ outcome = "aborted"
                                     THEN {slot[d].run} ELSE {}
<1> DEFINE j == slot[d].item
           k == slot[d].run
           list == runs[j]
           new == [list EXCEPT ![k] = outcome]
<1>1. j \in Items
  BY DaemonParts DEF SlotType
<1>2. runs \in [Items -> Seq(RunStates)]
  BY DEF QueueInv, TypeOK
<1>3. runs'[j] = new /\ list \in Seq(RunStates) /\ \A i \in Items : i # j => runs'[i] = runs[i]
  BY <1>1, <1>2
<1>4. k \in 1 .. Len(list) /\ list[k] # "aborted"
  BY DEF Live
<1> HIDE DEF j, k, list
<1>5. /\ new \in Seq(RunStates) /\ Len(new) = Len(list)
      /\ \A n \in 1 .. Len(list) : new[n] = IF n = k THEN outcome ELSE list[n]
  BY <1>3, ExceptRun
<1> HIDE DEF new
<1>6. \A i \in Items : Len(runs'[i]) = Len(runs[i])
  BY <1>3, <1>5 DEF list
<1>7. Evidence' = Evidence
  <2>1. (new # <<>>) <=> (list # <<>>)
    BY <1>3, <1>5
  <2>2. \A i \in Items : (runs'[i] # <<>>) <=> (runs[i] # <<>>)
    BY <1>3, <2>1 DEF list
  <2> QED
    BY <2>2 DEF Evidence
<1>8. outcome # "aborted" =>
        {n \in 1 .. Len(new) : new[n] # "aborted"} = {n \in 1 .. Len(list) : list[n] # "aborted"}
  BY <1>4, <1>5
<1>9. outcome = "aborted" =>
        {n \in 1 .. Len(new) : new[n] # "aborted"}
          = {n \in 1 .. Len(list) : list[n] # "aborted"} \ {k}
  BY <1>4, <1>5
<1>10. ASSUME NEW i \in Items
       PROVE  Live(runs'[i]) = Live(runs[i]) \ IF i = j /\ outcome = "aborted" THEN {k} ELSE {}
  <2>1. CASE i # j
    BY <1>3, <2>1 DEF Live
  <2>2. CASE i = j /\ outcome # "aborted"
    BY <1>3, <1>8, <2>2 DEF Live, list
  <2>3. CASE i = j /\ outcome = "aborted"
    BY <1>3, <1>9, <2>3 DEF Live, list
  <2> QED
    BY <2>1, <2>2, <2>3
<1> QED
  BY <1>1, <1>6, <1>7, <1>10 DEF j, k

\* What a step does to the turns of the items.
LEMMA TurnsStep ==
  ASSUME QueueInv, OneDaemonInv, ItemsStep
  PROVE  \/ \E d \in Daemons : Recorded(d)
         \/ \A i \in Items : Live(runs'[i]) \subseteq Live(runs[i])
<1>1. CASE UNCHANGED runs
  BY <1>1 DEF Live
<1>2. ASSUME NEW d \in Daemons, NEW outcome \in RunStates \ {"open"}, Ended(d, outcome)
      PROVE  \A i \in Items : Live(runs'[i]) \subseteq Live(runs[i])
  <2>1. slot[d].item # NoItem /\ slot[d].run \in Live(runs[slot[d].item])
        /\ runs' = [runs EXCEPT ![slot[d].item][slot[d].run] = outcome]
    BY <1>2 DEF Ended, OneDaemonInv, DispatchInv, DispatchOK
  <2> QED
    BY <2>1, EndedTurns
<1> QED
  BY <1>1, <1>2 DEF ItemsStep, Quiet, Accepted, Withdrawn, Retried, Reviewed, Claimed, SettledRow

\* An item has one turn.
LEMMA OneTurnStep ==
  ASSUME QueueInv, OneDaemonInv, ItemsStep
  PROVE  OneTurn'
<1>1. OneTurn
  BY DEF OneDaemonInv
<1>2. CASE \A i \in Items : Live(runs'[i]) \subseteq Live(runs[i])
  BY <1>1, <1>2 DEF OneTurn
<1>3. ASSUME NEW d \in Daemons, Recorded(d) PROVE OneTurn'
  <2>1. /\ pick[d].item \in Items
        /\ \A i \in Items :
             Live(runs'[i]) = Live(runs[i]) \cup IF i = pick[d].item THEN {Len(runs[i]) + 1} ELSE {}
    BY <1>3, RecordedTurns
  <2>2. Live(runs[pick[d].item]) = {}
    BY <1>3 DEF Recorded, OneDaemonInv, DispatchInv, DispatchOK
  <2>3. ASSUME NEW i \in Items, NEW m \in Live(runs'[i]), NEW n \in Live(runs'[i])
        PROVE  m = n
    <3>1. CASE i = pick[d].item
      <4>1. Live(runs'[i]) = {Len(runs[i]) + 1}
        BY <2>1, <2>2, <3>1
      <4> QED
        BY <4>1
    <3>2. CASE i # pick[d].item
      <4>1. Live(runs'[i]) = Live(runs[i])
        BY <2>1, <3>2
      <4> QED
        BY <1>1, <4>1 DEF OneTurn
    <3> QED
      BY <3>1, <3>2
  <2> QED
    BY <2>3 DEF OneTurn
<1> QED
  BY <1>2, <1>3, TurnsStep

\* A prompt keeps its one fate.
LEMMA OneFateStep ==
  ASSUME QueueInv, OneDaemonInv, ItemsStep
  PROVE  OneFate'
<1> DEFINE Absent(i) == \A s \in Sessions : stateIn(queue[s].items, i) = "absent"
           Editable(i) == \E s \in Sessions : stateIn(queue[s].items, i) \in {"queued", "failed"}
           Fine(i) == /\ i \in withdrawn => Absent(i) /\ Live(runs[i]) = {}
                      /\ Editable(i) => Live(runs[i]) = {}
<1>0. \A i \in Items : Fine(i)
  BY DEF OneDaemonInv, OneFate, InQueue, stateOf, editableQueuedPrompt, Turns, Live
<1> SUFFICES ASSUME NEW i \in Items PROVE Fine(i)'
  BY DEF OneFate, InQueue, stateOf, editableQueuedPrompt, Turns, Live
<1>1. CASE RowsStay /\ UNCHANGED withdrawn /\ Live(runs'[i]) \subseteq Live(runs[i])
  BY <1>0, <1>1 DEF RowsStay
<1>2. ASSUME NEW t \in Sessions, NEW j \in Items, Accepted(t, j) PROVE Fine(i)'
  <2>1. Absent(j) /\ j \notin withdrawn /\ runs[j] = <<>>
    BY <1>2 DEF Accepted, QueueInv, FreshInv, InQueue, stateOf
  <2>2. Live(runs'[i]) = Live(runs[i]) /\ withdrawn' = withdrawn
    BY <1>2 DEF Accepted, Live
  <2>3. Live(runs[j]) = {}
    BY <2>1 DEF Live
  <2>4. i # j => \A s \in Sessions : stateIn(queue'[s].items, i) = stateIn(queue[s].items, i)
    BY <1>2 DEF Accepted, RowMoves
  <2> QED
    BY <1>0, <2>1, <2>2, <2>3, <2>4
<1>3. ASSUME NEW t \in Sessions, NEW j \in Items, Withdrawn(t, j) PROVE Fine(i)'
  <2>1. Live(runs'[i]) = Live(runs[i]) /\ withdrawn' = withdrawn \cup {j}
    BY <1>3 DEF Withdrawn, Live
  <2>2. stateIn(queue[t].items, j) \in {"queued", "failed"} /\ RowMoves(t, j, "absent")
    BY <1>3 DEF Withdrawn
  <2>3. \A s \in Sessions : s # t => stateIn(queue[s].items, j) = "absent"
    BY <2>2 DEF QueueInv, OneRow, stateOf
  <2>4. CASE i # j
    <3>1. \A s \in Sessions : stateIn(queue'[s].items, i) = stateIn(queue[s].items, i)
      BY <2>2, <2>4 DEF RowMoves
    <3> QED
      BY <1>0, <2>1, <2>4, <3>1
  <2>5. CASE i = j
    <3>1. Absent(i)'
      BY <2>2, <2>3, <2>5 DEF RowMoves
    <3>2. Live(runs[i]) = {}
      BY <1>0, <2>2, <2>5
    <3> QED
      BY <2>1, <3>1, <3>2
  <2> QED
    BY <2>4, <2>5
<1>4. ASSUME NEW t \in Sessions, NEW j \in Items, NEW state,
             stateIn(queue[t].items, j) # "absent", RowMoves(t, j, state),
             state \in {"queued", "failed"} => Live(runs[j]) = {},
             UNCHANGED <<runs, withdrawn>>
      PROVE  Fine(i)'
  <2>1. Live(runs'[i]) = Live(runs[i]) /\ withdrawn' = withdrawn
    BY <1>4 DEF Live
  <2>2. j \notin withdrawn
    BY <1>0, <1>4
  <2>3. \A s \in Sessions : s # t => stateIn(queue[s].items, j) = "absent"
    BY <1>4 DEF QueueInv, OneRow, stateOf
  <2>4. CASE i # j
    <3>1. \A s \in Sessions : stateIn(queue'[s].items, i) = stateIn(queue[s].items, i)
      BY <1>4, <2>4 DEF RowMoves
    <3> QED
      BY <1>0, <2>1, <3>1
  <2>5. CASE i = j
    <3>1. \A s \in Sessions : stateIn(queue'[s].items, j)
            = IF s = t THEN state ELSE "absent"
      BY <1>4, <2>3 DEF RowMoves
    <3> QED
      BY <1>4, <2>1, <2>2, <2>5, <3>1
  <2> QED
    BY <2>4, <2>5
<1>5. ASSUME NEW t \in Sessions, NEW j \in Items, Retried(t, j) PROVE Fine(i)'
  <2>1. stateIn(queue[t].items, j) = "failed" /\ RowMoves(t, j, "queued")
        /\ UNCHANGED <<runs, withdrawn>>
    BY <1>5 DEF Retried
  <2>2. Live(runs[j]) = {}
    BY <1>0, <2>1
  <2> QED
    BY <1>4, <2>1, <2>2
<1>6. ASSUME NEW d \in Daemons, Reviewed(d) PROVE Fine(i)'
  <2>1. proof[d].evidence = Evidence
    BY <1>6 DEF Reviewed, OneDaemonInv, DispatchInv, DispatchOK
  <2>2. i \notin Evidence => Live(runs[i]) = {}
    BY DEF Evidence, Live
  <2>3. Live(runs'[i]) = Live(runs[i]) /\ withdrawn' = withdrawn
    BY <1>6 DEF Reviewed, Live
  <2>4. \A s \in Sessions :
          \/ stateIn(queue'[s].items, i) = stateIn(queue[s].items, i)
          \/ /\ stateIn(queue[s].items, i) = "dispatching"
             /\ \/ stateIn(queue'[s].items, i) = "absent"
                \/ stateIn(queue'[s].items, i) = "queued" /\ i \notin Evidence
    BY <1>6, <2>1 DEF Reviewed
  <2>5. Absent(i) => Absent(i)'
    BY <2>4
  <2>6. Editable(i)' => Editable(i) \/ i \notin Evidence
    BY <2>4
  <2> QED
    BY <1>0, <2>2, <2>3, <2>5, <2>6
<1>7. ASSUME NEW d \in Daemons, Claimed(d) PROVE Fine(i)'
  <2>1. pick[d].session \in Sessions /\ pick[d].item \in Items
    BY <1>7, PickParts DEF Claimed
  <2>2. stateIn(queue[pick[d].session].items, pick[d].item) = "queued"
        /\ RowMoves(pick[d].session, pick[d].item, "dispatching")
        /\ UNCHANGED <<runs, withdrawn>>
    BY <1>7 DEF Claimed
  <2> QED
    BY <1>4, <2>1, <2>2
<1>8. ASSUME NEW d \in Daemons, SettledRow(d) PROVE Fine(i)'
  <2>1. pick[d].session \in Sessions /\ pick[d].item \in Items
    BY <1>8, PickParts DEF SettledRow
  <2>2. stateIn(queue[pick[d].session].items, pick[d].item) = "dispatching"
        /\ RowMoves(pick[d].session, pick[d].item, Fate(pick[d].todo))
        /\ UNCHANGED <<runs, withdrawn>> /\ pc[d] = "save"
    BY <1>8 DEF SettledRow
  <2>3. Fate(pick[d].todo) \in {"queued", "failed"} => Live(runs[pick[d].item]) = {}
    <3>1. pick[d].todo = "consume" => Fate(pick[d].todo) = "absent"
      BY DEF Fate
    <3>2. pick[d].todo # "consume" => Live(runs[pick[d].item]) = {}
      BY <2>2 DEF OneDaemonInv, DispatchInv, DispatchOK
    <3> QED
      BY <3>1, <3>2
  <2> QED
    BY <1>4, <2>1, <2>2, <2>3
<1>9. ASSUME NEW d \in Daemons, Recorded(d) PROVE Fine(i)'
  <2>1. /\ pick[d].item \in Items /\ \A j \in Items : j # pick[d].item => Live(runs'[j]) = Live(runs[j])
    BY <1>9, RecordedTurns
  <2>2. pick[d].session \in Sessions
    BY <1>9, PickParts DEF Recorded
  <2>3. stateIn(queue[pick[d].session].items, pick[d].item) = "dispatching"
    BY <1>9 DEF Recorded, OneDaemonInv, DispatchInv, DispatchOK, stateOf
  <2>4. \A s \in Sessions :
          s # pick[d].session => stateIn(queue[s].items, pick[d].item) = "absent"
    BY <2>1, <2>2, <2>3 DEF QueueInv, OneRow, stateOf
  <2>5. pick[d].item \notin withdrawn /\ ~Editable(pick[d].item)
    BY <1>0, <2>1, <2>2, <2>3, <2>4
  <2>6. RowsStay /\ UNCHANGED withdrawn
    BY <1>9 DEF Recorded
  <2>7. (Editable(i)' <=> Editable(i)) /\ (Absent(i)' <=> Absent(i))
    BY <2>6 DEF RowsStay
  <2> QED
    BY <1>0, <2>1, <2>5, <2>6, <2>7
<1>10. CASE RowsStay /\ UNCHANGED withdrawn
  BY <1>1, <1>9, <1>10, TurnsStep
<1> QED
  BY <1>2, <1>3, <1>5, <1>6, <1>7, <1>8, <1>9, <1>10 DEF ItemsStep, Quiet, Ended

\* A coordinator that does not move keeps its dispatch: what clients and the
\* end of a run do leaves a dispatching row and the turns of its item alone.
LEMMA DispatchKept ==
  ASSUME QueueInv, OneDaemonInv, ItemsStep, NEW d, Daemons = {d}, CoordinatorStays(d),
         \A i \in Items : Live(runs'[i]) = Live(runs[i]), Evidence' = Evidence,
         pc[d] = "recorded" => slot'[d] = slot[d],
         slot'[d].item # NoItem => /\ slot'[d].item = slot[d].item
                                   /\ slot'[d].run = slot[d].run
  PROVE  DispatchOK(d)'
<1>0. d \in Daemons /\ DispatchOK(d)
  BY DEF OneDaemonInv, DispatchInv
<1>1. pc'[d] = pc[d] /\ pick'[d] = pick[d] /\ proof'[d] = proof[d]
  BY DEF CoordinatorStays
<1>2. ASSUME pc[d] \in {"start", "starting", "recorded"}
      PROVE  stateIn(queue'[pick[d].session].items, pick[d].item) = "dispatching"
  <2>1. pick[d].item \in Items /\ pick[d].session \in Sessions
    BY <1>0, <1>2, PickParts
  <2>2. stateIn(queue[pick[d].session].items, pick[d].item) = "dispatching"
    BY <1>0, <1>2 DEF DispatchOK, stateOf
  <2>3. CASE RowsStay
    BY <2>1, <2>2, <2>3 DEF RowsStay
  <2>4. ASSUME NEW s \in Sessions, NEW i \in Items,
               Accepted(s, i) \/ Withdrawn(s, i) \/ Retried(s, i)
        PROVE  stateIn(queue'[pick[d].session].items, pick[d].item) = "dispatching"
    <3>1. stateIn(queue[s].items, i) # "dispatching"
      BY <2>4 DEF Accepted, Withdrawn, Retried, QueueInv, FreshInv, InQueue, stateOf
    <3> QED
      BY <2>1, <2>2, <2>4, <3>1 DEF Accepted, Withdrawn, Retried, RowMoves
  <2>5. \A f \in Daemons : ~Reviewed(f) /\ ~Claimed(f) /\ ~SettledRow(f)
    BY <1>2 DEF Reviewed, Claimed, SettledRow
  <2> QED
    BY <2>3, <2>4, <2>5 DEF ItemsStep, Quiet, Recorded, Ended
<1>3. pc[d] \in {"start", "starting", "recorded", "load", "save"}
        => Live(runs'[pick[d].item]) = Live(runs[pick[d].item])
  BY <1>0, PickParts
<1>4. slot'[d].item # NoItem => slot'[d].run \in Live(runs'[slot'[d].item])
  <2>1. slot[d].item # NoItem => slot[d].item \in Items
    BY <1>0, DaemonParts DEF SlotType
  <2> QED
    BY <1>0, <2>1 DEF DispatchOK
<1>5. pc[d] = "recorded" => /\ slot'[d].item = pick[d].item
                            /\ Live(runs'[pick[d].item]) = {slot'[d].run}
  BY <1>0, <1>3 DEF DispatchOK
<1> QED
  BY <1>0, <1>1, <1>2, <1>3, <1>4, <1>5 DEF DispatchOK, stateOf

\* Clients and the ends of runs.
LEMMA DispatchOthers ==
  ASSUME QueueInv, OneDaemonInv, ItemsStep, NEW d, Daemons = {d},
         \/ Mutate
         \/ \E s \in Sessions : ReserveTurn(d, s)
         \/ BeginTurn(d) \/ ReleaseTurn(d) \/ EndRun(d)
         \/ UNCHANGED vars
  PROVE  DispatchOK(d)'
<1>0. d \in Daemons /\ DispatchOK(d) /\ DaemonTypes /\ slot[d] \in SlotType /\ SlotOK(d)
      /\ ending[d] \in EndingType
  BY DaemonParts DEF OneDaemonInv, DispatchInv, Sound
<1>1. ASSUME UNCHANGED runs PROVE (\A i \in Items : Live(runs'[i]) = Live(runs[i])) /\ Evidence' = Evidence
  BY <1>1 DEF Evidence
<1>2. CASE Mutate \/ UNCHANGED vars
  <2>1. UNCHANGED <<slot, ending, pc, pick, proof>> /\ UNCHANGED runs
    BY <1>2, MutateFrame DEF vars, Mutation
  <2> QED
    BY <1>1, <2>1, DispatchKept DEF CoordinatorStays
<1>3. ASSUME UNCHANGED <<pc, pick, proof>>, pc[d] # "recorded",
             (\A i \in Items : Live(runs'[i]) = Live(runs[i])) /\ Evidence' = Evidence,
             slot' = [slot EXCEPT ![d] = slot'[d]],
             slot'[d].item = NoItem \/ (slot'[d].item = slot[d].item /\ slot'[d].run = slot[d].run)
      PROVE  DispatchOK(d)'
  BY <1>3, DispatchKept DEF CoordinatorStays
<1>4. FreeSlot \in SlotType /\ FreeSlot.item = NoItem
  BY NothingTypes DEF FreeSlot
<1>5. ASSUME NEW s \in Sessions, ReserveTurn(d, s) PROVE DispatchOK(d)'
  <2>1. UNCHANGED <<pc, pick, proof>> /\ UNCHANGED runs /\ slot[d].kind = "free"
        /\ slot' = [slot EXCEPT ![d] = [FreeSlot EXCEPT !.kind = "reserved", !.session = s]]
    BY <1>5 DEF ReserveTurn, coordVars, rowVars, busy
  <2>2. [FreeSlot EXCEPT !.kind = "reserved", !.session = s].item = NoItem
    BY DEF FreeSlot
  <2>3. slot'[d].item = NoItem /\ slot' = [slot EXCEPT ![d] = slot'[d]]
    BY <1>0, <2>1, <2>2 DEF DaemonTypes
  <2>4. pc[d] # "recorded"
    BY <1>0, <2>1 DEF SlotOK
  <2> QED
    BY <1>1, <1>3, <2>1, <2>3, <2>4
<1>6. CASE BeginTurn(d)
  <2>1. UNCHANGED <<pc, pick, proof>> /\ UNCHANGED runs /\ slot[d].kind = "reserved"
        /\ slot' = [slot EXCEPT ![d] = [slot[d] EXCEPT !.kind = "running"]]
    BY <1>6 DEF BeginTurn, coordVars, rowVars
  <2>2. slot'[d].item = slot[d].item /\ slot'[d].run = slot[d].run
        /\ slot' = [slot EXCEPT ![d] = slot'[d]]
    BY <1>0, <2>1 DEF DaemonTypes, SlotType
  <2>3. pc[d] # "recorded"
    BY <1>0, <2>1 DEF SlotOK
  <2> QED
    BY <1>1, <1>3, <2>1, <2>2, <2>3
<1>7. CASE ReleaseTurn(d)
  <2>1. UNCHANGED <<pc, pick, proof>> /\ UNCHANGED runs /\ slot[d].kind = "reserved"
        /\ slot' = [slot EXCEPT ![d] = FreeSlot]
    BY <1>7 DEF ReleaseTurn, coordVars, rowVars
  <2>2. slot'[d].item = NoItem /\ slot' = [slot EXCEPT ![d] = slot'[d]]
    BY <1>0, <1>4, <2>1 DEF DaemonTypes
  <2>3. pc[d] # "recorded"
    BY <1>0, <2>1 DEF SlotOK
  <2> QED
    BY <1>1, <1>3, <2>1, <2>2, <2>3
<1>8. ASSUME NEW outcome \in RunStates \ {"aborted"}, RunEnds(d, outcome), slot[d].kind = "running",
             slot' = [slot EXCEPT ![d] = FreeSlot], UNCHANGED <<pc, pick, proof>>
      PROVE  DispatchOK(d)'
  <2>1. slot'[d].item = NoItem /\ slot' = [slot EXCEPT ![d] = slot'[d]]
    BY <1>0, <1>4, <1>8 DEF DaemonTypes
  <2>2. pc[d] # "recorded"
    BY <1>0, <1>8 DEF SlotOK
  <2>3. (\A i \in Items : Live(runs'[i]) = Live(runs[i])) /\ Evidence' = Evidence
    <3>1. CASE slot[d].item = NoItem
      BY <1>1, <1>8, <3>1 DEF RunEnds
    <3>2. CASE slot[d].item # NoItem
      <4>1. slot[d].run \in Live(runs[slot[d].item])
            /\ runs' = [runs EXCEPT ![slot[d].item][slot[d].run] = outcome]
        BY <1>0, <1>8, <3>2 DEF RunEnds, DispatchOK
      <4>2. outcome \in RunStates /\ outcome # "aborted" /\ d \in Daemons
        BY <1>0, <1>8
      <4>3. /\ Evidence' = Evidence
            /\ \A i \in Items :
                 Live(runs'[i]) = Live(runs[i]) \ IF i = slot[d].item /\ outcome = "aborted"
                                                 THEN {slot[d].run} ELSE {}
        BY <3>2, <4>1, <4>2, EndedTurns
      <4> QED
        BY <4>2, <4>3
    <3> QED
      BY <3>1, <3>2
  <2> QED
    BY <1>3, <1>8, <2>1, <2>2, <2>3
<1>9. CASE CompleteRun(d)
  BY <1>8, <1>9 DEF CompleteRun, coordVars, RunStates
<1>10. ASSUME FreeAfterStop(d), UNCHANGED <<pc, pick, proof>>, ending[d].step # "no"
       PROVE  DispatchOK(d)'
  <2>1. ending[d].outcome \in RunStates \ {"aborted"} /\ slot[d].kind = "running"
    BY <1>0, <1>10, PromptQueueAssumption DEF EndingType, RunStates, SlotOK
  <2> QED
    BY <1>8, <1>10, <2>1 DEF FreeAfterStop
<1>11. ASSUME UNCHANGED <<slot, runs>>, UNCHANGED <<pc, pick, proof>> PROVE DispatchOK(d)'
  BY <1>1, <1>11, DispatchKept DEF CoordinatorStays
<1>12. ASSUME NEW outcome \in Outcomes, StopRun(d, outcome) PROVE DispatchOK(d)'
  BY <1>11, <1>12 DEF StopRun, coordVars, rowVars
<1>13. CASE PauseLoad(d)
  BY <1>10, <1>11, <1>13 DEF PauseLoad, coordVars
<1>14. CASE PauseSave(d)
  BY <1>10, <1>11, <1>14 DEF PauseSave, coordVars
<1> QED
  BY <1>2, <1>5, <1>6, <1>7, <1>9, <1>12, <1>13, <1>14 DEF EndRun

\* A coordinator with no dispatch in its hands.
LEMMA DispatchQuiet ==
  ASSUME OneDaemonInv, NEW d \in Daemons, UNCHANGED <<slot, runs>>,
         pc'[d] \notin {"start", "starting", "recorded", "load", "save", "reconcile"}
  PROVE  DispatchOK(d)'
BY DEF OneDaemonInv, DispatchInv, DispatchOK

\* Steps of the coordinator before a dispatch and after it, and a crash.
LEMMA DispatchRest ==
  ASSUME QueueInv, OneDaemonInv, NEW d \in Daemons,
         \/ StartPromptQueueCoordinator(d) \/ TakeWake(d) \/ CheckBusy(d) \/ Scan(d)
         \/ ReconcileList(d) \/ ReconcileEvidence(d) \/ ReconcileSave(d) \/ StoreFails(d)
         \/ Crash(d)
         \/ UNCHANGED <<slot, runs>> /\ (Wait(d) \/ NextRound(d))
  PROVE  DispatchOK(d)'
<1>0. DaemonTypes /\ DispatchOK(d) /\ proof[d] \in ProofType
  BY DaemonParts DEF OneDaemonInv, DispatchInv
<1>1. ASSUME NEW label \in {"list", "check", "wait", "scan", "claim", "evidence"},
             pc' = [pc EXCEPT ![d] = label], UNCHANGED <<slot, runs>>
      PROVE  DispatchOK(d)'
  <2>1. pc'[d] = label
    BY <1>0, <1>1 DEF DaemonTypes
  <2>2. label \notin {"start", "starting", "recorded", "load", "save", "reconcile"}
    BY <1>1
  <2> QED
    BY <1>1, <2>1, <2>2, DispatchQuiet
<1>2. CASE StartPromptQueueCoordinator(d)
  BY <1>1, <1>2 DEF StartPromptQueueCoordinator, slotVars, rowVars
<1>3. CASE TakeWake(d)
  BY <1>1, <1>3 DEF TakeWake, slotVars, rowVars, Goto
<1>4. CASE UNCHANGED <<slot, runs>> /\ (Wait(d) \/ NextRound(d))
  BY <1>1, <1>4 DEF Wait, NextRound, Goto
<1>5. CASE CheckBusy(d)
  BY <1>1, <1>4, <1>5 DEF CheckBusy, slotVars, rowVars, Goto
<1>6. CASE Scan(d)
  <2>1. UNCHANGED <<slot, runs>> /\ pc[d] = "scan"
        /\ (UNCHANGED pc \/ Wait(d) \/ Goto(d, "claim"))
    BY <1>6 DEF Scan, slotVars, rowVars
  <2>2. CASE UNCHANGED pc
    BY <2>1, <2>2, DispatchQuiet
  <2> QED
    BY <1>1, <1>4, <2>1, <2>2 DEF Goto
<1>7. CASE ReconcileList(d)
  BY <1>1, <1>7 DEF ReconcileList, slotVars, rowVars, Goto
<1>8. CASE ReconcileSave(d)
  <2>1. UNCHANGED <<slot, runs>> /\ (Goto(d, "wait") \/ Goto(d, "evidence"))
    BY <1>8 DEF ReconcileSave, slotVars
  <2> QED
    BY <1>1, <2>1 DEF Goto
<1>9. CASE StoreFails(d)
  BY <1>4, <1>9 DEF StoreFails, slotVars, rowVars
<1>10. CASE ReconcileEvidence(d)
  <2>1. pc'[d] = "reconcile" /\ UNCHANGED <<slot, runs>>
    BY <1>0, <1>10 DEF ReconcileEvidence, slotVars, rowVars, Goto, DaemonTypes
  <2>2. proof'[d].evidence = Evidence
    BY <1>0, <1>10 DEF ReconcileEvidence, DaemonTypes, ProofType
  <2>3. Evidence' = Evidence
    BY <2>1 DEF Evidence
  <2> QED
    BY <1>0, <2>1, <2>2, <2>3 DEF DispatchOK
<1>11. CASE Crash(d)
  <2>1. pc'[d] = "off" /\ slot'[d] = FreeSlot
    BY <1>0, <1>11 DEF Crash, DaemonTypes
  <2>2. FreeSlot.item = NoItem
    BY DEF FreeSlot
  <2> QED
    BY <2>1, <2>2 DEF DispatchOK
<1> QED
  BY <1>2, <1>3, <1>4, <1>5, <1>6, <1>7, <1>8, <1>9, <1>10, <1>11

\* The dispatch of a row, step by step.
LEMMA DispatchWork ==
  ASSUME QueueInv, OneDaemonInv, ItemsStep, NEW d, Daemons = {d},
         \/ Claim(d) \/ StartTurn(d) \/ RecordRun(d) \/ HandOff(d) \/ StartFails(d)
         \/ SettleLoad(d) \/ SettleSave(d)
  PROVE  DispatchOK(d)'
<1> DEFINE i == pick[d].item
           s == pick[d].session
<1>0. /\ d \in Daemons /\ DaemonTypes /\ DispatchOK(d) /\ SlotOK(d)
      /\ slot[d] \in SlotType /\ pick[d] \in PickType
  BY DaemonParts DEF OneDaemonInv, DispatchInv, Sound
<1>1. i \in Items /\ s \in Sessions
  BY <1>0, PickParts DEF Claim, StartTurn, RecordRun, HandOff, StartFails, SettleLoad, SettleSave
<1>2. ASSUME UNCHANGED <<slot, runs>>, Wait(d) \/ NextRound(d) PROVE DispatchOK(d)'
  BY <1>0, <1>2, DispatchRest
<1>3. ASSUME NEW todo \in Todos, Settle(d, todo)
      PROVE  pc'[d] = "load" /\ pick'[d].todo = todo /\ pick'[d].item = i
  BY <1>0, <1>3 DEF Settle, Goto, DaemonTypes, PickType
<1>4. ASSUME NEW todo \in Todos, Settle(d, todo), UNCHANGED <<slot, runs>>,
             todo = "consume" \/ Live(runs[i]) = {}
      PROVE  DispatchOK(d)'
  <2>1. pc'[d] = "load" /\ pick'[d].todo = todo /\ pick'[d].item = i
    BY <1>3, <1>4
  <2> QED
    BY <1>0, <1>4, <2>1 DEF DispatchOK
<1>5. CASE Claim(d)
  <2>1. CASE /\ SavePromptQueueCAS(s, pick[d].rev, "active",
                  WithState(queue[s].items, i, "dispatching"))
             /\ Goto(d, "start") /\ pick' = [pick EXCEPT ![d].rev = 0]
    <3>1. pc'[d] = "start" /\ pick'[d].item = i /\ pick'[d].session = s
          /\ UNCHANGED <<slot, runs>>
      BY <1>0, <1>5, <2>1 DEF Claim, Goto, DaemonTypes, PickType, slotVars
    <3>2. pick[d].rev = queue[s].rev /\ pc[d] = "claim"
      BY <1>5, <2>1 DEF SavePromptQueueCAS, Claim
    <3>3. Dispatchable(s) /\ Head(queue[s].items).id = i
      BY <1>0, <1>1, <3>2, PromptQueueAssumption DEF QueueInv, DecisionInv, DecisionOK
    <3>4. RowsOK
      BY DEF QueueInv, TypeOK, RowsOK
    <3>5. stateIn(queue[s].items, i) = "queued"
      BY <1>1, <3>3, <3>4, HeadItem
    <3>6. RowMoves(s, i, "dispatching")
      BY <1>1, <2>1, <3>4, <3>5, SaveWithState DEF ItemStates
    <3>7. stateIn(queue'[s].items, i) = "dispatching"
      BY <1>1, <3>6 DEF RowMoves
    <3>8. Live(runs[i]) = {}
      BY <1>1, <3>5 DEF OneDaemonInv, OneFate, stateOf, editableQueuedPrompt, Turns, Live
    <3> HIDE DEF i, s
    <3> QED
      BY <1>0, <3>1, <3>7, <3>8 DEF DispatchOK, stateOf
  <2>2. CASE Wait(d)
    BY <1>2, <1>5, <2>2 DEF Claim, slotVars
  <2> QED
    BY <1>5, <2>1, <2>2 DEF Claim
<1>6. CASE StartTurn(d)
  <2>1. pc[d] = "start" /\ Live(runs[i]) = {} /\ UNCHANGED runs /\ UNCHANGED queue
        /\ stateIn(queue[s].items, i) = "dispatching"
    BY <1>0, <1>6 DEF StartTurn, DispatchOK, rowVars, stateOf
  <2>2. CASE Settle(d, "reset") /\ UNCHANGED slot
    BY <1>4, <2>1, <2>2 DEF Todos
  <2>3. CASE Goto(d, "starting") /\ UNCHANGED pick
             /\ slot' = [slot EXCEPT ![d] = [FreeSlot EXCEPT !.kind = "starting",
                                                             !.session = pick[d].session]]
    <3>1. pc'[d] = "starting" /\ pick'[d] = pick[d]
      BY <1>0, <2>3 DEF Goto, DaemonTypes
    <3>2. slot'[d].item = NoItem
      BY <1>0, <2>3 DEF DaemonTypes, FreeSlot
    <3> QED
      BY <2>1, <3>1, <3>2 DEF DispatchOK, stateOf
  <2> QED
    BY <1>6, <2>2, <2>3 DEF StartTurn
<1>7. CASE RecordRun(d)
  <2>1. pc[d] = "starting" /\ Live(runs[i]) = {} /\ UNCHANGED queue
        /\ stateIn(queue[s].items, i) = "dispatching"
    BY <1>0, <1>7 DEF RecordRun, DispatchOK, stateOf
  <2>2. Recorded(d)
    BY <1>7 DEF RecordRun, Recorded, RowsStay
  <2>3. Live(runs'[i]) = {Len(runs[i]) + 1}
    BY <1>0, <1>1, <2>1, <2>2, RecordedTurns
  <2>4. pc'[d] = "recorded" /\ pick'[d] = pick[d]
    BY <1>0, <1>7 DEF RecordRun, Goto, DaemonTypes
  <2>5. slot'[d].item = i /\ slot'[d].run = Len(runs[i]) + 1
    BY <1>0, <1>7 DEF RecordRun, DaemonTypes, SlotType
  <2> QED
    BY <2>1, <2>3, <2>4, <2>5 DEF DispatchOK, stateOf
<1>8. CASE HandOff(d)
  <2>1. Settle(d, "consume") /\ UNCHANGED runs
    BY <1>8 DEF HandOff, rowVars
  <2>2. pc'[d] = "load" /\ pick'[d].todo = "consume"
    BY <1>3, <2>1 DEF Todos
  <2>3. slot'[d].item = slot[d].item /\ slot'[d].run = slot[d].run
    BY <1>0, <1>8 DEF HandOff, DaemonTypes, SlotType
  <2> QED
    BY <1>0, <2>1, <2>2, <2>3 DEF DispatchOK
<1>9. CASE StartFails(d)
  <2>1. pc[d] \in {"start", "starting", "recorded"} /\ Settle(d, "fail") /\ "fail" \in Todos
    BY <1>9 DEF StartFails, Todos
  <2>2. CASE pc[d] = "start"
    <3>1. UNCHANGED <<slot, runs>> /\ Live(runs[i]) = {}
      BY <1>0, <1>9, <2>2 DEF StartFails, DispatchOK
    <3> QED
      BY <1>4, <2>1, <3>1
  <2>3. CASE pc[d] # "start"
    <3>1. slot'[d].item = NoItem
      BY <1>0, <1>9, <2>3 DEF StartFails, DaemonTypes, FreeSlot
    <3>2. pc'[d] = "load" /\ pick'[d].item = i
      BY <1>3, <2>1
    <3>3. Live(runs'[i]) = {}
      <4>1. CASE pc[d] = "starting"
        BY <1>0, <1>9, <4>1 DEF StartFails, DispatchOK
      <4>2. CASE pc[d] = "recorded"
        <5>1. slot[d].item = i /\ Live(runs[i]) = {slot[d].run} /\ slot[d].item # NoItem
          BY <1>0, <1>1, <4>2, PromptQueueAssumption DEF DispatchOK
        <5>2. runs' = [runs EXCEPT ![slot[d].item][slot[d].run] = "aborted"]
          BY <1>9, <4>2, <5>1 DEF StartFails, RunEnds
        <5>3. slot[d].run \in Live(runs[slot[d].item]) /\ "aborted" \in RunStates
          BY <5>1 DEF RunStates
        <5>4. \A j \in Items :
                Live(runs'[j]) = Live(runs[j]) \ IF j = slot[d].item /\ "aborted" = "aborted"
                                                THEN {slot[d].run} ELSE {}
          BY <1>0, <5>1, <5>2, <5>3, EndedTurns
        <5> QED
          BY <1>1, <5>1, <5>4
      <4> QED
        BY <2>1, <2>3, <4>1, <4>2
    <3> QED
      BY <3>1, <3>2, <3>3 DEF DispatchOK
  <2> QED
    BY <2>2, <2>3
<1>10. ASSUME UNCHANGED <<slot, runs>>, pc[d] \in {"load", "save"},
              NEW label \in {"load", "save"}, pc' = [pc EXCEPT ![d] = label],
              pick'[d].item = i, pick'[d].todo = pick[d].todo
       PROVE  DispatchOK(d)'
  <2>1. pc'[d] = label
    BY <1>0, <1>10 DEF DaemonTypes
  <2>2. label \notin {"start", "starting", "recorded", "reconcile"}
    BY <1>10
  <2>3. pick[d].todo # "consume" => Live(runs[i]) = {}
    BY <1>0, <1>10 DEF DispatchOK
  <2>4. slot[d].item # NoItem => slot[d].run \in Live(runs[slot[d].item])
    BY <1>0 DEF DispatchOK
  <2> QED
    BY <1>10, <2>1, <2>2, <2>3, <2>4 DEF DispatchOK
<1>11. CASE SettleLoad(d)
  <2>1. UNCHANGED <<slot, runs>> /\ pc[d] = "load"
    BY <1>11 DEF SettleLoad, slotVars, rowVars
  <2>2. CASE Goto(d, "save") /\ pick' = [pick EXCEPT ![d].rev = queue[pick[d].session].rev]
    <3>1. pick'[d].item = i /\ pick'[d].todo = pick[d].todo
      BY <1>0, <2>2 DEF DaemonTypes, PickType
    <3> QED
      BY <1>10, <2>1, <2>2, <3>1 DEF Goto
  <2> QED
    BY <1>2, <1>11, <2>1, <2>2 DEF SettleLoad
<1>12. CASE SettleSave(d)
  <2>1. UNCHANGED <<slot, runs>> /\ pc[d] = "save"
    BY <1>12 DEF SettleSave, slotVars
  <2>2. CASE Goto(d, "load") /\ pick' = [pick EXCEPT ![d].tries = @ + 1]
    <3>1. pick'[d].item = i /\ pick'[d].todo = pick[d].todo
      BY <1>0, <2>2 DEF DaemonTypes, PickType
    <3> QED
      BY <1>10, <2>1, <2>2, <3>1 DEF Goto
  <2> QED
    BY <1>2, <1>12, <2>1, <2>2 DEF SettleSave
<1> QED
  BY <1>5, <1>6, <1>7, <1>8, <1>9, <1>11, <1>12

\* Every step keeps the invariant of one daemon.
LEMMA OneDaemonStep ==
  ASSUME QueueInv, OneDaemonInv, [Next]_vars, NEW d, Daemons = {d}
  PROVE  OneDaemonInv'
<1>1. ItemsStep
  BY StepItems
<1>2. OneTurn' /\ OneFate'
  BY <1>1, OneTurnStep, OneFateStep
<1>3. d \in Daemons
  OBVIOUS
<1>4. ASSUME Coordinate(d) PROVE DispatchOK(d)'
  BY <1>1, <1>3, <1>4, DispatchRest, DispatchWork DEF Coordinate
<1>5. ASSUME StartPromptQueueCoordinator(d) \/ Crash(d) \/ StoreFails(d) \/ StartFails(d)
      PROVE  DispatchOK(d)'
  BY <1>1, <1>3, <1>5, DispatchRest, DispatchWork
<1>6. ASSUME \/ Mutate \/ (\E s \in Sessions : ReserveTurn(d, s)) \/ BeginTurn(d)
             \/ ReleaseTurn(d) \/ EndRun(d) \/ UNCHANGED vars
      PROVE  DispatchOK(d)'
  BY <1>1, <1>6, DispatchOthers
<1>7. DispatchOK(d)'
  BY <1>4, <1>5, <1>6 DEF Next
<1> QED
  BY <1>2, <1>7 DEF OneDaemonInv, DispatchInv

\* The initial states.
LEMMA OneDaemonInit ==
  ASSUME Init
  PROVE  OneDaemonInv
<1>1. \A i \in Items : runs[i] = <<>> /\ Live(runs[i]) = {} /\ i \notin withdrawn
  BY DEF Init, Live
<1>2. OneTurn
  BY <1>1 DEF OneTurn
<1>3. OneFate
  BY <1>1 DEF OneFate, Turns, Live
<1>4. ASSUME NEW d \in Daemons PROVE DispatchOK(d)
  <2>1. pc[d] = "off" /\ slot[d].item = NoItem
    BY DEF Init, FreeSlot
  <2> QED
    BY <2>1 DEF DispatchOK
<1> QED
  BY <1>2, <1>3, <1>4 DEF OneDaemonInv, DispatchInv

\* With one daemon on the database, the invariant of its dispatches holds
\* always. (Two daemons can execute a prompt twice: the README records it.)
THEOREM QueueDispatchInvariant ==
  ASSUME NEW d, Daemons = {d}
  PROVE  Spec => []OneDaemonInv
<1>1. Init => OneDaemonInv
  BY OneDaemonInit
<1>2. QueueInv /\ OneDaemonInv /\ [Next]_vars => OneDaemonInv'
  BY OneDaemonStep
<1> QED
  BY <1>1, <1>2, QueueInvariant, PTL DEF Spec

\* With one daemon, a queued prompt is executed at most once, whatever the
\* crashes, retries, failed starts and reconciliations.
THEOREM QueueAtMostOneTurn ==
  ASSUME NEW d, Daemons = {d}
  PROVE  Spec => []AtMostOneTurn
<1>1. OneDaemonInv => AtMostOneTurn
  <2> SUFFICES ASSUME OneDaemonInv, NEW i \in Items PROVE Cardinality(Turns(i)) <= 1
    BY DEF AtMostOneTurn
  <2>1. \A m, n \in Turns(i) : m = n
    BY DEF OneDaemonInv, OneTurn, Turns, Live
  <2>2. CASE Turns(i) = {}
    BY <2>2, FS_EmptySet
  <2>3. ASSUME NEW n \in Turns(i) PROVE Cardinality(Turns(i)) <= 1
    <3>1. Turns(i) = {n}
      BY <2>1, <2>3
    <3> QED
      BY <3>1, FS_Singleton
  <2> QED
    BY <2>2, <2>3
<1> QED
  BY <1>1, QueueDispatchInvariant, PTL

\* With one daemon, a prompt that a client withdrew has no turn and is in no
\* queue, and one that a client may still edit has no turn yet.
THEOREM QueueOneFate ==
  ASSUME NEW d, Daemons = {d}
  PROVE  Spec => []OneFate
<1>1. OneDaemonInv => OneFate
  BY DEF OneDaemonInv
<1> QED
  BY <1>1, QueueDispatchInvariant, PTL
=============================================================================
