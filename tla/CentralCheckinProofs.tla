------------------------ MODULE CentralCheckinProofs ------------------------
(***************************************************************************)
(* Proofs about the observation queue and the check-in thread, for every   *)
(* ring size, batch size, quota and request buffer.                        *)
(***************************************************************************)
EXTENDS CentralCheckin, SequenceTheorems, TLAPS

\* An index less than two turns long, wrapped.
Wrap(x) == IF x < Cap THEN x ELSE x - Cap

\* The index arithmetic of g_head and g_tail never needs more than one turn.
LEMMA ModWrap ==
  ASSUME NEW x \in Nat, x < 2 * Cap
  PROVE  x % Cap = Wrap(x) /\ Wrap(x) \in Slot
<1>0. Cap \in Nat /\ Cap > 0
  BY CapAssumption
<1>1. CASE x < Cap
  <2>1. x % Cap = x
    BY <1>0, <1>1
  <2> QED
    BY <1>0, <1>1, <2>1 DEF Wrap, Slot
<1>2. CASE x >= Cap
  <2>1. x = Cap + (x - Cap) /\ x - Cap \in 0 .. Cap - 1
    BY <1>0, <1>2
  <2>2. x % Cap = x - Cap
    BY <1>0, <2>1
  <2> QED
    BY <1>0, <1>2, <2>1, <2>2 DEF Wrap, Slot
<1> QED
  BY <1>0, <1>1, <1>2
-----------------------------------------------------------------------------
\* What the invariants below rest on: the sequences are sequences of numbers,
\* the write index is where head and count say, and nothing is published or
\* drained before the ring is initialised.
RingInv ==
  /\ TypeOK
  /\ batch \in Seq(Nat)
  /\ delivered \in Seq(Nat)
  /\ tail = Wrap(head + count)
  /\ boot # "run" => published = 0 /\ count = 0 /\ thread # "post"
  /\ NewestWindow

LEMMA RingInit == Init => RingInv
<1> SUFFICES ASSUME Init PROVE RingInv
  OBVIOUS
<1>1. TypeOK
  BY CapAssumption, CheckinAssumption
  DEF Init, QueueStatic, Blank, Slot, TypeOK, ThreadState
<1>2. batch \in Seq(Nat) /\ delivered \in Seq(Nat)
  BY DEF Init
<1>3. tail = Wrap(head + count)
  BY CapAssumption DEF Init, QueueStatic, Wrap
<1>4. NewestWindow
  BY DEF Init, QueueStatic, NewestWindow
<1> QED
  BY <1>1, <1>2, <1>3, <1>4 DEF RingInv, Init, QueueStatic

\* The two indices stay within the ring, and the slot an item is read from is
\* the wrapped sum.
LEMMA ItemIndex ==
  ASSUME TypeOK, NEW i \in 1 .. count
  PROVE  /\ (head + i - 1) % Cap = Wrap(head + i - 1)
         /\ Wrap(head + i - 1) \in Slot
         /\ ItemAt(i) = ring[Wrap(head + i - 1)]
<1>1. head + i - 1 \in Nat /\ head + i - 1 < 2 * Cap
  BY CapAssumption DEF TypeOK, Slot
<1> QED
  BY <1>1, ModWrap DEF ItemAt

\* ps_obs_queue_push of the next observation.
LEMMA PublishStep == RingInv /\ Publish => RingInv'
<1> SUFFICES ASSUME RingInv, Publish PROVE RingInv'
  OBVIOUS
<1> USE CapAssumption, CheckinAssumption
<1>0. /\ TypeOK /\ NewestWindow /\ tail = Wrap(head + count)
      /\ head \in Slot /\ tail \in Slot /\ count \in 0 .. Cap
      /\ published \in Nat /\ published < MaxPublished
      /\ ring \in [Slot -> 0 .. MaxPublished]
  BY DEF RingInv, TypeOK, Publish
<1>1. tail' = Wrap(tail + 1) /\ tail' \in Slot
  <2>1. tail + 1 \in Nat /\ tail + 1 < 2 * Cap
    BY <1>0 DEF Slot
  <2> QED
    BY <2>1, ModWrap DEF Publish, Push
<1>2. head' = (IF count = Cap THEN Wrap(head + 1) ELSE head) /\ head' \in Slot
  <2>1. head + 1 \in Nat /\ head + 1 < 2 * Cap
    BY <1>0 DEF Slot
  <2> QED
    BY <1>0, <2>1, ModWrap DEF Publish, Push
<1>3. count' = (IF count = Cap THEN count ELSE count + 1) /\ count' \in 0 .. Cap
  BY <1>0 DEF Publish, Push
<1>4. published' = published + 1 /\ published' \in 0 .. MaxPublished
  BY <1>0 DEF Publish
<1>5. ring' = [ring EXCEPT ![tail] = published + 1]
      /\ ring' \in [Slot -> 0 .. MaxPublished]
  BY <1>0, <1>4 DEF Publish, Push
<1>6. TypeOK'
  BY <1>0, <1>1, <1>2, <1>3, <1>4, <1>5
  DEF TypeOK, Publish, checkinVars, ThreadState, Slot
<1>7. tail' = Wrap(head' + count')
  BY <1>0, <1>1, <1>2, <1>3 DEF Wrap, Slot
<1>8. NewestWindow'
  <2> SUFFICES ASSUME NEW i \in 1 .. count'
               PROVE  ItemAt(i)' = published' - count' + i
    BY DEF NewestWindow
  <2>1. ItemAt(i)' = ring'[Wrap(head' + i - 1)]
    <3>1. head' + i - 1 \in Nat /\ head' + i - 1 < 2 * Cap
      BY <1>2, <1>3 DEF Slot
    <3> QED
      BY <3>1, ModWrap DEF ItemAt
  <2>2. CASE i = count'
    <3>1. Wrap(head' + i - 1) = tail
      BY <1>0, <1>2, <1>3, <2>2 DEF Wrap, Slot
    <3> QED
      BY <1>0, <1>3, <1>4, <1>5, <2>1, <2>2, <3>1
  <2>3. CASE i < count'
    <3> DEFINE j == IF count = Cap THEN i + 1 ELSE i
    <3>1. j \in 1 .. count
      BY <1>0, <1>3, <2>3
    <3>2. Wrap(head' + i - 1) = Wrap(head + j - 1)
      BY <1>0, <1>2, <1>3, <2>3 DEF Wrap, Slot
    <3>3. Wrap(head + j - 1) # tail /\ Wrap(head + j - 1) \in Slot
      BY <1>0, <1>3, <2>3, <3>1 DEF Wrap, Slot
    <3>4. ring'[Wrap(head + j - 1)] = ring[Wrap(head + j - 1)]
      BY <1>0, <1>5, <3>3
    <3>5. ring[Wrap(head + j - 1)] = published - count + j
      BY <1>0, <3>1, ItemIndex DEF NewestWindow
    <3> QED
      BY <1>0, <1>3, <1>4, <2>1, <2>3, <3>1, <3>2, <3>4, <3>5
  <2> QED
    BY <1>3, <2>2, <2>3
<1>9. (batch \in Seq(Nat) /\ delivered \in Seq(Nat))'
  BY DEF RingInv, Publish, checkinVars
<1> QED
  BY <1>6, <1>7, <1>8, <1>9 DEF RingInv, Publish

\* ps_obs_queue_drain of one batch.
LEMMA DrainStep == RingInv /\ DrainBatch => RingInv'
<1> SUFFICES ASSUME RingInv, DrainBatch PROVE RingInv'
  OBVIOUS
<1> USE CapAssumption, CheckinAssumption
<1> DEFINE n == DrainSize(ShipBatch)
<1>0. /\ TypeOK /\ NewestWindow /\ tail = Wrap(head + count)
      /\ head \in Slot /\ tail \in Slot /\ count \in 0 .. Cap
      /\ published \in Nat /\ ring \in [Slot -> 0 .. MaxPublished]
      /\ n \in 0 .. count
  BY DEF RingInv, TypeOK, DrainSize
<1>1. /\ head' = Wrap(head + n) /\ head' \in Slot
      /\ count' = count - n /\ count' \in 0 .. Cap
      /\ UNCHANGED <<ring, tail, published, boot>>
  <2>1. head + n \in Nat /\ head + n < 2 * Cap
    BY <1>0 DEF Slot
  <2>2. (head + n) % Cap = Wrap(head + n) /\ Wrap(head + n) \in Slot
    BY <2>1, ModWrap
  <2>3. /\ head' = (head + n) % Cap /\ count' = count - n
        /\ UNCHANGED <<ring, tail, published, boot>>
    BY DEF DrainBatch, Drain
  <2>4. count - n \in 0 .. Cap
    BY <1>0
  <2> QED
    BY <2>2, <2>3, <2>4
<1>2. TypeOK'
  <2>1. thread' \in ThreadState /\ batches' \in 0 .. ShipMaxBatches
    BY <1>0 DEF DrainBatch, ThreadState, TypeOK
  <2> QED
    BY <1>0, <1>1, <2>1 DEF TypeOK
<1>3. batch' \in Seq(Nat)
  <2>1. \A i \in 1 .. n : ItemAt(i) \in Nat
    BY <1>0, ItemIndex
  <2> QED
    BY <1>0, <2>1 DEF DrainBatch, Drained
<1> HIDE DEF n
<1>4. tail' = Wrap(head' + count')
  BY <1>0, <1>1 DEF Wrap, Slot
<1>5. NewestWindow'
  <2> SUFFICES ASSUME NEW i \in 1 .. count'
               PROVE  ItemAt(i)' = published' - count' + i
    BY DEF NewestWindow
  <2>1. ItemAt(i)' = ring[Wrap(head' + i - 1)]
    <3>1. head' + i - 1 \in Nat /\ head' + i - 1 < 2 * Cap
      BY <1>1 DEF Slot
    <3> QED
      BY <1>1, <3>1, ModWrap DEF ItemAt
  <2>2. n + i \in 1 .. count
    BY <1>0, <1>1
  <2>3. Wrap(head' + i - 1) = Wrap(head + (n + i) - 1)
    BY <1>0, <1>1, <2>2 DEF Wrap, Slot
  <2>4. ring[Wrap(head + (n + i) - 1)] = published - count + (n + i)
    BY <1>0, <2>2, ItemIndex, Zenon DEF NewestWindow
  <2> QED
    BY <1>0, <1>1, <2>1, <2>2, <2>3, <2>4
<1>6. boot = "run"
  BY DEF RingInv, DrainBatch, TypeOK
<1> QED
  BY <1>1, <1>2, <1>3, <1>4, <1>5, <1>6 DEF RingInv, DrainBatch, historyVars

\* Every other step leaves the ring alone or empties it.
LEMMA RingStep == RingInv /\ [Next]_vars => RingInv'
<1> SUFFICES ASSUME RingInv, [Next]_vars PROVE RingInv'
  OBVIOUS
<1> USE CapAssumption, CheckinAssumption
<1>1. ASSUME UNCHANGED <<queueVars, published>> PROVE NewestWindow'
  BY <1>1 DEF RingInv, NewestWindow, ItemAt, queueVars
<1>2. CASE StartCheckin
  BY <1>1, <1>2
  DEF StartCheckin, RingInv, TypeOK, ThreadState, queueVars, historyVars, Wrap
<1>3. CASE InitQueue
  <2>1. NewestWindow'
    BY <1>3 DEF InitQueue, QueueReset, NewestWindow
  <2> QED
    BY <1>3, <2>1
    DEF InitQueue, QueueReset, RingInv, TypeOK, Slot, checkinVars, historyVars,
        Wrap
<1>4. CASE Publish
  BY <1>4, PublishStep
<1>5. CASE Heartbeat
  BY <1>1, <1>5
  DEF Heartbeat, RingInv, TypeOK, ThreadState, queueVars, historyVars, Wrap
<1>6. CASE DrainBatch
  BY <1>6, DrainStep
<1>7. CASE EndCycle
  BY <1>1, <1>7
  DEF EndCycle, RingInv, TypeOK, ThreadState, queueVars, historyVars, Wrap
<1>8. CASE PostAnswered
  <2>1. batch' \in Seq(Nat) /\ delivered' \in Seq(Nat)
    <3>1. delivered \o batch \in Seq(Nat)
      BY ConcatProperties DEF RingInv
    <3>2. delivered' = delivered \o batch \/ delivered' = delivered
      BY <1>8 DEF PostAnswered
    <3>3. batch' = <<>>
      BY <1>8 DEF PostAnswered
    <3>4. delivered' \in Seq(Nat)
      BY <3>1, <3>2, Zenon DEF RingInv
    <3> QED
      BY <3>3, <3>4
  <2> QED
    BY <1>1, <1>8, <2>1
    DEF PostAnswered, RingInv, TypeOK, ThreadState, queueVars, Wrap
<1>9. CASE PostFailed
  BY <1>1, <1>9
  DEF PostFailed, RingInv, TypeOK, ThreadState, queueVars, Wrap
<1>10. CASE Wake
  BY <1>1, <1>10
  DEF Wake, RingInv, TypeOK, ThreadState, queueVars, historyVars, Wrap
<1>11. CASE UNCHANGED vars
  BY <1>1, <1>11
  DEF vars, RingInv, TypeOK, queueVars, checkinVars, historyVars, Wrap
<1> QED
  BY <1>2, <1>3, <1>4, <1>5, <1>6, <1>7, <1>8, <1>9, <1>10, <1>11
  DEF Next, Main, Checkin

\* The indices of the ring, its fill count and the thread's program counter
\* stay in range (obs_queue.c, central_checkin.c), for every ring size.
THEOREM TypeCorrect == Spec => []TypeOK
<1>1. RingInv => TypeOK
  BY DEF RingInv
<1> QED
  BY RingInit, RingStep, <1>1, PTL DEF Spec

\* The ring always holds the newest `count' observations, oldest first, for
\* every ring and batch size: overwriting costs the oldest item only, and a
\* drain takes a prefix (ps_obs_queue_push, ps_obs_queue_drain).
THEOREM RingHoldsNewest == Spec => []NewestWindow
<1>1. RingInv => NewestWindow
  BY DEF RingInv
<1> QED
  BY RingInit, RingStep, <1>1, PTL DEF Spec
-----------------------------------------------------------------------------
\* What was delivered precedes the batch being posted, which precedes what is
\* still in the ring.
OrderInv ==
  /\ RingInv
  /\ \A i, j \in DOMAIN batch : i < j => batch[i] < batch[j]
  /\ \A i \in DOMAIN batch : batch[i] <= published - count
  /\ \A i \in DOMAIN delivered : delivered[i] <= published - count
  /\ \A i \in DOMAIN delivered, j \in DOMAIN batch : delivered[i] < batch[j]
  /\ DeliveredInOrder

LEMMA OrderInit == Init => OrderInv
<1> SUFFICES ASSUME Init PROVE OrderInv
  OBVIOUS
<1>1. RingInv
  BY RingInit
<1>2. DOMAIN batch = {} /\ DOMAIN delivered = {}
  BY DEF Init
<1> QED
  BY <1>1, <1>2 DEF OrderInv, DeliveredInOrder

LEMMA AtMostMonotone ==
  ASSUME NEW p \in Int, NEW c \in Int, NEW q \in Int, NEW d \in Int,
         q - d >= p - c
  PROVE  \A x \in Nat : x <= p - c => x <= q - d
OBVIOUS

\* Steps that post nothing and drain nothing: the frontier published - count
\* never moves back.
LEMMA OrderFrame ==
  ASSUME OrderInv, RingInv', UNCHANGED delivered,
         batch' = batch \/ batch' = <<>>,
         published' - count' >= published - count
  PROVE  OrderInv'
<1>1. /\ \A i \in DOMAIN batch : batch[i] \in Nat
      /\ \A i \in DOMAIN delivered : delivered[i] \in Nat
  <2>1. batch \in Seq(Nat) /\ delivered \in Seq(Nat)
    BY DEF OrderInv, RingInv
  <2> QED
    BY <2>1
<1>2. /\ published \in Int /\ count \in Int
      /\ published' \in Int /\ count' \in Int
  BY DEF OrderInv, RingInv, TypeOK
<1>3. \A x \in Nat : x <= published - count => x <= published' - count'
  BY <1>2, AtMostMonotone, Zenon
<1>4. \A i \in DOMAIN delivered : delivered[i] <= published' - count'
  BY <1>1, <1>3 DEF OrderInv
<1>5. \A i \in DOMAIN batch : batch[i] <= published' - count'
  BY <1>1, <1>3 DEF OrderInv
<1>6. CASE batch' = batch
  BY <1>4, <1>5, <1>6 DEF OrderInv, DeliveredInOrder
<1>7. CASE batch' = <<>>
  <2>1. DOMAIN batch' = {}
    BY <1>7
  <2> QED
    BY <1>4, <2>1 DEF OrderInv, DeliveredInOrder
<1> QED
  BY <1>6, <1>7

LEMMA OrderDrain == OrderInv /\ RingInv' /\ DrainBatch => OrderInv'
<1> SUFFICES ASSUME OrderInv, RingInv', DrainBatch PROVE OrderInv'
  OBVIOUS
<1> USE CapAssumption, CheckinAssumption
<1> DEFINE n == DrainSize(ShipBatch)
<1>0. /\ count \in Nat /\ published \in Nat /\ n \in 0 .. count
      /\ delivered \in Seq(Nat)
  BY DEF OrderInv, RingInv, TypeOK, DrainSize
<1>1. /\ batch' = [i \in 1 .. n |-> ItemAt(i)]
      /\ count' = count - n
      /\ UNCHANGED <<published, delivered>>
  BY DEF DrainBatch, Drained, Drain, historyVars
<1>2. \A i \in 1 .. n : ItemAt(i) = published - count + i
  BY <1>0 DEF OrderInv, RingInv, NewestWindow
<1> HIDE DEF n
<1>3. DOMAIN batch' = 1 .. n /\ \A i \in 1 .. n : batch'[i] = published - count + i
  BY <1>1, <1>2
<1>4. \A i \in DOMAIN delivered : delivered[i] \in Nat
  BY <1>0
<1> QED
  BY <1>0, <1>1, <1>3, <1>4 DEF OrderInv, DeliveredInOrder

LEMMA OrderPost == OrderInv /\ RingInv' /\ PostAnswered => OrderInv'
<1> SUFFICES ASSUME OrderInv, RingInv', PostAnswered PROVE OrderInv'
  OBVIOUS
<1>0. /\ batch \in Seq(Nat) /\ delivered \in Seq(Nat)
      /\ published \in Int /\ count \in Int
  BY DEF OrderInv, RingInv, TypeOK
<1>1. batch' = <<>> /\ UNCHANGED <<published, count>>
  BY DEF PostAnswered, queueVars
<1>2. CASE UNCHANGED delivered
  BY <1>0, <1>1, <1>2, OrderFrame
<1>3. CASE delivered' = delivered \o batch
  <2> DEFINE d == delivered \o batch
             m == Len(delivered)
  <2>1. /\ d \in Seq(Nat) /\ m \in Nat /\ Len(batch) \in Nat
        /\ DOMAIN d = 1 .. m + Len(batch)
        /\ DOMAIN delivered = 1 .. m /\ DOMAIN batch = 1 .. Len(batch)
        /\ \A i \in DOMAIN d : d[i] = IF i <= m THEN delivered[i] ELSE batch[i - m]
    BY <1>0, ConcatProperties
  <2> HIDE DEF d, m
  <2>0. ASSUME NEW i \in DOMAIN d, m < i PROVE i - m \in DOMAIN batch
    <3> DEFINE k == Len(batch)
    <3>1. k \in Nat /\ m \in Nat /\ DOMAIN batch = 1 .. k /\ i \in 1 .. m + k
      BY <2>1
    <3> HIDE DEF k
    <3>2. i - m \in 1 .. k
      BY <2>0, <3>1
    <3> QED
      BY <3>1, <3>2
  <2>2. ASSUME NEW i \in DOMAIN d PROVE d[i] <= published - count
    <3>1. CASE i <= m
      BY <2>1, <2>2, <3>1 DEF OrderInv
    <3>2. CASE i > m
      <4>1. i - m \in DOMAIN batch
        BY <2>0, <3>2
      <4> QED
        BY <2>1, <2>2, <3>2, <4>1 DEF OrderInv
    <3> QED
      BY <2>1, <3>1, <3>2
  <2>3. ASSUME NEW i \in DOMAIN d, NEW j \in DOMAIN d, i < j PROVE d[i] < d[j]
    <3>1. CASE j <= m
      BY <2>1, <2>3, <3>1 DEF OrderInv, DeliveredInOrder
    <3>2. CASE i <= m /\ m < j
      <4>1. j - m \in DOMAIN batch
        BY <2>0, <3>2
      <4> QED
        BY <2>1, <2>3, <3>2, <4>1 DEF OrderInv
    <3>3. CASE m < i
      <4>1. i - m \in DOMAIN batch /\ j - m \in DOMAIN batch /\ i - m < j - m
        <5>1. i \in Int /\ j \in Int /\ m \in Int
          BY <2>1
        <5>2. m < j /\ i - m < j - m
          BY <2>3, <3>3, <5>1
        <5> QED BY <2>0, <3>3, <5>2
      <4> QED
        <5>1. batch[i - m] < batch[j - m]
          BY <4>1 DEF OrderInv
        <5>2. d[i] = batch[i - m] /\ d[j] = batch[j - m]
          BY <2>1, <2>3, <3>3
        <5> QED BY <5>1, <5>2
    <3> QED
      BY <2>1, <2>3, <3>1, <3>2, <3>3
  <2>4. delivered' = d
    BY <1>3 DEF d
  <2>5. DOMAIN batch' = {}
    BY <1>1
  <2> QED
    BY <1>1, <2>2, <2>3, <2>4, <2>5 DEF OrderInv, DeliveredInOrder
<1> QED
  BY <1>2, <1>3 DEF PostAnswered

LEMMA OrderStep == OrderInv /\ [Next]_vars => OrderInv'
<1> SUFFICES ASSUME OrderInv, [Next]_vars PROVE OrderInv'
  OBVIOUS
<1>0. RingInv'
  BY RingStep DEF OrderInv
<1>1. /\ published \in Int /\ count \in Int /\ count \in 0 .. Cap /\ Cap \in Nat
      /\ (boot # "run" => published = 0 /\ count = 0)
  BY CapAssumption DEF OrderInv, RingInv, TypeOK
<1>2. CASE StartCheckin
  BY <1>0, <1>1, <1>2, OrderFrame DEF StartCheckin, queueVars, historyVars
<1>3. CASE InitQueue
  BY <1>0, <1>1, <1>3, OrderFrame
  DEF InitQueue, QueueReset, checkinVars, historyVars
<1>4. CASE Publish
  BY <1>0, <1>1, <1>4, OrderFrame DEF Publish, Push, checkinVars
<1>5. CASE Heartbeat
  BY <1>0, <1>1, <1>5, OrderFrame DEF Heartbeat, queueVars, historyVars
<1>6. CASE DrainBatch
  BY <1>0, <1>6, OrderDrain
<1>7. CASE EndCycle
  BY <1>0, <1>1, <1>7, OrderFrame DEF EndCycle, queueVars, historyVars
<1>8. CASE PostAnswered
  BY <1>0, <1>8, OrderPost
<1>9. CASE PostFailed
  BY <1>0, <1>1, <1>9, OrderFrame DEF PostFailed, queueVars
<1>10. CASE Wake
  BY <1>0, <1>1, <1>10, OrderFrame DEF Wake, queueVars, historyVars
<1>11. CASE UNCHANGED vars
  BY <1>0, <1>1, <1>11, OrderFrame DEF vars, queueVars, checkinVars, historyVars
<1> QED
  BY <1>2, <1>3, <1>4, <1>5, <1>6, <1>7, <1>8, <1>9, <1>10, <1>11
  DEF Next, Main, Checkin

\* The console receives each observation at most once and in publication
\* order, whatever the sizes: a batch is taken out of the ring before it is
\* posted and never posted again (ps_checkin_ship_observations).
THEOREM DeliveryInOrder == Spec => []DeliveredInOrder
<1>1. OrderInv => DeliveredInOrder
  BY DEF OrderInv
<1> QED
  BY OrderInit, OrderStep, <1>1, PTL DEF Spec

\* The ring holds the newest observations oldest first, and the console accepts
\* them in the order of their publication, each at most once, whatever the
\* interleaving of the event loop and the check-in thread (ps_obs_queue_push,
\* ps_obs_queue_drain, ps_checkin_ship_observations).
THEOREM OrderKept == Spec => []InOrder
<1>1. TypeOK /\ NewestWindow /\ DeliveredInOrder => InOrder
  BY DEF InOrder
<1> QED
  BY TypeCorrect, RingHoldsNewest, DeliveryInOrder, <1>1, PTL
-----------------------------------------------------------------------------
\* The c newest of p observations, oldest first.
Window(p, c) == [i \in 1 .. c |-> p - c + i]

LEMMA WindowSeq ==
  ASSUME NEW p \in Nat, NEW c \in Nat, c <= p
  PROVE  /\ Window(p, c) \in Seq(Nat)
         /\ Len(Window(p, c)) = c
         /\ \A i \in 1 .. c : Window(p, c)[i] = p - c + i
BY DEF Window

LEMMA WindowAppend ==
  ASSUME NEW p \in Nat, NEW c \in Nat, c <= p
  PROVE  Append(Window(p, c), p + 1) = Window(p + 1, c + 1)
<1> DEFINE w == Window(p, c)
           a == Append(w, p + 1)
           b == Window(p + 1, c + 1)
<1>0. w \in Seq(Nat) /\ Len(w) = c /\ \A i \in 1 .. c : w[i] = p - c + i
  BY WindowSeq
<1> HIDE DEF w
<1>1. /\ a \in Seq(Nat) /\ Len(a) = c + 1
      /\ \A i \in 1 .. c : a[i] = p - c + i
      /\ a[c + 1] = p + 1
  <2>1. p + 1 \in Nat
    OBVIOUS
  <2>2. /\ a \in Seq(Nat) /\ Len(a) = Len(w) + 1
        /\ \A i \in 1 .. Len(w) : a[i] = w[i]
        /\ a[Len(w) + 1] = p + 1
    BY <1>0, <2>1, AppendProperties
  <2> HIDE DEF a
  <2> QED
    BY <1>0, <2>2
<1>2. b \in Seq(Nat) /\ Len(b) = c + 1 /\ \A i \in 1 .. c + 1 : b[i] = p - c + i
  BY WindowSeq
<1> HIDE DEF a, b
<1>3. \A i \in 1 .. c + 1 : a[i] = b[i]
  BY <1>1, <1>2
<1>4. a = b
  BY <1>1, <1>2, <1>3, SeqEqual
<1> QED
  BY <1>4 DEF a, b, w

LEMMA WindowTail ==
  ASSUME NEW p \in Nat, NEW c \in Nat, 0 < c, c <= p
  PROVE  Tail(Window(p, c)) = Window(p, c - 1)
<1> DEFINE w == Window(p, c)
           a == Tail(w)
           b == Window(p, c - 1)
<1>1. w \in Seq(Nat) /\ Len(w) = c /\ \A i \in 1 .. c : w[i] = p - c + i
  BY WindowSeq
<1>2. b \in Seq(Nat) /\ Len(b) = c - 1
      /\ \A i \in 1 .. c - 1 : b[i] = p - (c - 1) + i
  BY WindowSeq
<1> HIDE DEF w, b
<1>3. w # <<>>
  BY <1>1
<1>4. /\ a \in Seq(Nat) /\ Len(a) = c - 1
      /\ \A i \in 1 .. c - 1 : a[i] = w[i + 1]
  BY <1>1, <1>3, HeadTailProperties
<1> HIDE DEF a
<1>5. \A i \in 1 .. c - 1 : a[i] = b[i]
  BY <1>1, <1>2, <1>4
<1>6. a = b
  BY <1>2, <1>4, <1>5, SeqEqual
<1> QED
  BY <1>6 DEF a, b, w

LEMMA WindowRest ==
  ASSUME NEW p \in Nat, NEW c \in Nat, c <= p, NEW k \in 1 .. c
  PROVE  SubSeq(Window(p, c), k + 1, c) = Window(p, c - k)
<1> DEFINE w == Window(p, c)
           a == SubSeq(w, k + 1, c)
           b == Window(p, c - k)
<1>1. w \in Seq(Nat) /\ Len(w) = c /\ \A i \in 1 .. c : w[i] = p - c + i
  BY WindowSeq
<1>2. b \in Seq(Nat) /\ Len(b) = c - k
      /\ \A i \in 1 .. c - k : b[i] = p - (c - k) + i
  <2>1. c - k \in Nat /\ c - k <= p
    OBVIOUS
  <2> QED
    BY <2>1, WindowSeq, Zenon
<1> HIDE DEF w, b
<1>3. /\ a \in Seq(Nat) /\ Len(a) = c - k
      /\ \A i \in 1 .. c - k : a[i] = w[k + i]
  <2>1. k + 1 \in Int /\ c \in Int /\ k \in Nat /\ k <= c
    OBVIOUS
  <2>2. \A i \in k + 1 .. c : i \in 1 .. c
    OBVIOUS
  <2>3. \A i \in k + 1 .. c : w[i] \in Nat
    BY <1>1, <2>2
  <2>4. /\ a \in Seq(Nat)
        /\ Len(a) = IF k + 1 <= c THEN c - (k + 1) + 1 ELSE 0
        /\ \A i \in 1 .. c - (k + 1) + 1 : a[i] = w[(k + 1) + i - 1]
    BY <2>1, <2>3, SubSeqProperties
  <2> HIDE DEF a
  <2>5. c - (k + 1) + 1 = c - k /\ (k + 1 <= c \/ c - k = 0)
    BY <2>1
  <2>6. Len(a) = c - k
    BY <2>4, <2>5, Zenon
  <2>7. \A i \in 1 .. c - k : (k + 1) + i - 1 = k + i
    BY <2>1
  <2> QED
    BY <2>4, <2>5, <2>6, <2>7, Zenon
<1> HIDE DEF a
<1>4. \A i \in 1 .. c - k : a[i] = b[i]
  BY <1>1, <1>2, <1>3
<1>5. a = b
  BY <1>2, <1>3, <1>4, SeqEqual
<1> QED
  BY <1>5 DEF a, b, w

\* The pending observations are the window the invariant describes.
LEMMA PendingWindow ==
  RingInv => /\ Pending = Window(published, count)
             /\ count \in Nat /\ published \in Nat
<1> SUFFICES ASSUME RingInv
             PROVE  /\ Pending = Window(published, count)
                    /\ count \in Nat /\ published \in Nat
  OBVIOUS
<1>1. count \in Nat /\ published \in Nat
  BY DEF RingInv, TypeOK
<1> QED
  BY <1>1 DEF RingInv, NewestWindow, Pending, Window

\* There are never more items in the ring than were published.
CountInv == RingInv /\ count <= published

LEMMA CountInit == Init => CountInv
BY RingInit DEF CountInv, Init, QueueStatic

LEMMA CountStep == CountInv /\ [Next]_vars => CountInv'
<1> SUFFICES ASSUME CountInv, [Next]_vars PROVE CountInv'
  OBVIOUS
<1>1. RingInv /\ RingInv'
  BY RingStep DEF CountInv
<1>2. count \in Nat /\ published \in Nat /\ count <= published
  BY <1>1 DEF CountInv, RingInv, TypeOK
<1>3. CASE Publish
  BY <1>1, <1>2, <1>3 DEF Publish, Push, CountInv
<1>4. CASE DrainBatch
  BY <1>1, <1>2, <1>4, CheckinAssumption
  DEF DrainBatch, Drain, DrainSize, CountInv
<1>5. CASE InitQueue
  BY <1>1, <1>2, <1>5 DEF InitQueue, QueueReset, CountInv
<1>6. CASE UNCHANGED <<queueVars, published>>
  BY <1>1, <1>2, <1>6 DEF queueVars, CountInv
<1> QED
  BY <1>3, <1>4, <1>5, <1>6
  DEF Next, Main, Checkin, vars, StartCheckin, Heartbeat, EndCycle,
      PostAnswered, PostFailed, Wake

LEMMA ChannelStep == CountInv /\ CountInv' /\ [Next]_vars
                       => [Channel!Publish \/ Channel!Take]_(Channel!chanVars)
<1> SUFFICES ASSUME CountInv, CountInv', [Next]_vars
             PROVE  [Channel!Publish \/ Channel!Take]_(Channel!chanVars)
  OBVIOUS
<1> DEFINE w == Window(published, count)
<1>a. RingInv /\ RingInv'
  BY DEF CountInv
<1>b. Pending' = Window(published', count')
  <2>1. \A i \in 1 .. count' : ItemAt(i)' = published' - count' + i
    BY <1>a DEF RingInv, NewestWindow
  <2> QED
    BY <2>1 DEF Pending, Window
<1>c. count \in Nat /\ published \in Nat /\ count \in 0 .. Cap
  BY <1>a DEF RingInv, TypeOK
<1>d. Pending = w
  BY <1>a, PendingWindow
<1>e. count <= published
  BY DEF CountInv
<1>0. /\ Pending = w /\ Pending' = Window(published', count')
      /\ count \in Nat /\ published \in Nat /\ count <= published
      /\ count \in 0 .. Cap /\ Cap \in Nat /\ Cap > 0
      /\ ShipBatch \in Nat /\ ShipBatch > 0
  <2> HIDE DEF w
  <2> QED
    BY <1>b, <1>c, <1>d, <1>e, CapAssumption, CheckinAssumption
<1>1. Len(w) = count /\ w \in Seq(Nat)
  BY <1>0, WindowSeq
<1>2. CASE Publish
  <2>1. published' = published + 1
        /\ count' = IF count = Cap THEN count ELSE count + 1
    BY <1>2 DEF Publish, Push
  <2>2. Window(published', count') = Append(Channel!Newest(w), published + 1)
    <3>1. CASE count = Cap
      <4>1. Tail(w) = Window(published, count - 1)
        BY <1>0, <3>1, WindowTail
      <4>2. Append(Window(published, count - 1), published + 1)
              = Window(published + 1, (count - 1) + 1)
        BY <1>0, <3>1, WindowAppend
      <4> QED
        BY <1>0, <1>1, <2>1, <3>1, <4>1, <4>2 DEF Channel!Newest
    <3>2. CASE count # Cap
      BY <1>0, <1>1, <2>1, <3>2, WindowAppend, Zenon DEF Channel!Newest
    <3> QED
      BY <3>1, <3>2
  <2> QED
    BY <1>0, <2>1, <2>2 DEF Channel!Publish
<1>3. CASE DrainBatch
  <2>1. /\ UNCHANGED published /\ count > 0
        /\ count' = count - DrainSize(ShipBatch)
    BY <1>3 DEF DrainBatch, Drain
  <2>2. w # <<>>
    BY <1>0, <1>1, <2>1
  <2>3. Window(published', count') = IF Len(w) < ShipBatch
                THEN <<>> ELSE SubSeq(w, ShipBatch + 1, Len(w))
    <3>1. CASE count < ShipBatch
      <4>1. count' = 0
        BY <1>0, <2>1, <3>1 DEF DrainSize
      <4>2. Window(published, 0) = <<>>
        BY DEF Window
      <4> QED
        BY <1>1, <2>1, <3>1, <4>1, <4>2
    <3>2. CASE count >= ShipBatch
      <4>1. count' = count - ShipBatch /\ ShipBatch \in 1 .. count
        BY <1>0, <2>1, <3>2 DEF DrainSize
      <4>2. SubSeq(w, ShipBatch + 1, count) = Window(published, count - ShipBatch)
        BY <1>0, <4>1, WindowRest, Zenon
      <4>3. ~(Len(w) < ShipBatch) /\ Len(w) = count
        BY <1>0, <1>1, <3>2
      <4>4. Window(published', count') = SubSeq(w, ShipBatch + 1, Len(w))
        BY <2>1, <4>1, <4>2, <4>3, Zenon
      <4> QED
        BY <4>3, <4>4, Zenon
    <3> QED
      BY <1>0, <3>1, <3>2
  <2> QED
    BY <1>0, <2>1, <2>2, <2>3 DEF Channel!Take
<1>4. CASE InitQueue
  <2>1. count = 0 /\ count' = 0 /\ UNCHANGED published
    BY <1>4 DEF InitQueue, QueueReset, CountInv, RingInv
  <2> QED
    BY <1>0, <2>1 DEF Channel!chanVars
<1>5. CASE UNCHANGED <<queueVars, published>>
  BY <1>0, <1>5 DEF queueVars, Channel!chanVars
<1> QED
  BY <1>2, <1>3, <1>4, <1>5
  DEF Next, Main, Checkin, vars, StartCheckin, Heartbeat, EndCycle,
      PostAnswered, PostFailed, Wake

\* The ring with its wrapping indices, its overwriting push and its batched
\* drain is a bounded FIFO to its two threads, for every capacity and batch
\* size: obs_queue.c implements ObsChannel.
THEOREM RingImplementsChannel == Spec => ImplementsChannel
<1>1. Init => Channel!Init
  <2> SUFFICES ASSUME Init PROVE Channel!Init
    OBVIOUS
  <2>1. count = 0 /\ published = 0
    BY DEF Init, QueueStatic
  <2>2. Pending = <<>>
    BY <2>1 DEF Pending
  <2> QED
    BY <2>1, <2>2 DEF Channel!Init
<1> QED
  BY CountInit, CountStep, ChannelStep, <1>1, PTL
  DEF Spec, ImplementsChannel, Channel!Spec
-----------------------------------------------------------------------------
\* What the console has accepted.
Accepted == {delivered[i] : i \in DOMAIN delivered}

\* The five sets have no number in common and hold the numbers from one to n.
Parted(b, d, r, f, e, n) ==
  /\ b \cup d \cup r \cup f \cup e = 1 .. n
  /\ b \cap d = {} /\ b \cap r = {} /\ b \cap f = {} /\ b \cap e = {}
  /\ d \cap r = {} /\ d \cap f = {} /\ d \cap e = {}
  /\ r \cap f = {} /\ r \cap e = {} /\ f \cap e = {}

\* What has left the ring is in one of five places, and the static items[] is in
\* use only during a POST.
AccountInv ==
  /\ CountInv
  /\ thread # "post" => batch = <<>>
  /\ Parted(InBatch, Accepted, refused, failed, evicted, published - count)

\* The elements of a sequence are its range.
LEMMA RangeOfConcat ==
  ASSUME NEW s \in Seq(Nat), NEW t \in Seq(Nat)
  PROVE  {(s \o t)[i] : i \in DOMAIN (s \o t)}
           = {s[i] : i \in DOMAIN s} \cup {t[i] : i \in DOMAIN t}
<1> DEFINE c == s \o t
<1>1. /\ Len(s) \in Nat /\ Len(t) \in Nat
      /\ DOMAIN s = 1 .. Len(s) /\ DOMAIN t = 1 .. Len(t)
      /\ DOMAIN c = 1 .. Len(s) + Len(t)
      /\ \A i \in DOMAIN c : c[i] = IF i <= Len(s) THEN s[i] ELSE t[i - Len(s)]
  BY ConcatProperties
<1> HIDE DEF c
<1>2. ASSUME NEW i \in DOMAIN c
      PROVE  c[i] \in {s[j] : j \in DOMAIN s} \cup {t[j] : j \in DOMAIN t}
  <2>1. CASE i <= Len(s)
    <3>1. i \in DOMAIN s /\ c[i] = s[i]
      BY <1>1, <2>1
    <3> QED
      BY <3>1
  <2>2. CASE ~(i <= Len(s))
    <3>1. i - Len(s) \in DOMAIN t /\ c[i] = t[i - Len(s)]
      BY <1>1, <2>2
    <3> QED
      BY <3>1
  <2> QED
    BY <2>1, <2>2
<1>3. ASSUME NEW j \in DOMAIN s
      PROVE  s[j] \in {c[i] : i \in DOMAIN c}
  <2>1. j \in DOMAIN c /\ c[j] = s[j]
    BY <1>1
  <2> QED
    BY <2>1
<1>4. ASSUME NEW j \in DOMAIN t
      PROVE  t[j] \in {c[i] : i \in DOMAIN c}
  <2>1. /\ Len(s) + j \in DOMAIN c /\ ~(Len(s) + j <= Len(s))
        /\ (Len(s) + j) - Len(s) = j
    BY <1>1
  <2>2. c[Len(s) + j] = t[j]
    BY <1>1, <2>1
  <2> QED
    BY <2>1, <2>2
<1>5. {c[i] : i \in DOMAIN c} = {s[i] : i \in DOMAIN s} \cup {t[i] : i \in DOMAIN t}
  BY <1>2, <1>3, <1>4
<1> QED
  BY <1>5, Zenon DEF c

\* The accounts are in order initially.
LEMMA AccountInit == Init => AccountInv
<1> SUFFICES ASSUME Init PROVE AccountInv
  OBVIOUS
<1>1. /\ CountInv /\ batch = <<>> /\ delivered = <<>>
      /\ refused = {} /\ failed = {} /\ evicted = {} /\ published = 0 /\ count = 0
  BY CountInit DEF Init, QueueStatic
<1>2. InBatch = {} /\ Accepted = {}
  BY <1>1 DEF InBatch, Accepted
<1>3. 1 .. published - count = {}
  BY <1>1
<1> QED
  BY <1>1, <1>2, <1>3 DEF AccountInv, Parted

\* An overwritten item is the oldest in the ring, and goes to the evicted ones.
LEMMA AccountPublish ==
  ASSUME AccountInv, CountInv', Publish
  PROVE  AccountInv'
<1>0. /\ count \in 0 .. Cap /\ Cap \in Nat /\ Cap > 0 /\ published \in Nat
      /\ count <= published
  BY CapAssumption DEF AccountInv, CountInv, RingInv, TypeOK
<1>1. /\ published' = published + 1
      /\ count' = IF count = Cap THEN count ELSE count + 1
      /\ evicted' = IF count = Cap THEN evicted \cup {ItemAt(1)} ELSE evicted
      /\ UNCHANGED <<thread, batch, delivered, refused, failed>>
  BY DEF Publish, Push, checkinVars
<1>2. InBatch' = InBatch /\ Accepted' = Accepted
  BY <1>1 DEF InBatch, Accepted
<1> DEFINE n == published - count
<1>3. n \in Nat
  BY <1>0
<1>4. CASE count = Cap
  <2>1. ItemAt(1) = n + 1
    <3>1. 1 \in 1 .. count
      BY <1>0, <1>4
    <3> QED
      BY <3>1 DEF AccountInv, CountInv, RingInv, NewestWindow
  <2>2. published' - count' = n + 1
    BY <1>0, <1>1, <1>4
  <2>3. evicted' = evicted \cup {n + 1}
    BY <1>1, <1>4, <2>1
  <2> HIDE DEF n
  <2>4. 1 .. n + 1 = (1 .. n) \cup {n + 1} /\ n + 1 \notin 1 .. n
    BY <1>3
  <2>5. Parted(InBatch, Accepted, refused, failed, evicted, n)
    BY DEF AccountInv, n
  <2>6. Parted(InBatch, Accepted, refused, failed, evicted \cup {n + 1}, n + 1)
    <3>1. n + 1 \notin InBatch \cup Accepted \cup refused \cup failed
      BY <2>4, <2>5 DEF Parted
    <3>2. InBatch \cup Accepted \cup refused \cup failed \cup (evicted \cup {n + 1})
            = 1 .. n + 1
      BY <2>4, <2>5 DEF Parted
    <3>3. /\ InBatch \cap (evicted \cup {n + 1}) = {}
          /\ Accepted \cap (evicted \cup {n + 1}) = {}
          /\ refused \cap (evicted \cup {n + 1}) = {}
          /\ failed \cap (evicted \cup {n + 1}) = {}
      BY <2>5, <3>1 DEF Parted
    <3> QED
      BY <2>5, <3>2, <3>3, Zenon DEF Parted
  <2> QED
    BY <1>1, <1>2, <2>2, <2>3, <2>6, Zenon DEF AccountInv
<1>5. CASE count # Cap
  <2>1. published' - count' = n
    BY <1>0, <1>1, <1>5
  <2>2. evicted' = evicted
    BY <1>1, <1>5
  <2>3. Parted(InBatch, Accepted, refused, failed, evicted, n)
    BY DEF AccountInv
  <2> HIDE DEF n
  <2> QED
    BY <1>1, <1>2, <2>1, <2>2, <2>3 DEF AccountInv
<1> QED
  BY <1>4, <1>5

\* A drained batch is the next run of numbers.
LEMMA AccountDrain ==
  ASSUME AccountInv, CountInv', DrainBatch
  PROVE  AccountInv'
<1> DEFINE k == DrainSize(ShipBatch)
           n == published - count
<1>0. /\ count \in Nat /\ published \in Nat /\ k \in 0 .. count /\ count <= published
  BY CheckinAssumption DEF AccountInv, CountInv, RingInv, TypeOK, DrainSize
<1>1. /\ batch' = [i \in 1 .. k |-> ItemAt(i)]
      /\ count' = count - k /\ thread = "drain" /\ thread' = "post"
      /\ UNCHANGED <<published, delivered, refused, failed, evicted>>
  BY DEF DrainBatch, Drained, Drain, historyVars
<1>2. \A i \in 1 .. k : ItemAt(i) = n + i
  BY <1>0 DEF AccountInv, CountInv, RingInv, NewestWindow
<1>3. n \in Nat /\ published' - count' = n + k
  BY <1>0, <1>1
<1>4. Parted(InBatch, Accepted, refused, failed, evicted, n)
  BY DEF AccountInv
<1>5. InBatch = {}
  BY <1>1 DEF AccountInv, InBatch
<1> HIDE DEF n, k
<1>6. InBatch' = n + 1 .. n + k
  <2>1. DOMAIN batch' = 1 .. k /\ \A i \in 1 .. k : batch'[i] = n + i
    BY <1>1, <1>2
  <2>2. ASSUME NEW x \in n + 1 .. n + k
        PROVE  x \in InBatch'
    <3>1. x - n \in 1 .. k /\ n + (x - n) = x
      BY <1>0, <1>3
    <3> QED
      BY <2>1, <3>1 DEF InBatch
  <2>3. ASSUME NEW x \in InBatch'
        PROVE  x \in n + 1 .. n + k
    <3>1. PICK i \in 1 .. k : x = n + i
      BY <2>1, <2>3 DEF InBatch
    <3> QED
      BY <3>1, <1>0, <1>3
  <2> QED
    BY <2>2, <2>3, Zenon
<1>7. /\ 1 .. n + k = (1 .. n) \cup (n + 1 .. n + k)
      /\ (1 .. n) \cap (n + 1 .. n + k) = {}
  BY <1>0, <1>3
<1>8. Parted(n + 1 .. n + k, Accepted, refused, failed, evicted, n + k)
  <2>1. Accepted \cup refused \cup failed \cup evicted = 1 .. n
    BY <1>4, <1>5 DEF Parted
  <2> QED
    BY <2>1, <1>4, <1>7 DEF Parted
<1>9. Accepted' = Accepted
  BY <1>1 DEF Accepted
<1> QED
  BY <1>1, <1>3, <1>6, <1>8, <1>9 DEF AccountInv

\* A posted batch goes to one place and items[] is empty.
LEMMA AccountPost ==
  ASSUME AccountInv, CountInv', PostAnswered \/ PostFailed
  PROVE  AccountInv'
<1>1. batch' = <<>> /\ UNCHANGED <<published, count, evicted>>
  BY DEF PostAnswered, PostFailed, queueVars
<1>2. InBatch' = {}
  BY <1>1 DEF InBatch
<1>3. Parted(InBatch, Accepted, refused, failed, evicted, published - count)
  BY DEF AccountInv
<1>4. \/ Accepted' = Accepted \cup InBatch /\ UNCHANGED <<refused, failed>>
      \/ refused' = refused \cup InBatch /\ UNCHANGED <<delivered, failed>>
      \/ failed' = failed \cup InBatch /\ UNCHANGED <<delivered, refused>>
  <2>1. batch \in Seq(Nat) /\ delivered \in Seq(Nat)
    BY DEF AccountInv, CountInv, RingInv
  <2>2. delivered' = delivered \o batch => Accepted' = Accepted \cup InBatch
    <3> SUFFICES ASSUME delivered' = delivered \o batch
                 PROVE  Accepted' = Accepted \cup InBatch
      OBVIOUS
    <3>1. Accepted' = {(delivered \o batch)[i] : i \in DOMAIN (delivered \o batch)}
      BY Zenon DEF Accepted
    <3> QED
      BY <2>1, <3>1, RangeOfConcat, Zenon DEF Accepted, InBatch
  <2> QED
    BY <2>2 DEF PostAnswered, PostFailed
<1>5. Parted(InBatch', Accepted', refused', failed', evicted', published - count)
  <2>1. CASE Accepted' = Accepted \cup InBatch /\ UNCHANGED <<refused, failed>>
    BY <1>1, <1>2, <1>3, <2>1 DEF Parted
  <2>2. CASE refused' = refused \cup InBatch /\ UNCHANGED <<delivered, failed>>
    <3>1. Accepted' = Accepted
      BY <2>2 DEF Accepted
    <3> QED
      BY <1>1, <1>2, <1>3, <2>2, <3>1 DEF Parted
  <2>3. CASE failed' = failed \cup InBatch /\ UNCHANGED <<delivered, refused>>
    <3>1. Accepted' = Accepted
      BY <2>3 DEF Accepted
    <3> QED
      BY <1>1, <1>2, <1>3, <2>3, <3>1 DEF Parted
  <2> QED
    BY <1>4, <2>1, <2>2, <2>3
<1> QED
  BY <1>1, <1>5 DEF AccountInv

\* Every step keeps the accounts in order.
LEMMA AccountStep == AccountInv /\ [Next]_vars => AccountInv'
<1> SUFFICES ASSUME AccountInv, [Next]_vars PROVE AccountInv'
  OBVIOUS
<1>0. CountInv'
  BY CountStep DEF AccountInv
<1>1. ASSUME UNCHANGED <<batch, historyVars, published>>, count' = count,
             thread' # "post" => thread # "post"
      PROVE  AccountInv'
  <2>1. InBatch' = InBatch /\ Accepted' = Accepted
    BY <1>1, Zenon DEF InBatch, Accepted, historyVars
  <2> QED
    BY <1>0, <1>1, <2>1 DEF AccountInv, historyVars
<1>2. CASE Publish
  BY <1>0, <1>2, AccountPublish
<1>3. CASE DrainBatch
  BY <1>0, <1>3, AccountDrain
<1>4. CASE PostAnswered \/ PostFailed
  BY <1>0, <1>4, AccountPost
<1>5. CASE InitQueue
  <2>1. count = 0 /\ count' = 0
    BY <1>5 DEF InitQueue, QueueReset, AccountInv, CountInv, RingInv
  <2> QED
    BY <1>1, <1>5, <2>1 DEF InitQueue, checkinVars
<1>6. CASE StartCheckin
  BY <1>1, <1>6 DEF StartCheckin, queueVars, AccountInv, CountInv, RingInv
<1>7. CASE Heartbeat \/ EndCycle \/ Wake
  BY <1>1, <1>7 DEF Heartbeat, EndCycle, Wake, queueVars
<1>8. CASE UNCHANGED vars
  BY <1>1, <1>8 DEF vars, queueVars, checkinVars
<1> QED
  BY <1>2, <1>3, <1>4, <1>5, <1>6, <1>7, <1>8 DEF Next, Main, Checkin

\* Every observation a module published is in exactly one place, whatever the
\* event loop, the check-in thread and the console do: nothing is lost without
\* being counted out of the ring or out of a batch, and nothing is in two places
\* at once (ps_obs_queue_push, ps_obs_queue_drain, ps_checkin_ship_observations).
THEOREM EveryItemAccounted == Spec => []Accounted
<1>1. AccountInv => Accounted
  <2> SUFFICES ASSUME AccountInv PROVE Accounted
    OBVIOUS
  <2> DEFINE n == published - count
             q == n + 1 .. published
  <2>0. /\ count \in Nat /\ published \in Nat /\ count <= published
        /\ \A i \in 1 .. count : Pending[i] = n + i
    BY DEF AccountInv, CountInv, RingInv, TypeOK, NewestWindow, Pending
  <2>1. InQueue = q
    <3>1. ASSUME NEW x \in InQueue
          PROVE  x \in q
      <4>1. PICK i \in 1 .. count : x = n + i
        BY <2>0, <3>1 DEF InQueue
      <4> QED
        BY <4>1, <2>0
    <3>2. ASSUME NEW x \in q
          PROVE  x \in InQueue
      <4>1. x - n \in 1 .. count /\ n + (x - n) = x
        BY <2>0
      <4> QED
        BY <4>1, <2>0 DEF InQueue
    <3> QED
      BY <3>1, <3>2, Zenon
  <2>2. n \in Nat /\ q \cup (1 .. n) = 1 .. published /\ q \cap (1 .. n) = {}
    BY <2>0
  <2>3. Parted(InBatch, Accepted, refused, failed, evicted, n)
    BY DEF AccountInv
  <2> HIDE DEF n, q
  <2> DEFINE p == << InQueue, InBatch, Accepted, refused, failed, evicted >>
  <2>4. /\ p[1] = InQueue /\ p[2] = InBatch /\ p[3] = Accepted
        /\ p[4] = refused /\ p[5] = failed /\ p[6] = evicted
    OBVIOUS
  <2>5. \A i, j \in 1 .. 6 : i # j => p[i] \cap p[j] = {}
    <3>1. /\ InQueue \cap InBatch = {} /\ InQueue \cap Accepted = {}
          /\ InQueue \cap refused = {} /\ InQueue \cap failed = {}
          /\ InQueue \cap evicted = {}
      BY <2>1, <2>2, <2>3 DEF Parted
    <3> HIDE DEF p
    <3>2. \A i \in 1 .. 6 : i = 1 \/ i = 2 \/ i = 3 \/ i = 4 \/ i = 5 \/ i = 6
      OBVIOUS
    <3> SUFFICES ASSUME NEW i \in 1 .. 6, NEW j \in 1 .. 6, i # j
                 PROVE  p[i] \cap p[j] = {}
      OBVIOUS
    <3>3. i = 1 \/ j = 1 => p[i] \cap p[j] = {}
      BY <3>1, <3>2, <2>4
    <3>4. i = 2 \/ j = 2 => p[i] \cap p[j] = {}
      BY <3>3, <3>2, <2>3, <2>4 DEF Parted
    <3>5. i = 3 \/ j = 3 => p[i] \cap p[j] = {}
      BY <3>3, <3>4, <3>2, <2>3, <2>4 DEF Parted
    <3>6. i = 4 \/ j = 4 => p[i] \cap p[j] = {}
      BY <3>3, <3>4, <3>5, <3>2, <2>3, <2>4 DEF Parted
    <3> QED
      BY <3>3, <3>4, <3>5, <3>6, <3>2, <2>3, <2>4 DEF Parted
  <2>6. UNION {p[i] : i \in 1 .. 6} = 1 .. published
    <3> HIDE DEF p
    <3>1. UNION {p[i] : i \in 1 .. 6}
            = InQueue \cup InBatch \cup Accepted \cup refused \cup failed \cup evicted
      BY <2>4
    <3> QED
      BY <2>1, <2>2, <2>3, <3>1 DEF Parted
  <2> QED
    BY <2>5, <2>6 DEF Accounted, Accepted
<1> QED
  BY <1>1, AccountInit, AccountStep, PTL DEF Spec
=============================================================================
