------------------------ MODULE StabilizedRedProofs ------------------------
(***************************************************************************)
(* Theorems about StabilizedRed, for every configuration its assumptions   *)
(* allow: any number of flows, sizes, zombies and arrivals.                *)
(***************************************************************************)
EXTENDS StabilizedRed, FiniteSetTheorems, WellFoundedInduction, TLAPS

-----------------------------------------------------------------------------
(* Counters and statistics *)

\* Adding an item keeps a counter pair well formed.
LEMMA PlusCounters ==
  ASSUME NEW c \in Counters, NEW item, item.size \in Nat
  PROVE  Plus(c, item) \in Counters
BY DEF Plus, Counters

\* The three operations on the statistics that an arrival may cause keep them
\* well formed.
LEMMA StatsTypes ==
  ASSUME NEW s \in Statistics, NEW item, item.size \in Nat, NEW r \in Reasons
  PROVE  /\ Received(s, item) \in Statistics
         /\ PacketEnqueued(s, item) \in Statistics
         /\ DropBeforeEnqueue(s, item, r) \in Statistics
<1>1. \A c \in Counters : Plus(c, item) \in Counters
  BY PlusCounters
<1>2. /\ s.stored \in Counters /\ s.received \in Counters
      /\ s.enqueued \in Counters /\ s.dequeued \in Counters
      /\ s.droppedBefore \in Counters /\ s.byReason \in [Reasons -> Nat]
  BY DEF Statistics
<1>3. Received(s, item) \in Statistics
  BY <1>1, <1>2 DEF Received, Statistics
<1>4. PacketEnqueued(s, item) \in Statistics
  BY <1>1, <1>2 DEF PacketEnqueued, Statistics
<1>5. DropBeforeEnqueue(s, item, r) \in Statistics
  <2> DEFINE reasons == [s.byReason EXCEPT ![r] = @ + 1]
  <2>1. reasons \in [Reasons -> Nat]
    BY <1>2
  <2>2. DropBeforeEnqueue(s, item, r) =
          [s EXCEPT !.droppedBefore = Plus(s.droppedBefore, item),
                    !.byReason = reasons]
    BY DEF DropBeforeEnqueue, Statistics
  <2> HIDE DEF reasons
  <2> QED
    BY <1>1, <1>2, <2>1, <2>2 DEF Statistics
<1> QED BY <1>3, <1>4, <1>5

\* The number of packets received that are neither enqueued nor dropped is one
\* between the moment Enqueue counts a packet and the moment it is stored or
\* refused; nothing else has changed by then.
OneShort(s) ==
  /\ s.droppedBefore.packets + s.enqueued.packets + 1 =
       s.received.packets + s.byReason["InvalidFlowID"]
  /\ s.stored = stats.stored
  /\ s.enqueued = stats.enqueued
  /\ s.dequeued = stats.dequeued

LEMMA CountedArrivalOneShort ==
  ASSUME stats \in Statistics, Accounting, NEW item, item.size \in Nat,
         NEW s, s = Received(stats, item) \/ s = CountedArrival(item)
  PROVE  s \in Statistics /\ OneShort(s)
<1> DEFINE r == Received(stats, item)
           d == DropBeforeEnqueue(r, item, "InvalidFlowID")
<1>1. "InvalidFlowID" \in Reasons
  BY DEF Reasons
<1>2. r \in Statistics /\ d \in Statistics
  BY <1>1, StatsTypes
<1>3. stats.received \in Counters /\ stats.droppedBefore \in Counters
      /\ stats.enqueued \in Counters /\ stats.byReason \in [Reasons -> Nat]
  BY DEF Statistics
<1>4. /\ r.received = Plus(stats.received, item)
      /\ r.droppedBefore = stats.droppedBefore /\ r.byReason = stats.byReason
      /\ r.stored = stats.stored /\ r.enqueued = stats.enqueued
      /\ r.dequeued = stats.dequeued
  BY DEF Received, Statistics
<1>5. OneShort(r)
  BY <1>1, <1>3, <1>4 DEF OneShort, Accounting, Plus, Counters
<1>6. /\ d.droppedBefore = Plus(r.droppedBefore, item)
      /\ d.byReason["InvalidFlowID"] = r.byReason["InvalidFlowID"] + 1
      /\ d.received = r.received /\ d.stored = r.stored
      /\ d.enqueued = r.enqueued /\ d.dequeued = r.dequeued
  BY <1>1, <1>2 DEF DropBeforeEnqueue, Statistics
<1>7. OneShort(d)
  BY <1>1, <1>2, <1>3, <1>4, <1>5, <1>6 DEF OneShort, Plus, Counters, Statistics
<1> HIDE DEF r, d
<1>8. s = r \/ s = d
  BY DEF CountedArrival, r, d
<1> QED BY <1>2, <1>5, <1>7, <1>8

-----------------------------------------------------------------------------
(* The byte ledger *)

\* Why the byte counters never go below zero: the bytes enqueued are those
\* dequeued and, one after the other, those of the packets still held.  ends[i]
\* is the number of bytes ever dequeued once the i-th packet held has left.
Ledger ==
  \E ends \in [0 .. Len(queue.items) -> Nat] :
    /\ ends[0] = stats.dequeued.bytes
    /\ ends[Len(queue.items)] = stats.enqueued.bytes
    /\ \A i \in 1 .. Len(queue.items) :
         ends[i] = ends[i - 1] + queue.items[i].size
    /\ \A i, j \in 0 .. Len(queue.items) : i <= j => ends[i] <= ends[j]

\* The part of the invariant that the operations common to both discs maintain.
BaseInv ==
  /\ queue \in Queues
  /\ stats \in Statistics
  /\ Accounting
  /\ CountersInStep
  /\ Ledger

\* Refusing a packet drops it and touches nothing else.
LEMMA RefuseKeepsBaseInv ==
  ASSUME BaseInv, NEW item, item.size \in Nat, NEW s \in Statistics, OneShort(s),
         NEW r \in Reasons \ {"InvalidFlowID"}, Refuse(item, s, r)
  PROVE  BaseInv'
<1>1. stats' \in Statistics
  BY StatsTypes DEF Refuse
<1>2. /\ stats'.droppedBefore = Plus(s.droppedBefore, item)
      /\ stats'.byReason["InvalidFlowID"] = s.byReason["InvalidFlowID"]
      /\ stats'.received = s.received /\ stats'.stored = s.stored
      /\ stats'.enqueued = s.enqueued /\ stats'.dequeued = s.dequeued
  BY DEF Refuse, DropBeforeEnqueue, Statistics, Reasons
<1>3. queue' = queue
  BY DEF Refuse
<1>4. Accounting'
  <2>1. stats'.stored = stats.stored /\ stats'.enqueued = stats.enqueued
        /\ stats'.dequeued = stats.dequeued
    BY <1>2 DEF OneShort
  <2>2. stats'.droppedBefore.packets = s.droppedBefore.packets + 1
    BY <1>2 DEF Plus
  <2>3. s.droppedBefore \in Counters /\ s.enqueued \in Counters
        /\ s.received \in Counters /\ s.byReason \in [Reasons -> Nat]
    BY DEF Statistics
  <2>4. s.byReason["InvalidFlowID"] \in Nat
    BY <2>3 DEF Reasons
  <2>5. stats'.droppedBefore.packets + stats'.enqueued.packets =
          stats'.received.packets + stats'.byReason["InvalidFlowID"]
    BY <1>2, <2>2, <2>3, <2>4 DEF OneShort, Counters
  <2> QED BY <2>1, <2>5 DEF Accounting, BaseInv
<1>5. CountersInStep'
  BY <1>2, <1>3 DEF BaseInv, CountersInStep, OneShort, Q!CurrentSize
<1>6. Ledger'
  BY <1>2, <1>3 DEF BaseInv, Ledger, OneShort
<1> QED BY <1>1, <1>3, <1>4, <1>5, <1>6 DEF BaseInv

\* Storing a packet appends its size to the ledger; when the internal queue
\* refuses it, the callback drops it.
LEMMA StoreKeepsBaseInv ==
  ASSUME BaseInv, NEW item \in Items, NEW s \in Statistics, OneShort(s),
         Store(item, s)
  PROVE  BaseInv'
<1> DEFINE n == Len(queue.items)
<1>1. queue.items \in Seq(Items) /\ queue.stored \in Counters
      /\ queue.discarded \in Nat /\ n \in Nat
  BY DEF BaseInv, Queues
<1>2. /\ s.stored \in Counters /\ s.received \in Counters
      /\ s.enqueued \in Counters /\ s.dequeued \in Counters
      /\ s.droppedBefore \in Counters /\ s.byReason \in [Reasons -> Nat]
      /\ s.byReason["InvalidFlowID"] \in Nat
  BY DEF Statistics, Reasons
<1>3. item.size \in Nat
  BY SizeAssumption DEF Items
<1>4. Plus(queue.stored, item) \in Counters
  BY <1>1, <1>3, PlusCounters
<1>5. CASE Q!HasRoomFor(queue, item)
  <2>1. /\ queue' = Q!Insert(queue, item)
        /\ stats' = PacketEnqueued(s, item)
    BY <1>5 DEF Store
  <2>2. /\ queue'.items = Append(queue.items, item)
        /\ queue'.stored = Plus(queue.stored, item)
        /\ queue'.discarded = queue.discarded
        /\ queue' \in Queues
    <3>1. Append(queue.items, item) \in Seq(Items)
      BY <1>1
    <3>2. queue' = [items |-> Append(queue.items, item),
                    stored |-> Plus(queue.stored, item),
                    discarded |-> queue.discarded]
      BY <2>1 DEF Q!Insert, Q!Plus, Plus, Queues, BaseInv
    <3> QED BY <1>1, <1>4, <3>1, <3>2 DEF Queues
  <2>3. /\ stats'.stored = Plus(s.stored, item)
        /\ stats'.enqueued = Plus(s.enqueued, item)
        /\ stats'.received = s.received /\ stats'.dequeued = s.dequeued
        /\ stats'.droppedBefore = s.droppedBefore
        /\ stats'.byReason = s.byReason
    BY <2>1 DEF PacketEnqueued, Statistics
  <2>4. stats' \in Statistics
    BY <1>3, <2>1, StatsTypes DEF Reasons
  <2>5. Accounting'
    <3>1. /\ stats'.enqueued.packets = s.enqueued.packets + 1
          /\ stats'.enqueued.bytes = s.enqueued.bytes + item.size
          /\ stats'.stored.packets = s.stored.packets + 1
          /\ stats'.stored.bytes = s.stored.bytes + item.size
      BY <2>3 DEF Plus
    <3>2. /\ s.stored.packets = s.enqueued.packets - s.dequeued.packets
          /\ s.stored.bytes = s.enqueued.bytes - s.dequeued.bytes
      BY DEF BaseInv, Accounting, OneShort
    <3>3. stats'.droppedBefore.packets + stats'.enqueued.packets =
            stats'.received.packets + stats'.byReason["InvalidFlowID"]
      BY <1>2, <2>3, <3>1 DEF OneShort, Counters
    <3>4. /\ stats'.stored.packets =
               stats'.enqueued.packets - stats'.dequeued.packets
          /\ stats'.stored.bytes =
               stats'.enqueued.bytes - stats'.dequeued.bytes
      BY <1>2, <1>3, <2>3, <3>1, <3>2 DEF Counters
    <3> QED BY <3>3, <3>4 DEF Accounting
  <2>6. CountersInStep'
    <3>1. stats'.stored = queue'.stored
      BY <2>2, <2>3 DEF BaseInv, CountersInStep, OneShort
    <3>2. queue'.stored.packets = Len(queue'.items)
      BY <1>1, <2>2 DEF BaseInv, CountersInStep, Plus
    <3>3. Q!CurrentSize(queue') <= MaxSize
      BY <1>5, <2>2 DEF Q!HasRoomFor, Q!CurrentSize, Plus
    <3>4. Q!CurrentSize(queue)' = Q!CurrentSize(queue')
      BY DEF Q!CurrentSize
    <3> QED BY <3>1, <3>2, <3>3, <3>4 DEF CountersInStep
  <2>7. Ledger'
    <3>1. PICK ends \in [0 .. n -> Nat] :
            /\ ends[0] = stats.dequeued.bytes
            /\ ends[n] = stats.enqueued.bytes
            /\ \A i \in 1 .. n : ends[i] = ends[i - 1] + queue.items[i].size
            /\ \A i, j \in 0 .. n : i <= j => ends[i] <= ends[j]
      BY DEF BaseInv, Ledger
    <3> DEFINE more == [i \in 0 .. n + 1 |->
                          IF i = n + 1 THEN ends[n] + item.size ELSE ends[i]]
    <3>2. more \in [0 .. n + 1 -> Nat]
      <4>1. n \in 0 .. n /\ ends[n] + item.size \in Nat
        BY <1>1, <1>3, <3>1
      <4>2. \A i \in 0 .. n + 1 : i = n + 1 \/ i \in 0 .. n
        BY <1>1
      <4> QED BY ONLY <3>1, <4>1, <4>2
    <3>3. Len(queue'.items) = n + 1
      BY <1>1, <2>2
    <3>4. more[0] = stats'.dequeued.bytes
      BY <1>1, <2>3, <3>1 DEF OneShort
    <3>5. more[n + 1] = stats'.enqueued.bytes
      BY <1>1, <2>3, <3>1 DEF OneShort, Plus
    <3>6. ASSUME NEW i \in 1 .. n + 1
          PROVE  more[i] = more[i - 1] + queue'.items[i].size
      <4>1. CASE i = n + 1
        BY <1>1, <2>2, <3>1, <4>1
      <4>2. CASE i \in 1 .. n
        BY <1>1, <2>2, <3>1, <4>2
      <4> QED BY <1>1, <4>1, <4>2
    <3>7. ASSUME NEW i \in 0 .. n + 1, NEW j \in 0 .. n + 1, i <= j
          PROVE  more[i] <= more[j]
      <4>1. CASE j = n + 1
        <5>1. i = n + 1 \/ i \in 0 .. n
          BY <1>1
        <5>2. CASE i \in 0 .. n
          <6>1. ends[i] <= ends[n]
            BY <1>1, <3>1, <5>2
          <6>2. more[i] = ends[i] /\ more[j] = ends[n] + item.size
            BY <1>1, <4>1, <5>2
          <6>3. ends[i] \in Nat /\ ends[n] \in Nat
            <7>1. n \in 0 .. n
              BY <1>1
            <7> QED BY <5>2, <7>1
          <6>4. ends[i] <= ends[n] + item.size
            BY <1>3, <6>1, <6>3
          <6> HIDE DEF more
          <6> QED BY <6>2, <6>4
        <5>3. CASE i = n + 1
          <6>1. i = j /\ more[j] \in Nat
            BY <1>1, <3>2, <4>1, <5>3
          <6> QED BY ONLY <6>1
        <5> QED BY <5>1, <5>2, <5>3
      <4>2. CASE j \in 0 .. n
        BY <1>1, <3>1, <3>7, <4>2
      <4> QED BY <1>1, <4>1, <4>2
    <3> HIDE DEF more
    <3> QED BY <3>2, <3>3, <3>4, <3>5, <3>6, <3>7 DEF Ledger
  <2> QED BY <2>2, <2>4, <2>5, <2>6, <2>7 DEF BaseInv
<1>6. CASE ~Q!HasRoomFor(queue, item)
  <2>1. /\ queue' = Q!Discard(queue)
        /\ stats' = DropBeforeEnqueue(s, item, "InternalQueue")
    BY <1>6 DEF Store
  <2>2. /\ queue'.items = queue.items /\ queue'.stored = queue.stored
        /\ queue' \in Queues
    BY <1>1, <2>1 DEF Q!Discard, Queues, BaseInv
  <2>3. /\ stats'.droppedBefore = Plus(s.droppedBefore, item)
        /\ stats'.byReason["InvalidFlowID"] = s.byReason["InvalidFlowID"]
        /\ stats'.received = s.received /\ stats'.stored = s.stored
        /\ stats'.enqueued = s.enqueued /\ stats'.dequeued = s.dequeued
    BY <2>1 DEF DropBeforeEnqueue, Statistics, Reasons
  <2>4. stats' \in Statistics
    BY <1>3, <2>1, StatsTypes DEF Reasons
  <2>5. Accounting'
    <3>1. stats'.droppedBefore.packets = s.droppedBefore.packets + 1
      BY <2>3 DEF Plus
    <3>2. stats'.droppedBefore.packets + stats'.enqueued.packets =
            stats'.received.packets + stats'.byReason["InvalidFlowID"]
      BY <1>2, <2>3, <3>1 DEF OneShort, Counters
    <3> QED BY <2>3, <3>2 DEF Accounting, BaseInv, OneShort
  <2>6. CountersInStep'
    BY <2>2, <2>3 DEF BaseInv, CountersInStep, OneShort, Q!CurrentSize
  <2>7. Ledger'
    BY <2>2, <2>3 DEF BaseInv, Ledger, OneShort
  <2> QED BY <2>2, <2>4, <2>5, <2>6, <2>7 DEF BaseInv
<1> QED BY <1>5, <1>6

\* Taking the head shifts the ledger by one; the ledger is what shows that the
\* byte counters can pay for it.
LEMMA TakeHeadKeepsBaseInv ==
  ASSUME BaseInv, TakeHead
  PROVE  BaseInv'
<1> DEFINE n == Len(queue.items)
           head == Head(queue.items)
<1>1. queue.items \in Seq(Items) /\ queue.stored \in Counters
      /\ queue.discarded \in Nat /\ n \in Nat
  BY DEF BaseInv, Queues
<1>2. n > 0 /\ head \in Items /\ head = queue.items[1]
  BY <1>1 DEF TakeHead
<1>3. head.size \in Nat
  BY <1>2, SizeAssumption DEF Items
<1>4. PICK ends \in [0 .. n -> Nat] :
        /\ ends[0] = stats.dequeued.bytes
        /\ ends[n] = stats.enqueued.bytes
        /\ \A i \in 1 .. n : ends[i] = ends[i - 1] + queue.items[i].size
        /\ \A i, j \in 0 .. n : i <= j => ends[i] <= ends[j]
  BY DEF BaseInv, Ledger
<1>5. stats.stored = queue.stored /\ queue.stored.packets = n
  BY DEF BaseInv, CountersInStep
<1>6. stats.enqueued \in Counters /\ stats.dequeued \in Counters
      /\ stats.received \in Counters /\ stats.droppedBefore \in Counters
      /\ stats.byReason \in [Reasons -> Nat]
  BY DEF BaseInv, Statistics
<1>7. Minus(queue.stored, head) \in Counters
  <2>1. queue.stored.packets - 1 \in Nat
    BY <1>1, <1>2, <1>5
  <2>2. ends[0] \in Nat /\ ends[1] \in Nat /\ ends[n] \in Nat
    <3>1. 0 \in 0 .. n /\ 1 \in 0 .. n /\ n \in 0 .. n
      BY <1>1, <1>2
    <3> QED BY <3>1
  <2>3. ends[1] = ends[0] + head.size /\ ends[1] <= ends[n]
    BY <1>1, <1>2, <1>4
  <2>4. queue.stored.bytes = ends[n] - ends[0]
    BY <1>4, <1>5 DEF BaseInv, Accounting
  <2>5. queue.stored.bytes - head.size \in Nat
    BY <1>3, <2>2, <2>3, <2>4
  <2> QED BY <2>1, <2>5 DEF Minus, Counters
<1>8. /\ queue' = [items |-> Tail(queue.items),
                   stored |-> Minus(queue.stored, head),
                   discarded |-> queue.discarded]
      /\ stats' = PacketDequeued(stats, head)
  BY DEF TakeHead, Q!RemoveHead, Q!Minus, Minus, BaseInv, Queues
<1>9. Tail(queue.items) \in Seq(Items) /\ Len(Tail(queue.items)) = n - 1
      /\ \A i \in 1 .. n - 1 : Tail(queue.items)[i] = queue.items[i + 1]
  BY <1>1, <1>2
<1>10. queue' \in Queues /\ Len(queue'.items) = n - 1
  BY <1>1, <1>7, <1>8, <1>9 DEF Queues
<1>11. /\ stats'.stored = Minus(stats.stored, head)
       /\ stats'.dequeued = Plus(stats.dequeued, head)
       /\ stats'.received = stats.received /\ stats'.enqueued = stats.enqueued
       /\ stats'.droppedBefore = stats.droppedBefore
       /\ stats'.byReason = stats.byReason
  BY <1>8 DEF PacketDequeued, Statistics, BaseInv
<1>12. stats' \in Statistics
  <2>1. Plus(stats.dequeued, head) \in Counters
    BY <1>3, <1>6, PlusCounters
  <2> QED
    BY <1>5, <1>6, <1>7, <1>8, <2>1 DEF PacketDequeued, Statistics, BaseInv
<1>13. Accounting'
  <2>1. /\ stats'.stored.packets = stats.stored.packets - 1
        /\ stats'.stored.bytes = stats.stored.bytes - head.size
        /\ stats'.dequeued.packets = stats.dequeued.packets + 1
        /\ stats'.dequeued.bytes = stats.dequeued.bytes + head.size
    BY <1>11 DEF Plus, Minus
  <2>2. /\ stats.stored.packets =
             stats.enqueued.packets - stats.dequeued.packets
        /\ stats.stored.bytes = stats.enqueued.bytes - stats.dequeued.bytes
    BY DEF BaseInv, Accounting
  <2>3. /\ stats'.stored.packets =
             stats'.enqueued.packets - stats'.dequeued.packets
        /\ stats'.stored.bytes = stats'.enqueued.bytes - stats'.dequeued.bytes
    <3>1. /\ stats.enqueued.packets \in Nat /\ stats.enqueued.bytes \in Nat
          /\ stats.dequeued.packets \in Nat /\ stats.dequeued.bytes \in Nat
      BY <1>6 DEF Counters
    <3>2. stats'.enqueued = stats.enqueued
      BY <1>11
    <3> HIDE DEF head
    <3>3. \A e, d, k \in Int : (e - d) - k = e - (d + k)
      OBVIOUS
    <3>4. stats'.stored.packets =
            stats.enqueued.packets - (stats.dequeued.packets + 1)
      <4>1. stats'.stored.packets =
              (stats.enqueued.packets - stats.dequeued.packets) - 1
        BY <2>1, <2>2
      <4> QED BY <3>1, <3>3, <4>1
    <3>5. stats'.stored.bytes =
            stats.enqueued.bytes - (stats.dequeued.bytes + head.size)
      <4>1. stats'.stored.bytes =
              (stats.enqueued.bytes - stats.dequeued.bytes) - head.size
        BY <2>1, <2>2
      <4> QED BY <1>3, <3>1, <3>3, <4>1
    <3> QED BY <2>1, <3>2, <3>4, <3>5
  <2>4. stats'.droppedBefore.packets + stats'.enqueued.packets =
          stats'.received.packets + stats'.byReason["InvalidFlowID"]
    BY <1>11 DEF BaseInv, Accounting
  <2> QED BY <2>3, <2>4 DEF Accounting
<1>14. CountersInStep'
  <2>1. stats'.stored = queue'.stored
    BY <1>5, <1>8, <1>11
  <2>2. queue'.stored.packets = Len(queue'.items)
    BY <1>1, <1>5, <1>8, <1>10 DEF Minus
  <2>3. Q!CurrentSize(queue') <= MaxSize
    <3>1. Q!CurrentSize(queue) <= MaxSize
      BY DEF BaseInv, CountersInStep
    <3>2. /\ queue'.stored.packets = queue.stored.packets - 1
          /\ queue'.stored.bytes = queue.stored.bytes - head.size
          /\ queue.stored.packets \in Nat /\ queue.stored.bytes \in Nat
      BY <1>1, <1>8 DEF Minus, Counters
    <3>3. MaxSize \in Nat
      BY SizeAssumption
    <3> QED BY <1>3, <3>1, <3>2, <3>3 DEF Q!CurrentSize
  <2>4. Q!CurrentSize(queue)' = Q!CurrentSize(queue')
    BY DEF Q!CurrentSize
  <2> QED BY <2>1, <2>2, <2>3, <2>4 DEF CountersInStep
<1>15. Ledger'
  <2> DEFINE rest == [i \in 0 .. n - 1 |-> ends[i + 1]]
  <2>1. rest \in [0 .. n - 1 -> Nat]
    BY <1>1, <1>2
  <2>2. rest[0] = stats'.dequeued.bytes
    <3>1. ends[1] = ends[0] + head.size
      BY <1>1, <1>2, <1>4
    <3>2. rest[0] = ends[1]
      BY <1>1, <1>2
    <3> QED BY <1>4, <1>11, <3>1, <3>2 DEF Plus
  <2>3. rest[n - 1] = stats'.enqueued.bytes
    BY <1>1, <1>2, <1>4, <1>11
  <2>4. \A i \in 1 .. n - 1 : rest[i] = rest[i - 1] + queue'.items[i].size
    <3> SUFFICES ASSUME NEW i \in 1 .. n - 1
                 PROVE  rest[i] = rest[i - 1] + queue'.items[i].size
      OBVIOUS
    <3>1. queue'.items[i] = queue.items[i + 1]
      BY <1>8, <1>9
    <3>2. rest[i] = ends[i + 1] /\ rest[i - 1] = ends[i]
      BY <1>1
    <3>3. ends[i + 1] = ends[i] + queue.items[i + 1].size
      <4>1. i + 1 \in 1 .. n /\ (i + 1) - 1 = i
        BY <1>1
      <4> QED BY <1>4, <4>1
    <3> QED BY <3>1, <3>2, <3>3
  <2>5. \A i, j \in 0 .. n - 1 : i <= j => rest[i] <= rest[j]
    BY <1>1, <1>4
  <2> HIDE DEF rest
  <2> QED BY <1>10, <2>1, <2>2, <2>3, <2>4, <2>5 DEF Ledger
<1> QED BY <1>10, <1>12, <1>13, <1>14, <1>15 DEF BaseInv

-----------------------------------------------------------------------------
(* The hit frequency *)

\* The exponential average of zeros and ones stays between zero and one.
LEMMA HitFreqRange ==
  ASSUME NEW h \in 0 .. HitScale, NEW hit \in {0, 1}
  PROVE  UpdatedHitFreq(h, hit) \in 0 .. HitScale
<1> DEFINE decay == (h * Alpha) \div HitScale
<1>1. HitScale \in Nat /\ HitScale > 0 /\ Alpha \in 0 .. HitScale
  BY AlphaAssumption DEF HitScale
<1>2. h * Alpha \in Nat
  BY <1>1
<1>3. /\ decay \in Int
      /\ HitScale * decay <= h * Alpha
      /\ h * Alpha < HitScale * decay + HitScale
  BY <1>1, <1>2
<1>4. h * Alpha <= HitScale * h
  BY <1>1
<1> HIDE DEF decay
<1>5. decay >= 0 /\ decay <= h
  <2>1. CASE decay < 0
    <3>1. HitScale * decay <= -HitScale
      BY <1>1, <1>3, <2>1
    <3> QED BY <1>1, <1>2, <1>3, <3>1
  <2>2. CASE decay > h
    <3>1. HitScale * decay >= HitScale * h + HitScale
      BY <1>1, <1>3, <2>2
    <3> QED BY <1>1, <1>2, <1>3, <1>4, <3>1
  <2> QED BY <1>1, <1>3, <2>1, <2>2
<1>6. h - decay + Alpha <= HitScale
  <2>1. CASE decay + 1 <= h + Alpha - HitScale
    <3> DEFINE a == HitScale - Alpha
               b == HitScale - h
    <3>1. a * b >= 0
      BY <1>1
    <3>2. h * Alpha = HitScale * (h + Alpha - HitScale) + a * b
      BY <1>1
    <3>3. HitScale * (decay + 1) <= HitScale * (h + Alpha - HitScale)
      BY <1>1, <1>3, <2>1
    <3>4. HitScale * (decay + 1) = HitScale * decay + HitScale
      BY <1>1, <1>3
    <3> HIDE DEF a, b
    <3> QED BY <1>1, <1>2, <1>3, <3>1, <3>2, <3>3, <3>4
  <2> QED BY <1>1, <1>3, <2>1
<1>7. UpdatedHitFreq(h, hit) = h - decay + Alpha * hit
  BY DEF UpdatedHitFreq, decay
<1> QED BY <1>1, <1>3, <1>5, <1>6, <1>7

-----------------------------------------------------------------------------
(* Sums *)

\* A set of natural numbers that is not empty has a least one: what stands for
\* induction below.
LEMMA LeastNumber ==
  ASSUME NEW T, T \subseteq Nat, T # {}
  PROVE  \E m \in T : \A k \in T : m <= k
<1>1. PICK m \in T : \A k \in T : <<k, m>> \notin OpToRel(<, Nat)
  BY NatLessThanWellFounded, WFMin
<1>2. ASSUME NEW k \in T PROVE m <= k
  <2>1. ~(k < m)
    BY <1>1 DEF OpToRel
  <2> QED BY <2>1
<1> QED BY <1>2

\* Numbers p[0], ..., p[n] that grow by w[1], ..., w[n] from zero are the partial
\* sums, so that the last one is the sum.
LEMMA SumIs ==
  ASSUME NEW n \in Nat, NEW w, NEW p \in [0 .. n -> Int],
         p[0] = 0, \A i \in 1 .. n : p[i] = p[i - 1] + w[i]
  PROVE  SumUpTo(w, n) = p[n]
<1> DEFINE F(s) == [i \in 0 .. n |-> IF i = 0 THEN 0 ELSE s[i - 1] + w[i]]
           sum == CHOOSE s : s = F(s)
<1>1. p = F(p)
  <2>1. \A i \in 0 .. n : i = 0 \/ i \in 1 .. n
    OBVIOUS
  <2> QED BY <2>1
<1>2. sum = F(sum)
  BY <1>1
<1>3. SumUpTo(w, n) = sum[n]
  BY DEF SumUpTo
<1> HIDE DEF sum
<1> DEFINE T == {i \in 0 .. n : sum[i] # p[i]}
<1>4. ASSUME T # {} PROVE FALSE
  <2>1. PICK m \in T : \A k \in T : m <= k
    <3>1. T \subseteq Nat
      OBVIOUS
    <3> HIDE DEF T
    <3> QED BY <1>4, <3>1, LeastNumber
  <2>2. m \in 0 .. n /\ sum[m] # p[m]
    OBVIOUS
  <2>3. m # 0
    BY <1>1, <1>2, <2>2
  <2>4. m - 1 \in 0 .. n /\ m - 1 \notin T
    BY <2>1, <2>2, <2>3
  <2>5. sum[m - 1] = p[m - 1]
    BY <2>4
  <2>6. sum[m] = sum[m - 1] + w[m] /\ p[m] = p[m - 1] + w[m]
    BY <1>2, <2>2, <2>3
  <2> QED BY <2>2, <2>5, <2>6
<1> QED BY <1>3, <1>4

\* The sum obeys the recursion it is defined by: its partial sums exist.
LEMMA SumRec ==
  ASSUME NEW n \in Nat, NEW w, \A i \in 1 .. n : w[i] \in Int
  PROVE  /\ SumUpTo(w, 0) = 0
         /\ \A i \in 0 .. n : SumUpTo(w, i) \in Int
         /\ \A i \in 1 .. n : SumUpTo(w, i) = SumUpTo(w, i - 1) + w[i]
<1> DEFINE Sums(p, m) == /\ p \in [0 .. m -> Int] /\ p[0] = 0
                         /\ \A i \in 1 .. m : p[i] = p[i - 1] + w[i]
           T == {m \in 0 .. n : ~ \E p : Sums(p, m)}
<1>1. ASSUME T # {} PROVE FALSE
  <2>1. PICK m \in T : \A k \in T : m <= k
    <3>1. T \subseteq Nat
      OBVIOUS
    <3> HIDE DEF T
    <3> QED BY <1>1, <3>1, LeastNumber
  <2>2. m \in 0 .. n
    OBVIOUS
  <2>3. m # 0
    <3>1. Sums([i \in 0 .. 0 |-> 0], 0)
      OBVIOUS
    <3> QED BY <3>1
  <2>4. m - 1 \in 0 .. n /\ m - 1 \notin T
    <3>1. m - 1 \in 0 .. n /\ ~(m <= m - 1)
      BY <2>2, <2>3
    <3> HIDE DEF T
    <3> QED BY <2>1, <3>1
  <2>5. PICK p : Sums(p, m - 1)
    BY <2>4
  <2> DEFINE q == [i \in 0 .. m |-> IF i = m THEN p[m - 1] + w[m] ELSE p[i]]
  <2>6. q \in [0 .. m -> Int]
    <3>1. \A i \in 0 .. m : i = m \/ i \in 0 .. m - 1
      BY <2>2
    <3>2. m - 1 \in 0 .. m - 1 /\ w[m] \in Int
      BY <2>2, <2>3
    <3> QED BY <2>5, <3>1, <3>2
  <2>7. q[0] = 0
    BY <2>2, <2>3, <2>5
  <2>8. ASSUME NEW i \in 1 .. m PROVE q[i] = q[i - 1] + w[i]
    BY <2>2, <2>3, <2>5
  <2>9. Sums(q, m)
    BY <2>6, <2>7, <2>8
  <2> QED BY <2>9
<1>2. PICK p : Sums(p, n)
  BY <1>1
<1>3. ASSUME NEW i \in 0 .. n
      PROVE  SumUpTo(w, i) = p[i]
  <2> DEFINE q == [j \in 0 .. i |-> p[j]]
  <2>1. /\ q \in [0 .. i -> Int] /\ q[0] = 0
        /\ \A j \in 1 .. i : q[j] = q[j - 1] + w[j]
    BY <1>2
  <2>2. q[i] = p[i]
    OBVIOUS
  <2>3. i \in Nat
    OBVIOUS
  <2> HIDE DEF q
  <2> QED BY ONLY <2>1, <2>2, <2>3, SumIs
<1> QED BY <1>2, <1>3

\* One more term.
LEMMA SumAppend ==
  ASSUME NEW n \in Nat, NEW w, NEW v, \A i \in 1 .. n : w[i] \in Int,
         \A i \in 1 .. n : v[i] = w[i], v[n + 1] \in Int
  PROVE  SumUpTo(v, n + 1) = SumUpTo(w, n) + v[n + 1]
<1>1. /\ SumUpTo(w, 0) = 0
      /\ \A i \in 0 .. n : SumUpTo(w, i) \in Int
      /\ \A i \in 1 .. n : SumUpTo(w, i) = SumUpTo(w, i - 1) + w[i]
  BY SumRec
<1> DEFINE p == [i \in 0 .. n + 1 |-> IF i = n + 1 THEN SumUpTo(w, n) + v[n + 1]
                                                  ELSE SumUpTo(w, i)]
<1>2. \A i \in 0 .. n + 1 : i = n + 1 \/ i \in 0 .. n
  OBVIOUS
<1>3. n \in 0 .. n /\ n + 1 \in Nat /\ 0 # n + 1
  OBVIOUS
<1>4. p \in [0 .. n + 1 -> Int] /\ p[0] = 0
  BY <1>1, <1>2, <1>3
<1>5. ASSUME NEW i \in 1 .. n + 1 PROVE p[i] = p[i - 1] + v[i]
  <2>1. CASE i = n + 1
    BY <1>1, <2>1
  <2>2. CASE i \in 1 .. n
    <3>1. i # n + 1 /\ i - 1 # n + 1 /\ i \in 0 .. n + 1 /\ i - 1 \in 0 .. n + 1
      BY <2>2
    <3>2. p[i] = SumUpTo(w, i) /\ p[i - 1] = SumUpTo(w, i - 1)
      BY <3>1
    <3> QED BY <1>1, <2>2, <3>2
  <2> QED BY <2>1, <2>2
<1>6. p[n + 1] = SumUpTo(w, n) + v[n + 1]
  OBVIOUS
<1> HIDE DEF p
<1> QED BY ONLY <1>3, <1>4, <1>5, <1>6, SumIs

\* One term changed.
LEMMA SumChange ==
  ASSUME NEW n \in Nat, NEW w, NEW v, NEW k \in 1 .. n,
         \A i \in 1 .. n : w[i] \in Int,
         \A i \in 1 .. n : i # k => v[i] = w[i], v[k] \in Int
  PROVE  SumUpTo(v, n) = SumUpTo(w, n) + (v[k] - w[k])
<1>1. /\ SumUpTo(w, 0) = 0
      /\ \A i \in 0 .. n : SumUpTo(w, i) \in Int
      /\ \A i \in 1 .. n : SumUpTo(w, i) = SumUpTo(w, i - 1) + w[i]
  BY SumRec
<1> DEFINE d == v[k] - w[k]
           p == [i \in 0 .. n |-> IF i < k THEN SumUpTo(w, i)
                                          ELSE SumUpTo(w, i) + d]
<1>2. d \in Int /\ w[k] \in Int /\ v[k] = w[k] + d
  OBVIOUS
<1>3. p[n] = SumUpTo(w, n) + d /\ p[0] = 0
  BY <1>1
<1> HIDE DEF d
<1>4. p \in [0 .. n -> Int]
  BY <1>1, <1>2
<1>5. ASSUME NEW i \in 1 .. n PROVE p[i] = p[i - 1] + v[i]
  <2>1. /\ i \in 0 .. n /\ i - 1 \in 0 .. n /\ i \in Int /\ k \in Int
        /\ SumUpTo(w, i - 1) \in Int /\ w[i] \in Int
        /\ SumUpTo(w, i) = SumUpTo(w, i - 1) + w[i]
    BY <1>1
  <2>2. CASE i < k
    <3>1. p[i] = SumUpTo(w, i) /\ p[i - 1] = SumUpTo(w, i - 1)
      BY <2>1, <2>2
    <3> QED BY <2>1, <2>2, <3>1
  <2>3. CASE i = k
    <3>1. p[i] = SumUpTo(w, i) + d /\ p[i - 1] = SumUpTo(w, i - 1)
      BY <2>1, <2>3
    <3> QED BY <1>2, <2>1, <2>3, <3>1
  <2>4. CASE i > k
    <3>1. p[i] = SumUpTo(w, i) + d /\ p[i - 1] = SumUpTo(w, i - 1) + d
      BY <2>1, <2>4
    <3>2. v[i] = w[i]
      BY <2>4
    <3> QED BY <1>2, <2>1, <3>1, <3>2
  <2> QED BY <2>1, <2>2, <2>3, <2>4
<1> HIDE DEF p
<1>6. SumUpTo(v, n) = p[n]
  BY ONLY n \in Nat, <1>3, <1>4, <1>5, SumIs
<1> QED BY <1>3, <1>6 DEF d

-----------------------------------------------------------------------------
(* The inductive invariant *)

\* TypeOK alone is not inductive: that the counters stay natural numbers when a
\* packet leaves needs the counters in step with the contents, and the ledger.
IInv == TypeOK /\ BaseInv

LEMMA InitIInv == Init => IInv
<1> SUFFICES ASSUME Init PROVE IInv
  OBVIOUS
<1> USE DEF Init, BaseInit
<1>1. NoItems \in Counters /\ Q!NoItems = NoItems
  BY DEF NoItems, Q!NoItems, Counters
<1>2. queue \in Queues
  BY <1>1 DEF Q!EmptyQueue, Queues
<1>3. stats \in Statistics
  BY <1>1 DEF ZeroStats, Statistics
<1>4. TypeOK
  <2>1. p_hitFreq \in 0 .. HitScale
    BY AlphaAssumption DEF HitScale
  <2>2. Len(zombies) <= MaxZombies
    BY AlphaAssumption
  <2>3. nArrived \in 0 .. MaxArrivals /\ lost \subseteq 1 .. MaxArrivals
    BY SizeAssumption
  <2> QED BY <1>2, <1>3, <2>1, <2>2, <2>3 DEF TypeOK
<1>5. Accounting
  BY DEF Accounting, ZeroStats, NoItems, Reasons
<1>6. CountersInStep
  <2>1. Q!CurrentSize(queue) = 0
    BY DEF Q!CurrentSize, Q!EmptyQueue, Q!NoItems
  <2> QED
    BY <1>1, <2>1, SizeAssumption
       DEF CountersInStep, ZeroStats, Q!EmptyQueue, Q!NoItems
<1>7. Ledger
  <2> DEFINE ends == [i \in 0 .. 0 |-> 0]
  <2>1. Len(queue.items) = 0
    BY DEF Q!EmptyQueue
  <2>2. ends \in [0 .. 0 -> Nat] /\ ends[0] = 0
    OBVIOUS
  <2>3. stats.dequeued.bytes = 0 /\ stats.enqueued.bytes = 0
    BY DEF ZeroStats, NoItems
  <2>4. \A i, j \in 0 .. 0 : ends[i] <= ends[j]
    OBVIOUS
  <2> HIDE DEF ends
  <2> QED BY <2>1, <2>2, <2>3, <2>4 DEF Ledger
<1> QED BY <1>2, <1>3, <1>4, <1>5, <1>6, <1>7 DEF IInv, BaseInv

\* A packet that reaches Enqueue is well formed and is counted for its flow.
LEMMA ArrivesType ==
  ASSUME TypeOK, NEW hash \in Hashes, NEW size \in Sizes,
         Arrives(Packet(hash, size))
  PROVE  /\ Packet(hash, size) \in Items
         /\ Packet(hash, size).size \in Nat
         /\ nArrived' \in 0 .. MaxArrivals
         /\ arrivals' \in [FlowIDs -> Nat]
<1> DEFINE item == Packet(hash, size)
<1>1. item.uid = nArrived + 1 /\ item.flow = AsInt32(hash) /\ item.size = size
  BY DEF Packet
<1>2. nArrived \in 0 .. MaxArrivals /\ MaxArrivals \in Nat /\ size \in Nat
  BY SizeAssumption DEF TypeOK
<1>3. nArrived + 1 \in 1 .. MaxArrivals /\ nArrived' = nArrived + 1
  BY <1>2 DEF Arrives
<1>4. AsInt32(hash) \in FlowIDs
  BY DEF FlowIDs
<1>5. arrivals' \in [FlowIDs -> Nat]
  BY <1>1, <1>4 DEF Arrives, TypeOK
<1> QED BY <1>1, <1>2, <1>3, <1>4, <1>5 DEF Packet, Items

\* Either end of DoEnqueue stores the packet or refuses it for a reason that is
\* not the invalid flow identifier.
LEMMA EndKeepsBaseInv ==
  ASSUME BaseInv, NEW item \in Items, item.size \in Nat,
         NEW s \in Statistics, OneShort(s),
         \/ Store(item, s)
         \/ \E r \in Reasons \ {"InvalidFlowID"} : Refuse(item, s, r)
  PROVE  /\ BaseInv'
         /\ lost' \subseteq lost \cup {item.uid}
         /\ delivered' = delivered
<1>1. CASE Store(item, s)
  BY <1>1, StoreKeepsBaseInv DEF Store
<1>2. CASE \E r \in Reasons \ {"InvalidFlowID"} : Refuse(item, s, r)
  BY <1>2, RefuseKeepsBaseInv DEF Refuse
<1> QED BY <1>1, <1>2

\* The list and the frequency keep their types whatever the draw.
LEMMA ZombiesType ==
  ASSUME TypeOK, NEW item \in Items,
         \/ Remember(item)
         \/ \E index \in DOMAIN zombies : Hit(item, index) \/ Miss(item, index)
  PROVE  /\ zombies' \in Seq([flowID : FlowIDs, count : Nat])
         /\ Len(zombies') <= MaxZombies
         /\ p_hitFreq' \in 0 .. HitScale
<1> DEFINE Z == [flowID : FlowIDs, count : Nat]
<1>1. zombies \in Seq(Z) /\ Len(zombies) <= MaxZombies /\ Len(zombies) \in Nat
      /\ p_hitFreq \in 0 .. HitScale /\ MaxZombies \in Nat
  BY AlphaAssumption DEF TypeOK
<1>2. Zombie(item.flow) \in Z
  BY DEF Zombie, Items
<1>3. CASE Remember(item)
  BY <1>1, <1>2, <1>3 DEF Remember
<1>4. ASSUME NEW index \in DOMAIN zombies, Hit(item, index)
      PROVE  /\ zombies' \in Seq(Z) /\ Len(zombies') <= MaxZombies
             /\ p_hitFreq' \in 0 .. HitScale
  <2>1. p_hitFreq' \in 0 .. HitScale
    BY <1>1, <1>4, HitFreqRange DEF Hit
  <2>2. zombies[index] \in Z
    <3>1. index \in 1 .. Len(zombies)
      BY <1>1
    <3>2. zombies \in Seq(Z)
      BY <1>1
    <3> HIDE DEF Z
    <3> QED BY <3>1, <3>2
  <2>3. [zombies[index] EXCEPT !.count = @ + 1] \in Z
    BY <2>2
  <2>4. zombies' = [zombies EXCEPT ![index] =
                      [zombies[index] EXCEPT !.count = @ + 1]]
    BY <1>1, <1>4 DEF Hit
  <2> QED BY <1>1, <2>1, <2>3, <2>4
<1>5. ASSUME NEW index \in DOMAIN zombies, Miss(item, index)
      PROVE  /\ zombies' \in Seq(Z) /\ Len(zombies') <= MaxZombies
             /\ p_hitFreq' \in 0 .. HitScale
  <2>1. p_hitFreq' \in 0 .. HitScale
    BY <1>1, <1>5, HitFreqRange DEF Miss
  <2>2. zombies' = [zombies EXCEPT ![index] = Zombie(item.flow)]
        \/ zombies' = zombies
    BY <1>5 DEF Miss
  <2> QED BY <1>1, <1>2, <2>1, <2>2
<1> QED BY <1>3, <1>4, <1>5

\* Every step keeps the invariant, whatever the filters, the draws and the room.
LEMMA NextIInv == IInv /\ [Next]_vars => IInv'
<1> SUFFICES ASSUME IInv, [Next]_vars PROVE IInv'
  OBVIOUS
<1>1. TypeOK /\ BaseInv
  BY DEF IInv
<1>2. ASSUME NEW hash \in Hashes, NEW size \in Sizes,
             Enqueue(Packet(hash, size))
      PROVE  IInv'
  <2> DEFINE item == Packet(hash, size)
             c == CountedArrival(item)
  <2>1. Arrives(item)
    BY <1>2 DEF Enqueue, EnqueueNoMatch, EnqueueWarmUp, EnqueueSteady
  <2>2. /\ item \in Items /\ item.size \in Nat
        /\ nArrived' \in 0 .. MaxArrivals
        /\ arrivals' \in [FlowIDs -> Nat]
    BY <1>1, <2>1, ArrivesType
  <2> HIDE DEF item
  <2>3. /\ Received(stats, item) \in Statistics
        /\ OneShort(Received(stats, item))
        /\ c \in Statistics /\ OneShort(c)
    BY <1>1, <2>2, CountedArrivalOneShort DEF BaseInv
  <2> HIDE DEF c
  <2>4. {"NoMatch", "QUEUE_OVERFLOW", "Zap", "Overflow"}
          \subseteq Reasons \ {"InvalidFlowID"}
    BY DEF Reasons
  <2>5. \/ /\ Refuse(item, Received(stats, item), "NoMatch")
           /\ UNCHANGED <<zombies, p_hitFreq>>
        \/ /\ Remember(item)
           /\ Store(item, c) \/ Refuse(item, c, "QUEUE_OVERFLOW")
        \/ /\ \E index \in DOMAIN zombies :
                Hit(item, index) \/ Miss(item, index)
           /\ \/ Store(item, c)
              \/ Refuse(item, c, "Zap") \/ Refuse(item, c, "Overflow")
    BY <1>2 DEF Enqueue, EnqueueNoMatch, EnqueueWarmUp, EnqueueSteady,
                WarmUpEnd, SteadyEnd, item, c
  <2>6. BaseInv' /\ lost' \subseteq lost \cup {item.uid}
        /\ delivered' = delivered
    BY <1>1, <2>2, <2>3, <2>4, <2>5, EndKeepsBaseInv
  <2>7. /\ zombies' \in Seq([flowID : FlowIDs, count : Nat])
        /\ Len(zombies') <= MaxZombies
        /\ p_hitFreq' \in 0 .. HitScale
    <3>1. CASE UNCHANGED <<zombies, p_hitFreq>>
      BY <1>1, <3>1 DEF TypeOK
    <3>2. CASE \/ Remember(item)
               \/ \E index \in DOMAIN zombies :
                    Hit(item, index) \/ Miss(item, index)
      BY <1>1, <2>2, <3>2, ZombiesType
    <3> QED BY <2>5, <3>1, <3>2
  <2>8. lost' \subseteq 1 .. MaxArrivals
    BY <1>1, <2>2, <2>6 DEF TypeOK, Items
  <2>9. delivered' \in Seq(1 .. MaxArrivals)
    BY <1>1, <2>6 DEF TypeOK
  <2> QED BY <2>2, <2>6, <2>7, <2>8, <2>9 DEF IInv, TypeOK, BaseInv
<1>3. CASE Dequeue
  <2>1. BaseInv'
    BY <1>1, <1>3, TakeHeadKeepsBaseInv DEF Dequeue
  <2>2. delivered' \in Seq(1 .. MaxArrivals)
    <3>1. Head(queue.items) \in Items
      BY <1>1, <1>3 DEF Dequeue, TakeHead, BaseInv, Queues
    <3>2. Head(queue.items).uid \in 1 .. MaxArrivals
      BY <3>1 DEF Items
    <3> QED BY <1>1, <1>3, <3>2 DEF Dequeue, TakeHead, TypeOK
  <2>3. UNCHANGED <<p_hitFreq, nArrived, arrivals, lost, zombies>>
    BY <1>3 DEF Dequeue, TakeHead
  <2> QED BY <1>1, <2>1, <2>2, <2>3 DEF IInv, TypeOK, BaseInv
<1>4. CASE UNCHANGED vars
  <2>1. UNCHANGED <<queue, stats, p_hitFreq, nArrived, arrivals, lost,
                    delivered, zombies>>
    BY <1>4 DEF vars, baseVars
  <2>2. TypeOK'
    BY <1>1, <2>1 DEF TypeOK
  <2>3. BaseInv'
    BY <1>1, <2>1
       DEF BaseInv, Accounting, CountersInStep, Ledger, Q!CurrentSize
  <2> QED BY <2>2, <2>3 DEF IInv
<1> QED BY <1>2, <1>3, <1>4 DEF Next

-----------------------------------------------------------------------------
(* The theorems *)

\* The invariant holds in every state of every behaviour.
THEOREM Invariance == Spec => []IInv
BY InitIInv, NextIInv, PTL DEF Spec

\* Every state is well formed: in particular no unsigned counter of the disc or
\* of its queue ever wraps below zero, the list never outgrows its limit and the
\* hit frequency never leaves [0, 1].
THEOREM TypeCorrect == Spec => []TypeOK
<1>1. IInv => TypeOK
  BY DEF IInv
<1> QED BY <1>1, Invariance, PTL

\* The two assertions of QueueDisc::Enqueue and QueueDisc::Dequeue, as far as the
\* code makes them true: up to the packets with flow identifier -1.
THEOREM AccountingCorrect == Spec => []Accounting
<1>1. IInv => Accounting
  BY DEF IInv, BaseInv
<1> QED BY <1>1, Invariance, PTL

\* The two copies of the occupancy agree, count the packets held, and respect
\* the limit.
THEOREM CountersInStepCorrect == Spec => []CountersInStep
<1>1. IInv => CountersInStep
  BY DEF IInv, BaseInv
<1> QED BY <1>1, Invariance, PTL

\* The byte counter of the queue is the sum of the sizes of the packets it holds:
\* the ledger, which starts at the bytes that have left, gives the partial sums.
THEOREM BytesMatchItemsCorrect == Spec => []BytesMatchItems
<1>1. IInv => BytesMatchItems
  <2> SUFFICES ASSUME IInv PROVE BytesMatchItems
    OBVIOUS
  <2> DEFINE n == Len(queue.items)
             w == SizesOf(queue.items)
  <2>1. /\ n \in Nat /\ DOMAIN queue.items = 1 .. n
        /\ stats.dequeued \in Counters
    BY DEF IInv, BaseInv, Queues, Statistics
  <2>2. PICK ends \in [0 .. n -> Nat] :
          /\ ends[0] = stats.dequeued.bytes
          /\ ends[n] = stats.enqueued.bytes
          /\ \A i \in 1 .. n : ends[i] = ends[i - 1] + queue.items[i].size
    BY DEF IInv, BaseInv, Ledger
  <2>3. \A i \in 1 .. n : w[i] = queue.items[i].size
    BY <2>1 DEF SizesOf
  <2> DEFINE p == [i \in 0 .. n |-> ends[i] - ends[0]]
  <2>4. p \in [0 .. n -> Int] /\ p[0] = 0
    BY <2>1, <2>2
  <2>5. ASSUME NEW i \in 1 .. n PROVE p[i] = p[i - 1] + w[i]
    <3>1. i \in 0 .. n /\ i - 1 \in 0 .. n /\ 0 \in 0 .. n
      BY <2>1
    <3>2. ends[i] \in Nat /\ ends[i - 1] \in Nat /\ ends[0] \in Nat
      BY <3>1, <2>2
    <3>3. ends[i] = ends[i - 1] + w[i]
      BY <2>2, <2>3
    <3>4. p[i] = ends[i] - ends[0] /\ p[i - 1] = ends[i - 1] - ends[0]
      BY <3>1
    <3>5. w[i] \in Nat
      <4>1. queue.items[i] \in Items
        BY <2>1 DEF IInv, BaseInv, Queues
      <4> QED BY <2>3, <4>1, SizeAssumption DEF Items
    <3> HIDE DEF w, p
    <3> QED BY <3>2, <3>3, <3>4, <3>5
  <2>6. p[n] = queue.stored.bytes
    <3>1. p[n] = stats.enqueued.bytes - stats.dequeued.bytes
      BY <2>1, <2>2
    <3> QED BY <3>1 DEF IInv, BaseInv, Accounting, CountersInStep
  <2> HIDE DEF w, p
  <2>7. SumUpTo(w, n) = p[n]
    BY ONLY <2>1, <2>4, <2>5, SumIs
  <2> QED BY <2>6, <2>7 DEF BytesMatchItems, w
<1> QED BY <1>1, Invariance, PTL

=============================================================================
