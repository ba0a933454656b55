------------------------ MODULE TrafficControlProofs ------------------------
(***************************************************************************)
(* Theorems about TrafficControl.  The queue disc inside the system is the *)
(* queue disc of StabilizedRed, so that every theorem about that module    *)
(* holds here; the others are about the device and its flow control.       *)
(*                                                                         *)
(* Nothing is assumed of the quota of Run, nor of the disc.  The theorems  *)
(* about flow control assume that a packet fits where an MTU fits          *)
(* (PacketsFit), those about wake-ups that the device queue counts packets *)
(* (the default): the findings show that both are needed.                  *)
(***************************************************************************)
EXTENDS TrafficControl, LossyQueueProofs

-----------------------------------------------------------------------------
(* The disc inside the system *)

\* Run, the device and the callbacks reach the disc only through Enqueue and
\* Dequeue: each step of the system is a step of the disc or leaves it alone.
LEMMA DiscStep == [SystemNext]_sysVars => [Next]_vars
<1>1. ASSUME NEW hash \in Hashes, NEW size \in Sizes, Send(Packet(hash, size))
      PROVE  Next
  BY <1>1 DEF Send, Next
<1>2. CASE WakeCallback \/ RestartNothing \/ EndOfTransmission
  BY <1>2 DEF WakeCallback, RestartNothing, EndOfTransmission
<1>3. CASE RestartSend
  BY <1>3 DEF RestartSend, Next
<1>4. CASE UNCHANGED sysVars
  BY <1>4 DEF sysVars
<1> QED BY <1>1, <1>2, <1>3, <1>4 DEF SystemNext

\* The system implements StabilizedRed: what is proved of the disc alone is true
\* of the disc on a device.
THEOREM DiscInsideSystem == SystemSpec => Spec
<1>1. SystemInit => Init
  BY DEF SystemInit
<1> QED BY <1>1, DiscStep, PTL DEF SystemSpec, Spec

-----------------------------------------------------------------------------
(* The device queue *)

TxItems == [uid : 1 .. MaxArrivals, flow : FlowIDs, size : Nat]
TxQueues == [items : Seq(TxItems), stored : Counters, discarded : Nat]

\* Why the byte counter never goes below zero: left[i] bytes are left in the queue
\* once its first i packets have gone.
BytesLeft(q) ==
  \E left \in [0 .. Len(q.items) -> Nat] :
    /\ left[0] = q.stored.bytes /\ left[Len(q.items)] = 0
    /\ \A i \in 1 .. Len(q.items) : left[i - 1] = left[i] + q.items[i].size

Sound(q) == /\ q \in TxQueues
            /\ q.stored.packets = Len(q.items)
            /\ BytesLeft(q)

\* An empty queue counts nothing.
LEMMA EmptyCounts ==
  ASSUME NEW q, Sound(q), q.items = <<>>
  PROVE  q.stored.packets = 0 /\ q.stored.bytes = 0
<1>1. Len(q.items) = 0
  OBVIOUS
<1> QED BY <1>1 DEF Sound, BytesLeft

LEMMA Inserted ==
  ASSUME NEW q, Sound(q), NEW p \in TxItems, NEW r, r = D!Insert(q, p)
  PROVE  /\ Sound(r)
         /\ r.items = Append(q.items, p)
         /\ r.stored.packets = q.stored.packets + 1
         /\ r.stored.bytes = q.stored.bytes + p.size
         /\ r.discarded = q.discarded
<1> DEFINE n == Len(q.items)
<1>1. /\ q.items \in Seq(TxItems) /\ q.stored \in Counters /\ q.discarded \in Nat
      /\ n \in Nat /\ p.size \in Nat
  BY DEF Sound, TxQueues, TxItems
<1>2. r = [items |-> Append(q.items, p), stored |-> Plus(q.stored, p),
           discarded |-> q.discarded]
  BY DEF D!Insert, D!Plus, Plus, Sound, TxQueues
<1>3. r \in TxQueues
  BY <1>1, <1>2, PlusCounters DEF TxQueues
<1>4. /\ Len(r.items) = n + 1 /\ r.items[n + 1] = p
      /\ \A i \in 1 .. n : r.items[i] = q.items[i]
  BY <1>1, <1>2
<1>5. /\ r.stored.packets = q.stored.packets + 1
      /\ r.stored.bytes = q.stored.bytes + p.size
  BY <1>2 DEF Plus
<1>6. BytesLeft(r)
  <2>1. PICK left \in [0 .. n -> Nat] :
          /\ left[0] = q.stored.bytes /\ left[n] = 0
          /\ \A i \in 1 .. n : left[i - 1] = left[i] + q.items[i].size
    BY DEF Sound, BytesLeft
  <2> DEFINE more == [i \in 0 .. n + 1 |->
                        IF i = n + 1 THEN 0 ELSE left[i] + p.size]
  <2>2. \A i \in 0 .. n + 1 : i = n + 1 \/ i \in 0 .. n
    BY <1>1
  <2>3. more \in [0 .. n + 1 -> Nat]
    BY <1>1, <2>1, <2>2
  <2>4. more[0] = r.stored.bytes /\ more[n + 1] = 0
    BY <1>1, <1>5, <2>1
  <2>5. ASSUME NEW i \in 1 .. n + 1
        PROVE  more[i - 1] = more[i] + r.items[i].size
    <3>1. CASE i = n + 1
      <4>1. more[i] = 0 /\ more[i - 1] = left[n] + p.size
        BY <1>1, <3>1
      <4> QED BY <1>1, <1>4, <2>1, <3>1, <4>1
    <3>2. CASE i \in 1 .. n
      <4>1. /\ left[i] \in Nat /\ left[i - 1] = left[i] + q.items[i].size
            /\ q.items[i].size \in Nat
        <5>1. i \in 0 .. n /\ q.items[i] \in TxItems
          BY <1>1, <3>2
        <5> QED BY <2>1, <3>2, <5>1 DEF TxItems
      <4>2. more[i] = left[i] + p.size /\ more[i - 1] = left[i - 1] + p.size
        BY <1>1, <3>2
      <4>3. r.items[i].size = q.items[i].size
        BY <1>4, <3>2
      <4> HIDE DEF more
      <4> QED BY <1>1, <4>1, <4>2, <4>3
    <3> QED BY <1>1, <3>1, <3>2
  <2> HIDE DEF more
  <2>6. /\ more \in [0 .. Len(r.items) -> Nat] /\ more[Len(r.items)] = 0
        /\ \A i \in 1 .. Len(r.items) : more[i - 1] = more[i] + r.items[i].size
    BY <1>4, <2>3, <2>4, <2>5
  <2> QED BY <2>4, <2>6 DEF BytesLeft
<1> QED BY <1>1, <1>2, <1>3, <1>4, <1>5, <1>6 DEF Sound

LEMMA Removed ==
  ASSUME NEW q, Sound(q), q.items # <<>>, NEW r, r = D!RemoveHead(q)
  PROVE  /\ Sound(r) /\ Head(q.items) \in TxItems
         /\ r.items = Tail(q.items)
         /\ r.stored.packets = q.stored.packets - 1
         /\ r.stored.bytes <= q.stored.bytes
         /\ r.discarded = q.discarded
<1> DEFINE n == Len(q.items)
           p == Head(q.items)
<1>1. /\ q.items \in Seq(TxItems) /\ q.stored \in Counters /\ q.discarded \in Nat
      /\ n \in Nat /\ n > 0 /\ p \in TxItems /\ p = q.items[1]
      /\ q.stored.packets = n
  BY DEF Sound, TxQueues
<1>2. r = [items |-> Tail(q.items), stored |-> Minus(q.stored, p),
           discarded |-> q.discarded]
  BY DEF D!RemoveHead, D!Minus, Minus, Sound, TxQueues
<1>3. /\ Len(r.items) = n - 1 /\ r.items \in Seq(TxItems)
      /\ \A i \in 1 .. n - 1 : r.items[i] = q.items[i + 1]
  BY <1>1, <1>2
<1>4. /\ r.stored.packets = q.stored.packets - 1
      /\ r.stored.bytes = q.stored.bytes - p.size
  BY <1>2 DEF Minus
<1>5. PICK left \in [0 .. n -> Nat] :
        /\ left[0] = q.stored.bytes /\ left[n] = 0
        /\ \A i \in 1 .. n : left[i - 1] = left[i] + q.items[i].size
  BY DEF Sound, BytesLeft
<1>6. p.size \in Nat /\ left[0] \in Nat /\ left[1] \in Nat
      /\ left[0] = left[1] + p.size
  <2>1. 1 \in 1 .. n /\ 0 \in 0 .. n /\ 1 \in 0 .. n
    BY <1>1
  <2>2. left[1 - 1] = left[1] + q.items[1].size
    BY <1>5, <2>1
  <2> QED BY <1>1, <1>5, <2>1, <2>2 DEF TxItems
<1>7. r.stored.bytes = left[1] /\ r.stored.bytes <= q.stored.bytes
  BY <1>4, <1>5, <1>6
<1>8. r \in TxQueues
  <2>1. Minus(q.stored, p) \in Counters
    <3>1. q.stored.packets - 1 \in Nat /\ q.stored.bytes - p.size \in Nat
      BY <1>1, <1>5, <1>6
    <3> QED BY <3>1 DEF Minus, Counters
  <2> QED BY <1>1, <1>2, <1>3, <2>1 DEF TxQueues
<1>9. BytesLeft(r)
  <2> DEFINE less == [i \in 0 .. n - 1 |-> left[i + 1]]
  <2>1. less \in [0 .. n - 1 -> Nat]
    BY <1>1, <1>5
  <2>2. less[0] = r.stored.bytes /\ less[n - 1] = 0
    BY <1>1, <1>5, <1>7
  <2>3. ASSUME NEW i \in 1 .. n - 1
        PROVE  less[i - 1] = less[i] + r.items[i].size
    <3>1. /\ i + 1 \in 1 .. n /\ i \in 0 .. n - 1 /\ i - 1 \in 0 .. n - 1
          /\ (i + 1) - 1 = i /\ (i - 1) + 1 = i
      BY <1>1
    <3>2. left[(i + 1) - 1] = left[i + 1] + q.items[i + 1].size
      BY <1>5, <3>1
    <3> QED BY <1>3, <3>1, <3>2
  <2> HIDE DEF less
  <2> QED BY <1>3, <2>1, <2>2, <2>3 DEF BytesLeft
<1> QED BY <1>1, <1>2, <1>3, <1>4, <1>7, <1>8, <1>9 DEF Sound

\* A packet that goes through an empty queue leaves no trace in it.
LEMMA PassesThrough ==
  ASSUME NEW q, Sound(q), q.items = <<>>, NEW p \in TxItems,
         NEW r, r = D!Insert(q, p), NEW u, u = D!RemoveHead(r)
  PROVE  r.items # <<>> /\ Head(r.items) = p /\ u = q
<1>1. /\ Sound(r) /\ r.items = Append(q.items, p)
      /\ r.stored.packets = q.stored.packets + 1
      /\ r.stored.bytes = q.stored.bytes + p.size
      /\ r.discarded = q.discarded
  BY Inserted
<1>2. /\ q.stored.packets = 0 /\ q.stored.bytes = 0 /\ q.items \in Seq(TxItems)
      /\ q.stored \in Counters /\ p.size \in Nat
  BY EmptyCounts DEF Sound, TxQueues, TxItems
<1>3. r.items # <<>> /\ Head(r.items) = p /\ Tail(r.items) = q.items
  BY <1>1, <1>2
<1>4. u = [items |-> Tail(r.items), stored |-> Minus(r.stored, p),
           discarded |-> r.discarded]
  BY <1>1, <1>3 DEF D!RemoveHead, D!Minus, Minus, Sound, TxQueues
<1>5. Minus(r.stored, p) = q.stored
  BY <1>1, <1>2 DEF Minus, Counters
<1>6. u = [items |-> q.items, stored |-> q.stored, discarded |-> q.discarded]
  BY <1>1, <1>3, <1>4, <1>5
<1> QED BY <1>3, <1>6 DEF Sound, TxQueues

-----------------------------------------------------------------------------
(* Stopping and waking *)

TxStates == [queue : TxQueues, stopped : BOOLEAN, wakes : Nat]

\* A packet put into the queue can stop it and wakes nobody.
LEMMA QueuedDoes ==
  ASSUME NEW t \in TxStates, Sound(t.queue), NEW p \in TxItems,
         NEW u, u = Queued(t, p)
  PROVE  /\ u \in TxStates /\ u.queue = D!Insert(t.queue, p) /\ u.wakes = t.wakes
         /\ u.stopped <=> t.stopped \/ D!WouldOverflow(u.queue, Mtu)
<1> DEFINE q == D!Insert(t.queue, p)
<1>1. q \in TxQueues
  BY Inserted DEF Sound
<1>2. u = [t EXCEPT !.queue = q, !.stopped = t.stopped \/ D!WouldOverflow(q, Mtu)]
  BY DEF Queued
<1> HIDE DEF q
<1>3. CASE t.stopped \/ D!WouldOverflow(q, Mtu)
  <2>1. u = [t EXCEPT !.queue = q, !.stopped = TRUE]
    BY <1>2, <1>3
  <2>2. u = [queue |-> q, stopped |-> TRUE, wakes |-> t.wakes]
    BY <2>1 DEF TxStates
  <2> QED BY <1>1, <1>3, <2>2 DEF TxStates, q
<1>4. CASE ~(t.stopped \/ D!WouldOverflow(q, Mtu))
  <2>1. u = [t EXCEPT !.queue = q, !.stopped = FALSE]
    BY <1>2, <1>4
  <2>2. u = [queue |-> q, stopped |-> FALSE, wakes |-> t.wakes]
    BY <2>1 DEF TxStates
  <2> QED BY <1>1, <1>4, <2>2 DEF TxStates, q
<1> QED BY <1>3, <1>4

\* A packet taken from a queue that was stopped restarts it and wakes the disc,
\* if there is room for an MTU now.
LEMMA UnqueuedDoes ==
  ASSUME NEW t \in TxStates, Sound(t.queue), t.queue.items # <<>>,
         NEW u, u = Unqueued(t)
  PROVE  /\ u \in TxStates /\ u.queue = D!RemoveHead(t.queue)
         /\ u.stopped <=> t.stopped /\ D!WouldOverflow(u.queue, Mtu)
         /\ t.stopped /\ ~u.stopped => u.wakes = t.wakes + 1
         /\ ~(t.stopped /\ ~u.stopped) => u.wakes = t.wakes
<1> DEFINE q == D!RemoveHead(t.queue)
<1>1. q \in TxQueues
  BY Removed DEF Sound
<1> HIDE DEF q
<1>2. CASE D!WouldOverflow(q, Mtu)
  <2>1. u = [t EXCEPT !.queue = q]
    BY <1>2 DEF Unqueued, q
  <2> QED BY <1>1, <1>2, <2>1 DEF TxStates, q
<1>3. CASE ~D!WouldOverflow(q, Mtu)
  <2>1. u = [queue |-> q, stopped |-> FALSE,
             wakes |-> IF t.stopped THEN t.wakes + 1 ELSE t.wakes]
    BY <1>3 DEF Unqueued, q
  <2> QED BY <1>1, <1>3, <2>1 DEF TxStates, q
<1> QED BY <1>2, <1>3

-----------------------------------------------------------------------------
(* The device *)

\* While the device is idle its queue is empty and no wake-up is outstanding: the
\* wake-up that a departure schedules is used before the next departure.
DeviceInv ==
  /\ txq \in TxStates /\ txq.wakes <= 1 /\ Sound(txq.queue)
  /\ txMachineState \in {"READY", "BUSY"}
  /\ currentPkt \in 0 .. MaxArrivals
  /\ txMachineState = "BUSY" <=> currentPkt # 0
  /\ sent \in Seq(1 .. MaxArrivals)
  /\ running \in BOOLEAN
  /\ quota \in 0 .. UintMax
  /\ txMachineState = "READY" => txq.queue.items = <<>> /\ txq.wakes = 0

LEMMA InitDeviceInv == SystemInit => DeviceInv
<1> SUFFICES ASSUME SystemInit PROVE DeviceInv
  OBVIOUS
<1>1. /\ txq = [queue |-> D!EmptyQueue, stopped |-> FALSE, wakes |-> 0]
      /\ txMachineState = "READY" /\ currentPkt = 0 /\ sent = <<>>
      /\ running = FALSE /\ quota = Quota
  BY DEF SystemInit, DeviceInit
<1> DEFINE q == D!EmptyQueue
<1>2. q = [items |-> <<>>, stored |-> [packets |-> 0, bytes |-> 0], discarded |-> 0]
  BY DEF D!EmptyQueue, D!NoItems
<1> HIDE DEF q
<1>3. q \in TxQueues /\ Len(q.items) = 0
  BY <1>2 DEF TxQueues, Counters
<1>4. BytesLeft(q)
  <2> DEFINE left == [i \in 0 .. 0 |-> 0]
  <2>1. left \in [0 .. 0 -> Nat] /\ left[0] = 0
    OBVIOUS
  <2> HIDE DEF left
  <2> QED BY <1>2, <1>3, <2>1 DEF BytesLeft
<1>5. Sound(q)
  BY <1>2, <1>3, <1>4 DEF Sound
<1>6. txq.queue = q /\ txq \in TxStates /\ txq.wakes = 0 /\ txq.queue.items = <<>>
  BY <1>1, <1>2, <1>3 DEF TxStates, q
<1>7. currentPkt \in 0 .. MaxArrivals /\ quota \in 0 .. UintMax
  BY <1>1, SizeAssumption, QuotaAssumption
<1>8. sent \in Seq(1 .. MaxArrivals) /\ running \in BOOLEAN
  <2>1. sent \in Seq(1 .. MaxArrivals)
    BY <1>1
  <2>2. running = FALSE
    BY <1>1
  <2> QED BY <2>1, <2>2
<1>9. /\ txMachineState \in {"READY", "BUSY"}
      /\ txMachineState = "BUSY" <=> currentPkt # 0
  BY <1>1
<1> QED BY <1>5, <1>6, <1>7, <1>8, <1>9 DEF DeviceInv

\* A packet given to an idle device goes straight through its queue, which wakes
\* the disc if one packet fills it.
LEMMA GoesThrough ==
  ASSUME DeviceInv, txMachineState = "READY", NEW p \in TxItems,
         TransmitHead(Queued(txq, p))
  PROVE  /\ txq' \in TxStates /\ txq'.queue = txq.queue /\ txq'.wakes <= 1
         /\ txq'.stopped => D!WouldOverflow(txq.queue, Mtu)
         /\ txMachineState' = "BUSY" /\ currentPkt' = p.uid
         /\ sent' = Append(sent, p.uid)
<1>1. PICK u : u = Queued(txq, p)
  OBVIOUS
<1>2. /\ txq \in TxStates /\ Sound(txq.queue) /\ txq.queue.items = <<>>
      /\ txq.wakes = 0
  BY DEF DeviceInv
<1>3. /\ u \in TxStates /\ u.queue = D!Insert(txq.queue, p) /\ u.wakes = 0
  BY <1>1, <1>2, QueuedDoes
<1>4. Sound(u.queue)
  BY <1>2, <1>3, Inserted
<1>5. /\ txq' = Unqueued(u) /\ txMachineState' = "BUSY"
      /\ currentPkt' = Head(u.queue.items).uid
      /\ sent' = Append(sent, Head(u.queue.items).uid)
  BY <1>1 DEF TransmitHead
<1>6. /\ u.queue.items # <<>> /\ Head(u.queue.items) = p
      /\ D!RemoveHead(u.queue) = txq.queue
  BY <1>2, <1>3, PassesThrough
<1>7. PICK v : v = txq'
  OBVIOUS
<1>8. /\ v \in TxStates /\ v.queue = txq.queue
      /\ v.stopped => D!WouldOverflow(txq.queue, Mtu)
      /\ v.wakes = u.wakes + 1 \/ v.wakes = u.wakes
  BY <1>3, <1>4, <1>5, <1>6, <1>7, UnqueuedDoes
<1> QED BY <1>3, <1>5, <1>6, <1>7, <1>8

\* What the disc hands over is well formed, and bigger by a header on the device.
LEMMA HeadOnDevice ==
  ASSUME TypeOK, queue.items # <<>>
  PROVE  LET p == [Head(queue.items) EXCEPT !.size = @ + PppHeader]
         IN  /\ p \in TxItems /\ p.uid = Head(queue.items).uid
             /\ \E size \in Sizes : p.size = size + PppHeader
<1>1. PICK item \in Items : item = Head(queue.items)
  BY DEF TypeOK, Queues
<1>2. item.size \in Sizes /\ item.size + PppHeader \in Nat
  <2>1. item.size \in Sizes
    BY DEF Items
  <2>2. item.size \in Nat /\ PppHeader \in Nat
    BY <2>1, SizeAssumption, DeviceAssumption
  <2> QED BY <2>1, <2>2
<1>3. [item EXCEPT !.size = @ + PppHeader] =
        [uid |-> item.uid, flow |-> item.flow, size |-> item.size + PppHeader]
  BY DEF Items
<1> QED BY <1>1, <1>2, <1>3 DEF Items, TxItems

\* A packet put off by a busy device, or dropped by it.
LEMMA StaysBehind ==
  ASSUME DeviceInv, NEW p \in TxItems,
         txq' = Queued(txq, p) \/ txq' = Discarded(txq)
  PROVE  txq' \in TxStates /\ txq'.wakes = txq.wakes /\ Sound(txq'.queue)
<1>1. txq \in TxStates /\ Sound(txq.queue)
  BY DEF DeviceInv
<1>2. PICK u : u = txq'
  OBVIOUS
<1>3. CASE txq' = Queued(txq, p)
  <2>1. u \in TxStates /\ u.queue = D!Insert(txq.queue, p) /\ u.wakes = txq.wakes
    BY <1>1, <1>2, <1>3, QueuedDoes
  <2>2. Sound(u.queue)
    BY <1>1, <2>1, Inserted
  <2> QED BY <1>2, <2>1, <2>2
<1>4. CASE txq' = Discarded(txq)
  <2>1. PICK q : q = D!Discard(txq.queue)
    OBVIOUS
  <2>2. u = [queue |-> q, stopped |-> TRUE, wakes |-> txq.wakes]
    BY <1>1, <1>2, <1>4, <2>1 DEF Discarded, TxStates
  <2>3. q = [items |-> txq.queue.items, stored |-> txq.queue.stored,
             discarded |-> txq.queue.discarded + 1]
    BY <1>1, <2>1 DEF D!Discard, Sound, TxQueues
  <2>4. q \in TxQueues
    BY <1>1, <2>3 DEF Sound, TxQueues
  <2>5. q.items = txq.queue.items /\ q.stored = txq.queue.stored
    BY <2>3
  <2>6. Sound(q)
    BY <1>1, <2>4, <2>5 DEF Sound, BytesLeft
  <2>7. u.queue = q /\ u.wakes = txq.wakes /\ u \in TxStates
    BY <1>1, <2>2, <2>4 DEF TxStates
  <2> QED BY <1>2, <2>6, <2>7
<1> QED BY <1>3, <1>4

LEMMA NextDeviceInv == TypeOK /\ DeviceInv /\ [SystemNext]_sysVars => DeviceInv'
<1> SUFFICES ASSUME TypeOK, DeviceInv, [SystemNext]_sysVars PROVE DeviceInv'
  OBVIOUS
<1>1. /\ txq \in TxStates /\ txq.wakes \in Nat /\ txq.wakes <= 1 /\ Sound(txq.queue)
      /\ Quota \in 0 .. UintMax /\ UintMax \in Nat /\ quota \in 0 .. UintMax
      /\ TRUE \in BOOLEAN /\ FALSE \in BOOLEAN
  BY QuotaAssumption DEF DeviceInv, TxStates
<1>2. ASSUME NEW hash \in Hashes, NEW size \in Sizes, Send(Packet(hash, size))
      PROVE  DeviceInv'
  <2>1. UNCHANGED devVars /\ running' = TRUE /\ quota' = Quota
    BY <1>2 DEF Send, RunBegin
  <2> QED BY <1>1, <2>1 DEF DeviceInv, devVars
<1>3. CASE WakeCallback
  <2>1. PICK u : u = txq'
    OBVIOUS
  <2>2. /\ txq.wakes = 1 /\ u = [txq EXCEPT !.wakes = 0]
        /\ running' = TRUE /\ quota' = Quota
        /\ UNCHANGED <<txMachineState, currentPkt, sent>>
    BY <1>1, <1>3, <2>1 DEF WakeCallback, RunBegin
  <2>3. u \in TxStates /\ u.wakes = 0 /\ u.queue = txq.queue
    BY <1>1, <2>2 DEF TxStates
  <2> QED BY <1>1, <2>1, <2>2, <2>3 DEF DeviceInv
<1>4. CASE RestartNothing
  <2>1. UNCHANGED devVars /\ running' = FALSE /\ UNCHANGED quota
    BY <1>4 DEF RestartNothing
  <2> QED BY <1>1, <2>1 DEF DeviceInv, devVars
<1>5. CASE RestartSend
  <2> DEFINE item == Head(queue.items)
             p == [item EXCEPT !.size = @ + PppHeader]
  <2>1. queue.items # <<>> /\ DeviceSend(item)
    BY <1>5 DEF RestartSend, Dequeue, TakeHead
  <2>2. p \in TxItems /\ p.uid \in 1 .. MaxArrivals /\ MaxArrivals \in Nat
    BY <2>1, HeadOnDevice, SizeAssumption DEF TxItems
  <2>3. running' \in BOOLEAN
    BY <1>5 DEF RestartSend, LoopContinues
  <2>4. quota' \in 0 .. UintMax
    BY <1>1, <1>5 DEF RestartSend, Decremented
  <2>5. \/ txMachineState = "READY" /\ TransmitHead(Queued(txq, p))
        \/ /\ txMachineState = "BUSY" /\ txq' = Queued(txq, p)
           /\ UNCHANGED <<txMachineState, currentPkt, sent>>
        \/ /\ txq' = Discarded(txq)
           /\ UNCHANGED <<txMachineState, currentPkt, sent>>
    BY <2>1 DEF DeviceSend
  <2> HIDE DEF p, item
  <2>6. CASE txMachineState = "READY" /\ TransmitHead(Queued(txq, p))
    <3>1. /\ txq' \in TxStates /\ txq'.queue = txq.queue /\ txq'.wakes <= 1
          /\ txMachineState' = "BUSY" /\ currentPkt' = p.uid
          /\ sent' = Append(sent, p.uid)
      BY <2>2, <2>6, GoesThrough
    <3>2. sent' \in Seq(1 .. MaxArrivals)
      BY <2>2, <3>1 DEF DeviceInv
    <3>3. currentPkt' \in 0 .. MaxArrivals /\ currentPkt' # 0
      BY <2>2, <3>1
    <3> QED BY <1>1, <2>3, <2>4, <3>1, <3>2, <3>3 DEF DeviceInv
  <2>7. CASE /\ txMachineState = "BUSY" /\ txq' = Queued(txq, p)
             /\ UNCHANGED <<txMachineState, currentPkt, sent>>
    <3>1. txq' \in TxStates /\ txq'.wakes = txq.wakes /\ Sound(txq'.queue)
      BY <2>2, <2>7, StaysBehind
    <3> QED BY <1>1, <2>3, <2>4, <2>7, <3>1 DEF DeviceInv
  <2>8. CASE /\ txq' = Discarded(txq)
             /\ UNCHANGED <<txMachineState, currentPkt, sent>>
    <3>1. txq' \in TxStates /\ txq'.wakes = txq.wakes /\ Sound(txq'.queue)
      BY <2>2, <2>8, StaysBehind
    <3>2. txq'.queue.items = txq.queue.items
      BY <1>1, <2>8 DEF Discarded, D!Discard, TxStates, TxQueues
    <3> QED BY <1>1, <2>3, <2>4, <2>8, <3>1, <3>2 DEF DeviceInv
  <2> QED BY <2>5, <2>6, <2>7, <2>8
<1>6. CASE EndOfTransmission
  <2>1. /\ txq.wakes = 0 /\ TransmitComplete /\ UNCHANGED <<running, quota>>
    BY <1>6 DEF EndOfTransmission
  <2>2. CASE txq.queue.items = <<>>
    <3>1. txMachineState' = "READY" /\ currentPkt' = 0 /\ UNCHANGED <<txq, sent>>
      BY <2>1, <2>2 DEF TransmitComplete, TransmitHead
    <3> QED BY <1>1, <2>1, <2>2, <3>1, SizeAssumption DEF DeviceInv
  <2>3. CASE txq.queue.items # <<>>
    <3>1. TransmitHead(txq)
      BY <2>1, <2>3 DEF TransmitComplete
    <3>2. PICK u : u = txq'
      OBVIOUS
    <3>3. PICK p : p = Head(txq.queue.items)
      OBVIOUS
    <3>4. /\ u = Unqueued(txq) /\ txMachineState' = "BUSY" /\ currentPkt' = p.uid
          /\ sent' = Append(sent, p.uid)
      BY <3>1, <3>2, <3>3 DEF TransmitHead
    <3>5. /\ u \in TxStates /\ u.queue = D!RemoveHead(txq.queue)
          /\ u.wakes = txq.wakes + 1 \/ u.wakes = txq.wakes
      BY <1>1, <2>3, <3>4, UnqueuedDoes
    <3>6. Sound(u.queue) /\ p \in TxItems
      BY <1>1, <2>3, <3>3, <3>5, Removed
    <3>7. /\ currentPkt' \in 0 .. MaxArrivals /\ currentPkt' # 0
          /\ sent' \in Seq(1 .. MaxArrivals)
      BY <3>4, <3>6, SizeAssumption DEF TxItems, DeviceInv
    <3> QED BY <2>1, <3>2, <3>4, <3>5, <3>6, <3>7 DEF DeviceInv
  <2> QED BY <2>2, <2>3
<1>7. CASE UNCHANGED sysVars
  BY <1>7 DEF sysVars, devVars, DeviceInv
<1> QED BY <1>2, <1>3, <1>4, <1>5, <1>6, <1>7 DEF SystemNext

-----------------------------------------------------------------------------
(* Flow control *)

\* What the configuration of the device must be for flow control to work: a queue
\* in bytes holds at least an MTU, and no packet is bigger than one.
PacketsFit ==
  DevUnit = "bytes" => /\ Mtu <= DevMaxSize
                       /\ \A size \in Sizes : size + PppHeader <= Mtu

FlowControlInv == StoppedIffFull /\ DeviceNeverDiscards

LEMMA SizeTypes ==
  ASSUME DeviceInv
  PROVE  /\ D!CurrentSize(txq.queue) \in Nat /\ DevMaxSize \in Nat \ {0} /\ Mtu \in Nat
         /\ DevUnit \in {"packets", "bytes"}
BY DeviceAssumption DEF DeviceInv, Sound, TxQueues, Counters, D!CurrentSize

\* A queue that would overflow still does with more in it.
LEMMA OverflowsWithMore ==
  ASSUME NEW q \in TxQueues, NEW r \in TxQueues,
         q.stored.packets <= r.stored.packets, q.stored.bytes <= r.stored.bytes,
         D!WouldOverflow(q, Mtu)
  PROVE  D!WouldOverflow(r, Mtu)
BY DeviceAssumption DEF TxQueues, Counters, D!WouldOverflow, D!CurrentSize

LEMMA EmptyTakesAnMtu ==
  ASSUME PacketsFit, NEW q, Sound(q), q.items = <<>>
  PROVE  ~D!WouldOverflow(q, Mtu)
<1>1. q.stored.packets = 0 /\ q.stored.bytes = 0
  BY EmptyCounts
<1> QED BY <1>1, DeviceAssumption DEF PacketsFit, D!WouldOverflow, D!CurrentSize

\* While the device queue is not stopped it takes the packet it is given: either
\* the packet goes through it to an idle device, or it waits there.
LEMMA SendsOrWaits ==
  ASSUME PacketsFit, TypeOK, DeviceInv, FlowControlInv, RestartSend
  PROVE  \E p \in TxItems :
           /\ p.uid = Head(queue.items).uid
           /\ \/ txMachineState = "READY" /\ TransmitHead(Queued(txq, p))
              \/ /\ txMachineState = "BUSY" /\ txq' = Queued(txq, p)
                 /\ UNCHANGED <<txMachineState, currentPkt, sent>>
<1> DEFINE item == Head(queue.items)
           p == [item EXCEPT !.size = @ + PppHeader]
<1>1. queue.items # <<>> /\ DeviceSend(item) /\ ~txq.stopped
  BY DEF RestartSend, Dequeue, TakeHead
<1>2. /\ p \in TxItems /\ p.uid = item.uid
      /\ \E size \in Sizes : p.size = size + PppHeader
  BY <1>1, HeadOnDevice
<1>3. \/ txMachineState = "READY" /\ TransmitHead(Queued(txq, p))
      \/ /\ txMachineState = "BUSY" /\ txq' = Queued(txq, p)
         /\ UNCHANGED <<txMachineState, currentPkt, sent>>
      \/ ~D!HasRoomFor(txq.queue, p)
  BY <1>1 DEF DeviceSend
<1> HIDE DEF p
<1>4. D!HasRoomFor(txq.queue, p)
  <2>1. ~D!WouldOverflow(txq.queue, Mtu)
    BY <1>1 DEF FlowControlInv, StoppedIffFull
  <2>2. DevUnit = "bytes" => p.size <= Mtu /\ p.size \in Nat
    BY <1>2 DEF PacketsFit, TxItems
  <2> QED BY <2>1, <2>2, SizeTypes DEF D!WouldOverflow, D!HasRoomFor
<1> QED BY <1>2, <1>3, <1>4

LEMMA InitFlowControlInv ==
  ASSUME PacketsFit, SystemInit
  PROVE  FlowControlInv
<1>1. txq = [queue |-> D!EmptyQueue, stopped |-> FALSE, wakes |-> 0]
  BY DEF SystemInit, DeviceInit
<1>2. txq.queue = D!EmptyQueue /\ txq.stopped = FALSE
  BY <1>1
<1>3. D!EmptyQueue.items = <<>> /\ D!EmptyQueue.discarded = 0
  BY DEF D!EmptyQueue
<1>4. ~D!WouldOverflow(txq.queue, Mtu)
  BY <1>2, <1>3, InitDeviceInv, EmptyTakesAnMtu DEF DeviceInv
<1> QED BY <1>2, <1>3, <1>4 DEF FlowControlInv, StoppedIffFull, DeviceNeverDiscards

LEMMA NextFlowControlInv ==
  ASSUME PacketsFit, TypeOK, DeviceInv, FlowControlInv, [SystemNext]_sysVars
  PROVE  FlowControlInv'
<1>1. /\ txq \in TxStates /\ Sound(txq.queue) /\ txq.queue.discarded = 0
      /\ txq.stopped <=> D!WouldOverflow(txq.queue, Mtu)
  BY DEF DeviceInv, FlowControlInv, StoppedIffFull, DeviceNeverDiscards
<1>2. ASSUME NEW u, u = txq', u.queue.discarded = 0,
             u.stopped <=> D!WouldOverflow(u.queue, Mtu)
      PROVE  FlowControlInv'
  BY <1>2 DEF FlowControlInv, StoppedIffFull, DeviceNeverDiscards, D!WouldOverflow,
              D!CurrentSize
<1>3. ASSUME NEW hash \in Hashes, NEW size \in Sizes, Send(Packet(hash, size))
      PROVE  FlowControlInv'
  BY <1>1, <1>2, <1>3 DEF Send, devVars
<1>4. CASE RestartNothing \/ UNCHANGED sysVars
  BY <1>1, <1>2, <1>4 DEF RestartNothing, sysVars, devVars
<1>5. CASE WakeCallback
  <2>1. PICK u : u = txq'
    OBVIOUS
  <2>2. u = [txq EXCEPT !.wakes = @ - 1]
    BY <1>5, <2>1 DEF WakeCallback
  <2>3. u.queue = txq.queue /\ u.stopped = txq.stopped
    BY <1>1, <2>2 DEF TxStates
  <2> QED BY <1>1, <1>2, <2>1, <2>3
<1>6. CASE RestartSend
  <2>1. PICK p \in TxItems :
          \/ txMachineState = "READY" /\ TransmitHead(Queued(txq, p))
          \/ txMachineState = "BUSY" /\ txq' = Queued(txq, p)
    BY <1>6, SendsOrWaits
  <2>2. ~txq.stopped
    BY <1>6 DEF RestartSend
  <2>3. PICK u : u = txq'
    OBVIOUS
  <2>4. CASE txMachineState = "READY" /\ TransmitHead(Queued(txq, p))
    <3>1. /\ u.queue = txq.queue /\ u.stopped \in BOOLEAN
          /\ u.stopped => D!WouldOverflow(txq.queue, Mtu)
      BY <2>3, <2>4, GoesThrough DEF TxStates
    <3> QED BY <1>1, <1>2, <2>2, <2>3, <3>1
  <2>5. CASE txMachineState = "BUSY" /\ txq' = Queued(txq, p)
    <3>1. /\ u.queue = D!Insert(txq.queue, p)
          /\ u.stopped <=> txq.stopped \/ D!WouldOverflow(u.queue, Mtu)
      BY <1>1, <2>3, <2>5, QueuedDoes
    <3>2. u.queue.discarded = 0
      BY <1>1, <3>1, Inserted
    <3> QED BY <1>2, <2>2, <2>3, <3>1, <3>2
  <2> QED BY <2>1, <2>4, <2>5
<1>7. CASE EndOfTransmission
  <2>1. CASE txq.queue.items = <<>>
    <3>1. UNCHANGED txq
      BY <1>7, <2>1 DEF EndOfTransmission, TransmitComplete, TransmitHead
    <3> QED BY <1>1, <1>2, <3>1
  <2>2. CASE txq.queue.items # <<>>
    <3>1. PICK u : u = txq'
      OBVIOUS
    <3>2. u = Unqueued(txq)
      BY <1>7, <2>2, <3>1 DEF EndOfTransmission, TransmitComplete, TransmitHead
    <3>3. /\ u.queue = D!RemoveHead(txq.queue)
          /\ u.stopped <=> txq.stopped /\ D!WouldOverflow(u.queue, Mtu)
      BY <1>1, <2>2, <3>2, UnqueuedDoes
    <3>4. /\ Sound(u.queue) /\ u.queue.stored.bytes <= txq.queue.stored.bytes
          /\ u.queue.stored.packets = txq.queue.stored.packets - 1
          /\ u.queue.discarded = 0
      BY <1>1, <2>2, <3>3, Removed
    <3>5. D!WouldOverflow(u.queue, Mtu) => D!WouldOverflow(txq.queue, Mtu)
      <4>1. u.queue \in TxQueues /\ txq.queue \in TxQueues
        BY <1>1, <3>4 DEF Sound
      <4>2. u.queue.stored.packets <= txq.queue.stored.packets
        BY <3>4, <4>1 DEF TxQueues, Counters
      <4> QED BY <3>4, <4>1, <4>2, OverflowsWithMore
    <3> QED BY <1>1, <1>2, <3>1, <3>3, <3>4, <3>5
  <2> QED BY <2>1, <2>2
<1> QED BY <1>3, <1>4, <1>5, <1>6, <1>7 DEF SystemNext

-----------------------------------------------------------------------------
(* Service *)

\* A device queue that counts packets is full with DevMaxSize of them.
LEMMA FullInPackets ==
  ASSUME DevUnit = "packets", NEW q, Sound(q)
  PROVE  /\ Len(q.items) \in Nat /\ DevMaxSize \in Nat \ {0}
         /\ D!WouldOverflow(q, Mtu) <=> Len(q.items) >= DevMaxSize
BY DeviceAssumption DEF Sound, TxQueues, D!WouldOverflow, D!CurrentSize

\* Why a run of one packet is enough.  A backlog that is not held up by a stopped
\* device has a wake-up coming, and the device has room for exactly one packet:
\* the one that departed woke the disc for it.  Only a packet that just arrived
\* meets a device with more room, and then it is the only one.
ServiceInv ==
  /\ Len(txq.queue.items) <= DevMaxSize
  /\ ~txq.stopped /\ queue.items # <<>> =>
       /\ ~running => txq.wakes > 0
       /\ ~running \/ Len(queue.items) > 1 => Len(txq.queue.items) = DevMaxSize - 1
  /\ running /\ txMachineState = "READY" => Len(queue.items) <= 1

LEMMA TailIsShorter ==
  ASSUME NEW S, NEW s \in Seq(S), s # <<>>
  PROVE  Len(Tail(s)) = Len(s) - 1 /\ (Tail(s) = <<>> <=> Len(Tail(s)) = 0)
<1>1. Tail(s) \in Seq(S) /\ Len(Tail(s)) = Len(s) - 1
  OBVIOUS
<1>2. Len(<<>>) = 0 /\ \A t \in Seq(S) : t # <<>> => Len(t) # 0
  OBVIOUS
<1> QED BY <1>1, <1>2

LEMMA InitServiceInv == SystemInit => ServiceInv
<1> SUFFICES ASSUME SystemInit PROVE ServiceInv
  OBVIOUS
<1>1. queue.items = <<>> /\ running = FALSE
  BY DEF SystemInit, Init, BaseInit, Q!EmptyQueue
<1>2. txq.queue.items = <<>>
  <2>1. txq.queue = D!EmptyQueue
    BY DEF SystemInit, DeviceInit
  <2> QED BY <2>1 DEF D!EmptyQueue
<1> QED BY <1>1, <1>2, DeviceAssumption DEF ServiceInv

LEMMA NextServiceInv ==
  ASSUME DevUnit = "packets", TypeOK, DeviceInv, FlowControlInv, ServiceInv,
         [SystemNext]_sysVars
  PROVE  ServiceInv'
<1>1. /\ txq \in TxStates /\ Sound(txq.queue) /\ PacketsFit
      /\ Len(txq.queue.items) \in Nat /\ DevMaxSize \in Nat \ {0}
      /\ txq.stopped <=> Len(txq.queue.items) >= DevMaxSize
      /\ queue.items \in Seq(Items) /\ Len(queue.items) \in Nat
      /\ txq.wakes \in Nat /\ running \in BOOLEAN
  BY FullInPackets DEF DeviceInv, FlowControlInv, StoppedIffFull, TypeOK, Queues,
                       TxStates, PacketsFit
<1>2. queue.items = <<>> <=> Len(queue.items) = 0
  BY <1>1
<1>3. txMachineState = "READY" => Len(txq.queue.items) = 0 /\ txq.wakes = 0
  BY <1>1 DEF DeviceInv
<1>4. ASSUME NEW hash \in Hashes, NEW size \in Sizes, Send(Packet(hash, size))
      PROVE  ServiceInv'
  <2>1. ~running /\ running' = TRUE /\ UNCHANGED <<txq, txMachineState>>
    BY <1>4 DEF Send, RunBegin, devVars
  <2>2. PICK item : item = Packet(hash, size)
    OBVIOUS
  <2>3. /\ item \in Items
        /\ queue'.items = Append(queue.items, item) \/ queue'.items = queue.items
    BY <1>1, <1>4, <2>2, EnqueueStoresOrLoses DEF Send
  <2>4. Len(queue'.items) \in Nat /\ Len(queue'.items) <= Len(queue.items) + 1
    BY <1>1, <2>3
  <2> QED BY <1>1, <1>2, <1>3, <2>1, <2>4 DEF ServiceInv
<1>5. CASE WakeCallback
  <2>1. /\ txq' = [txq EXCEPT !.wakes = @ - 1] /\ txq.wakes > 0
        /\ running' = TRUE /\ UNCHANGED <<queue, txMachineState>>
    BY <1>5 DEF WakeCallback, RunBegin, vars, baseVars
  <2>2. txq'.queue = txq.queue /\ txq'.stopped = txq.stopped
    BY <1>1, <2>1 DEF TxStates
  <2>3. txMachineState # "READY"
    BY <1>3, <2>1
  <2> QED BY <1>1, <2>1, <2>2, <2>3 DEF ServiceInv
<1>6. CASE RestartNothing
  <2>1. /\ txq.stopped \/ queue.items = <<>>
        /\ running' = FALSE /\ UNCHANGED <<queue, txq, txMachineState>>
    BY <1>6 DEF RestartNothing, vars, baseVars, devVars
  <2> QED BY <1>1, <2>1 DEF ServiceInv
<1>7. CASE RestartSend
  <2>1. /\ running /\ ~txq.stopped /\ queue.items # <<>>
        /\ queue'.items = Tail(queue.items)
    BY <1>1, <1>7 DEF RestartSend, Dequeue, TakeHead, Q!RemoveHead, TypeOK, Queues
  <2>2. Len(queue'.items) = Len(queue.items) - 1
        /\ (queue'.items = <<>> <=> Len(queue'.items) = 0)
    BY <1>1, <2>1, TailIsShorter
  <2>3. PICK p \in TxItems :
          \/ txMachineState = "READY" /\ TransmitHead(Queued(txq, p))
          \/ /\ txMachineState = "BUSY" /\ txq' = Queued(txq, p)
             /\ UNCHANGED txMachineState
    BY <1>1, <1>7, SendsOrWaits
  <2>4. CASE txMachineState = "READY" /\ TransmitHead(Queued(txq, p))
    <3>1. txq'.queue = txq.queue /\ txMachineState' = "BUSY"
      BY <2>4, GoesThrough
    <3>2. Len(queue'.items) = 0
      BY <1>1, <1>2, <2>1, <2>2, <2>4 DEF ServiceInv
    <3> QED BY <2>2, <3>1, <3>2 DEF ServiceInv
  <2>5. CASE /\ txMachineState = "BUSY" /\ txq' = Queued(txq, p)
             /\ UNCHANGED txMachineState
    <3>1. PICK u : u = txq'
      OBVIOUS
    <3>2. /\ u.queue = D!Insert(txq.queue, p)
          /\ u.stopped <=> D!WouldOverflow(u.queue, Mtu)
      BY <1>1, <2>1, <2>5, <3>1, QueuedDoes
    <3>3. Sound(u.queue) /\ u.queue.items = Append(txq.queue.items, p)
      BY <1>1, <3>2, Inserted
    <3>4. /\ Len(u.queue.items) = Len(txq.queue.items) + 1
          /\ u.stopped <=> Len(u.queue.items) >= DevMaxSize
      <4>1. u.stopped <=> Len(u.queue.items) >= DevMaxSize
        BY <3>2, <3>3, FullInPackets
      <4>2. txq.queue.items \in Seq(TxItems)
        BY <1>1 DEF Sound, TxQueues
      <4> QED BY <3>3, <4>1, <4>2
    <3>5. Len(queue.items) > 1 => Len(txq.queue.items) = DevMaxSize - 1
      BY <2>1 DEF ServiceInv
    <3>6. Len(u.queue.items) <= DevMaxSize
      BY <1>1, <2>1, <3>4
    <3>7. Len(queue'.items) > 0 => u.stopped
      BY <1>1, <2>2, <3>4, <3>5
    <3> QED BY <2>1, <2>2, <2>5, <3>1, <3>6, <3>7 DEF ServiceInv
  <2> QED BY <2>3, <2>4, <2>5
<1>8. CASE EndOfTransmission
  <2>1. /\ running = FALSE /\ txq.wakes = 0 /\ TransmitComplete
        /\ UNCHANGED <<queue, running>>
    BY <1>1, <1>8 DEF EndOfTransmission, vars, baseVars
  <2>2. queue.items # <<>> => txq.stopped
    BY <1>1, <2>1 DEF ServiceInv
  <2>3. CASE txq.queue.items = <<>>
    <3>1. UNCHANGED txq
      BY <2>1, <2>3 DEF TransmitComplete, TransmitHead
    <3> QED BY <2>1, <2>2, <3>1 DEF ServiceInv
  <2>4. CASE txq.queue.items # <<>>
    <3>1. PICK u : u = txq'
      OBVIOUS
    <3>2. u = Unqueued(txq)
      BY <2>1, <2>4, <3>1 DEF TransmitComplete, TransmitHead
    <3>3. /\ u \in TxStates /\ u.queue = D!RemoveHead(txq.queue)
          /\ u.stopped <=> txq.stopped /\ D!WouldOverflow(u.queue, Mtu)
          /\ txq.stopped /\ ~u.stopped => u.wakes = txq.wakes + 1
      BY <1>1, <2>4, <3>2, UnqueuedDoes
    <3>4. Sound(u.queue) /\ u.queue.items = Tail(txq.queue.items)
      BY <1>1, <2>4, <3>3, Removed
    <3>5. Len(u.queue.items) = Len(txq.queue.items) - 1
      <4>1. txq.queue.items \in Seq(TxItems)
        BY <1>1 DEF Sound, TxQueues
      <4> QED BY <2>4, <3>4, <4>1
    <3>6. D!WouldOverflow(u.queue, Mtu) <=> Len(u.queue.items) >= DevMaxSize
      BY <3>4, FullInPackets
    <3>7. Len(txq.queue.items) <= DevMaxSize
      BY DEF ServiceInv
    <3> QED BY <1>1, <2>1, <2>2, <3>1, <3>3, <3>5, <3>6, <3>7 DEF ServiceInv
  <2> QED BY <2>3, <2>4
<1>9. CASE UNCHANGED sysVars
  BY <1>9 DEF sysVars, vars, baseVars, devVars, ServiceInv
<1> QED BY <1>4, <1>5, <1>6, <1>7, <1>8, <1>9 DEF SystemNext

-----------------------------------------------------------------------------
(* From one end to the other *)

LEMMA ItemsOnDevice ==
  /\ \A item \in TxItems : item.uid \in Nat
  /\ \A item \in Items : item \in TxItems
<1>1. ASSUME NEW item \in TxItems PROVE item.uid \in Nat
  BY SizeAssumption DEF TxItems
<1>2. ASSUME NEW item \in Items PROVE item \in TxItems
  <2>1. item.size \in Nat
    BY SizeAssumption DEF Items
  <2> QED BY <2>1 DEF Items, TxItems
<1> QED BY <1>1, <1>2

\* The first part of a line can give its place to a packet that joins it from the
\* head of the second.
LEMMA ShiftOne ==
  ASSUME NEW S, NEW a \in Seq(S), NEW b \in Seq(S), b # <<>>
  PROVE  Append(a, Head(b)) \o Tail(b) = a \o b
<1>1. PICK x : x = Append(a, Head(b))
  OBVIOUS
<1>2. PICK y : y = Tail(b)
  OBVIOUS
<1>3. PICK m \in Nat : m = Len(a)
  OBVIOUS
<1>4. PICK n \in Nat : n = Len(b)
  OBVIOUS
<1>5. n > 0 /\ Head(b) \in S /\ Head(b) = b[1]
  BY <1>4
<1>6. /\ x \in Seq(S) /\ Len(x) = m + 1 /\ x[m + 1] = b[1]
      /\ \A i \in 1 .. m : x[i] = a[i]
  BY <1>1, <1>3, <1>5, AppendProperties
<1>7. /\ y \in Seq(S) /\ Len(y) = n - 1
      /\ \A i \in 1 .. n - 1 : y[i] = b[i + 1]
  BY <1>2, <1>4, HeadTailProperties
<1>8. PICK c : c = x \o y
  OBVIOUS
<1>9. PICK d : d = a \o b
  OBVIOUS
<1>10. /\ c \in Seq(S) /\ Len(c) = Len(x) + Len(y)
       /\ \A i \in 1 .. Len(x) + Len(y) :
            c[i] = IF i <= Len(x) THEN x[i] ELSE y[i - Len(x)]
  BY ONLY <1>6, <1>7, <1>8, ConcatProperties
<1>11. /\ d \in Seq(S) /\ Len(d) = m + n
       /\ \A i \in 1 .. m + n : d[i] = IF i <= m THEN a[i] ELSE b[i - m]
  BY <1>3, <1>4, <1>9, ConcatProperties
<1>12. /\ Len(c) = m + n
       /\ \A i \in 1 .. m + n :
            c[i] = IF i <= m + 1 THEN x[i] ELSE y[i - (m + 1)]
  BY <1>5, <1>6, <1>7, <1>10
<1>13. ASSUME NEW i \in 1 .. m + n PROVE c[i] = d[i]
  <2>1. CASE i <= m
    BY <1>6, <1>11, <1>12, <2>1
  <2>2. CASE i = m + 1
    BY <1>6, <1>11, <1>12, <2>2
  <2>3. CASE i > m + 1
    <3>1. c[i] = y[i - (m + 1)] /\ d[i] = b[i - m]
      BY <1>11, <1>12, <2>3
    <3>2. i - (m + 1) \in 1 .. n - 1 /\ (i - (m + 1)) + 1 = i - m
      BY <2>3
    <3> QED BY <1>7, <3>1, <3>2
  <2> QED BY <2>1, <2>2, <2>3
<1>14. c = d
  BY ONLY <1>10, <1>11, <1>12, <1>13, SeqEqual
<1> QED BY <1>1, <1>2, <1>8, <1>9, <1>14

\* A packet that joins the last part joins the line.
LEMMA TailOfLine ==
  ASSUME NEW S, NEW a \in Seq(S), NEW b \in Seq(S), NEW e \in S
  PROVE  a \o Append(b, e) = Append(a \o b, e)
<1>1. <<e>> \in Seq(S) /\ a \o b \in Seq(S)
  BY ConcatProperties
<1>2. a \o Append(b, e) = a \o (b \o <<e>>)
  BY AppendIsConcat
<1>3. @ = (a \o b) \o <<e>>
  BY <1>1, ConcatAssociative
<1>4. @ = Append(a \o b, e)
  BY <1>1, AppendIsConcat
<1> QED BY <1>2, <1>3, <1>4

\* The head of a line is that of its first part, and so is the rest.
LEMMA HeadOfLine ==
  ASSUME NEW S, NEW a \in Seq(S), NEW b \in Seq(S), a # <<>>
  PROVE  a \o b # <<>> /\ Head(a \o b) = Head(a) /\ Tail(a \o b) = Tail(a) \o b
<1>1. PICK h \in S : h = Head(a)
  BY HeadTailProperties
<1>2. PICK t \in Seq(S) : t = Tail(a)
  BY HeadTailProperties
<1>3. PICK o : o = <<h>>
  OBVIOUS
<1>4. o \in Seq(S) /\ Len(o) = 1 /\ o # <<>> /\ Head(o) = h /\ Tail(o) = <<>>
  BY <1>3
<1>5. a = o \o t
  <2>1. <<>> \in Seq(S) /\ Append(<<>>, h) = o /\ <<>> \o a = a
    BY <1>3, ConcatEmptySeq
  <2>2. Append(<<>>, Head(a)) \o Tail(a) = <<>> \o a
    BY <2>1, ShiftOne
  <2> QED BY <1>1, <1>2, <2>1, <2>2
<1>6. PICK r \in Seq(S) : r = t \o b
  BY ConcatProperties
<1>7. a \o b = o \o r
  BY ONLY <1>4, <1>5, <1>6, ConcatAssociative, b \in Seq(S)
<1>8. PICK d : d = o \o r
  OBVIOUS
<1>9. /\ d \in Seq(S) /\ Len(d) = 1 + Len(r) /\ d[1] = h
      /\ \A i \in 1 .. Len(r) : d[i + 1] = r[i]
  <2>1. /\ d \in Seq(S) /\ Len(d) = 1 + Len(r)
        /\ \A i \in 1 .. 1 + Len(r) : d[i] = IF i <= 1 THEN o[i] ELSE r[i - 1]
    <3>1. /\ d \in Seq(S) /\ Len(d) = Len(o) + Len(r)
          /\ \A i \in 1 .. Len(o) + Len(r) :
               d[i] = IF i <= Len(o) THEN o[i] ELSE r[i - Len(o)]
      BY ONLY <1>4, r \in Seq(S), <1>8, ConcatProperties
    <3> QED BY ONLY <1>4, <3>1
  <2>2. o[1] = h
    BY <1>3
  <2>3. Len(r) \in Nat
    OBVIOUS
  <2>4. ASSUME NEW i \in 1 .. Len(r) PROVE d[i + 1] = r[i]
    <3>1. i + 1 \in 1 .. 1 + Len(r) /\ ~(i + 1 <= 1) /\ (i + 1) - 1 = i
      BY <2>3
    <3> QED BY ONLY <2>1, <3>1
  <2> QED BY <2>1, <2>2, <2>3, <2>4
<1>10. d # <<>> /\ Head(d) = h
  BY <1>9
<1>11. Tail(d) = r
  <2>1. PICK e : e = Tail(d)
    OBVIOUS
  <2>2. /\ e \in Seq(S) /\ Len(e) = Len(d) - 1
        /\ \A i \in 1 .. Len(e) : e[i] = d[i + 1]
    BY <1>9, <1>10, <2>1, HeadTailProperties
  <2>3. Len(e) = Len(r)
    BY <1>9, <2>2
  <2>4. \A i \in 1 .. Len(e) : e[i] = r[i]
    BY <1>9, <2>2, <2>3
  <2>5. e = r
    BY ONLY <1>6, <2>2, <2>3, <2>4, SeqEqual
  <2> QED BY <2>1, <2>5
<1> QED BY <1>1, <1>2, <1>6, <1>7, <1>8, <1>10, <1>11

\* The identities of two lines are those of the whole.
LEMMA UidsConcat ==
  ASSUME NEW S, \A e \in S : e.uid \in Nat, NEW a \in Seq(S), NEW b \in Seq(S)
  PROVE  Uids(a \o b) = Uids(a) \o Uids(b)
<1>1. PICK m \in Nat : m = Len(a)
  OBVIOUS
<1>2. PICK n \in Nat : n = Len(b)
  OBVIOUS
<1>3. PICK d : d = a \o b
  OBVIOUS
<1>4. /\ d \in Seq(S) /\ Len(d) = m + n
      /\ \A i \in 1 .. m + n : d[i] = IF i <= m THEN a[i] ELSE b[i - m]
  BY <1>1, <1>2, <1>3, ConcatProperties
<1>5. PICK x : x = Uids(a)
  OBVIOUS
<1>6. PICK y : y = Uids(b)
  OBVIOUS
<1>7. PICK z : z = Uids(d)
  OBVIOUS
<1>8. /\ x \in Seq(Nat) /\ Len(x) = m /\ \A i \in 1 .. m : x[i] = a[i].uid
  BY <1>1, <1>5, UidsType DEF Uids
<1>9. /\ y \in Seq(Nat) /\ Len(y) = n /\ \A i \in 1 .. n : y[i] = b[i].uid
  BY <1>2, <1>6, UidsType DEF Uids
<1>10. /\ z \in Seq(Nat) /\ Len(z) = m + n
       /\ \A i \in 1 .. m + n : z[i] = d[i].uid
  BY <1>4, <1>7, UidsType DEF Uids
<1>11. PICK w : w = x \o y
  OBVIOUS
<1>12. /\ w \in Seq(Nat) /\ Len(w) = m + n
       /\ \A i \in 1 .. m + n : w[i] = IF i <= m THEN x[i] ELSE y[i - m]
  <2>1. /\ w \in Seq(Nat) /\ Len(w) = Len(x) + Len(y)
        /\ \A i \in 1 .. Len(x) + Len(y) :
             w[i] = IF i <= Len(x) THEN x[i] ELSE y[i - Len(x)]
    BY ONLY <1>8, <1>9, <1>11, ConcatProperties
  <2> QED BY ONLY <1>8, <1>9, <2>1
<1>13. ASSUME NEW i \in 1 .. m + n PROVE z[i] = w[i]
  <2>1. CASE i <= m
    <3>1. z[i] = d[i].uid /\ d[i] = a[i] /\ w[i] = x[i]
      BY <1>4, <1>10, <1>12, <2>1
    <3>2. x[i] = a[i].uid
      BY <1>8, <2>1
    <3> QED BY <3>1, <3>2
  <2>2. CASE i > m
    <3>1. z[i] = d[i].uid /\ d[i] = b[i - m] /\ w[i] = y[i - m]
      BY <1>4, <1>10, <1>12, <2>2
    <3>2. i - m \in 1 .. n
      BY <2>2
    <3>3. y[i - m] = b[i - m].uid
      BY ONLY <1>9, <3>2
    <3> QED BY <3>1, <3>3
  <2> QED BY <2>1, <2>2
<1>14. z = w
  BY ONLY <1>10, <1>12, <1>13, SeqEqual
<1> QED BY <1>3, <1>5, <1>6, <1>7, <1>11, <1>14

\* The packet the disc hands over keeps its place in line, though it gets bigger.
LEMMA HandOverKeepsOrder ==
  ASSUME NEW S, \A e \in S : e.uid \in Nat, NEW a \in Seq(S), NEW b \in Seq(S),
         b # <<>>, NEW p \in S, p.uid = Head(b).uid
  PROVE  Uids(Append(a, p) \o Tail(b)) = Uids(a \o b)
<1>1. Append(a, p) \in Seq(S) /\ Tail(b) \in Seq(S)
  BY AppendProperties, HeadTailProperties
<1>2. Uids(Append(a, p) \o Tail(b)) = Uids(Append(a, p)) \o Uids(Tail(b))
  BY <1>1, UidsConcat
<1>3. /\ Uids(Append(a, p)) = Append(Uids(a), p.uid)
      /\ Uids(b) # <<>> /\ p.uid = Head(Uids(b)) /\ Uids(Tail(b)) = Tail(Uids(b))
  BY UidsAppend, UidsTail
<1>4. Append(Uids(a), Head(Uids(b))) \o Tail(Uids(b)) = Uids(a) \o Uids(b)
  BY <1>3, UidsType, ShiftOne
<1> QED BY <1>2, <1>3, <1>4, UidsConcat

\* Each step is an Accept, a Reject, a Deliver or a stutter of LossyQueue on the
\* two queues in a row.
LEMMA StepIsLossyEndToEnd ==
  ASSUME PacketsFit, TypeOK, DeviceInv, FlowControlInv, [SystemNext]_sysVars
  PROVE  [EndToEnd!Next]_EndToEnd!lqVars
<1> DEFINE line == txq.queue.items \o queue.items
<1>1. /\ txq \in TxStates /\ Sound(txq.queue)
      /\ txq.queue.items \in Seq(TxItems) /\ queue.items \in Seq(Items)
  BY DEF DeviceInv, Sound, TxQueues, TypeOK, Queues
<1>2. queue.items \in Seq(TxItems)
  BY <1>1, ItemsOnDevice
<1>3. PICK a \in Seq(TxItems) : a = txq.queue.items
  BY <1>1
<1>4. PICK b \in Seq(TxItems) : b = queue.items
  BY <1>2
<1>5. line \in Seq(TxItems) /\ line = a \o b
  BY <1>3, <1>4, ConcatProperties
<1> HIDE DEF line
<1>6. ASSUME NEW hash \in Hashes, NEW size \in Sizes, Send(Packet(hash, size))
      PROVE  EndToEnd!Accept \/ EndToEnd!Reject
  <2>1. PICK item : item = Packet(hash, size)
    OBVIOUS
  <2>2. Enqueue(item) /\ UNCHANGED <<txq, sent>>
    BY <1>6, <2>1 DEF Send, devVars
  <2>3. /\ item \in Items /\ item.uid = nArrived + 1 /\ nArrived' = nArrived + 1
        /\ \/ queue'.items = Append(queue.items, item) /\ UNCHANGED lost
           \/ queue'.items = queue.items /\ lost' = lost \cup {item.uid}
    BY <2>1, <2>2, EnqueueStoresOrLoses
  <2>4. CASE queue'.items = Append(queue.items, item) /\ UNCHANGED lost
    <3>1. item \in TxItems
      BY <2>3, ItemsOnDevice
    <3>2. line' = Append(line, item)
      <4>1. line' = a \o Append(b, item)
        BY <1>3, <1>4, <2>2, <2>4 DEF line
      <4>2. a \o Append(b, item) = Append(a \o b, item)
        BY <3>1, TailOfLine
      <4> QED BY <1>5, <4>1, <4>2
    <3>3. Uids(line') = Append(Uids(line), nArrived + 1)
      BY <1>5, <2>3, <3>1, <3>2, ItemsOnDevice, UidsAppend
    <3> QED BY <2>2, <2>3, <2>4, <3>3 DEF EndToEnd!Accept, line
  <2>5. CASE queue'.items = queue.items /\ lost' = lost \cup {item.uid}
    BY <2>2, <2>3, <2>5 DEF EndToEnd!Reject
  <2> QED BY <2>3, <2>4, <2>5
<1>7. ASSUME UNCHANGED <<txq, sent, nArrived, lost>>, queue'.items = queue.items
      PROVE  UNCHANGED EndToEnd!lqVars
  BY <1>7 DEF EndToEnd!lqVars
<1>8. CASE WakeCallback
  <2>1. PICK u : u = txq'
    OBVIOUS
  <2>2. u = [txq EXCEPT !.wakes = @ - 1] /\ UNCHANGED <<queue, sent, nArrived, lost>>
    BY <1>8, <2>1 DEF WakeCallback, vars, baseVars
  <2>3. u.queue = txq.queue
    BY <1>1, <2>2 DEF TxStates
  <2> QED BY <2>1, <2>2, <2>3 DEF EndToEnd!lqVars
<1>9. CASE RestartNothing \/ UNCHANGED sysVars
  BY <1>7, <1>9 DEF RestartNothing, sysVars, devVars, vars, baseVars
<1>10. CASE RestartSend
  <2>1. PICK p \in TxItems :
          /\ p.uid = Head(queue.items).uid
          /\ \/ txMachineState = "READY" /\ TransmitHead(Queued(txq, p))
             \/ /\ txMachineState = "BUSY" /\ txq' = Queued(txq, p)
                /\ UNCHANGED <<txMachineState, currentPkt, sent>>
    BY <1>10, SendsOrWaits
  <2>2. /\ queue.items # <<>> /\ queue'.items = Tail(queue.items)
        /\ UNCHANGED <<nArrived, lost>>
    BY <1>10 DEF RestartSend, Dequeue, TakeHead, Q!RemoveHead, TypeOK, Queues
  <2>3. CASE txMachineState = "READY" /\ TransmitHead(Queued(txq, p))
    <3>1. /\ txq'.queue = txq.queue /\ txq.queue.items = <<>>
          /\ sent' = Append(sent, Head(queue.items).uid)
      BY <2>1, <2>3, GoesThrough DEF DeviceInv
    <3>2. line = queue.items /\ line' = Tail(queue.items)
      BY <1>2, <2>2, <3>1, ConcatEmptySeq, HeadTailProperties DEF line
    <3>3. /\ Uids(line) # <<>> /\ Head(queue.items).uid = Head(Uids(line))
          /\ Uids(line') = Tail(Uids(line))
      BY <1>2, <2>2, <3>2, ItemsOnDevice, UidsTail
    <3> QED BY <2>2, <3>1, <3>3 DEF EndToEnd!Next, EndToEnd!Deliver, line
  <2>4. CASE /\ txMachineState = "BUSY" /\ txq' = Queued(txq, p)
             /\ UNCHANGED sent
    <3>1. PICK u : u = txq'
      OBVIOUS
    <3>2. u.queue = D!Insert(txq.queue, p)
      BY <1>1, <2>4, <3>1, QueuedDoes
    <3>3. u.queue.items = Append(txq.queue.items, p)
      BY <1>1, <3>2, Inserted
    <3>4. line' = Append(txq.queue.items, p) \o Tail(queue.items)
      BY <2>2, <3>1, <3>3 DEF line
    <3>5. Uids(line') = Uids(line)
      <4>1. b # <<>> /\ p.uid = Head(b).uid /\ line' = Append(a, p) \o Tail(b)
        BY <1>3, <1>4, <2>1, <2>2, <3>4
      <4>2. Uids(Append(a, p) \o Tail(b)) = Uids(a \o b)
        BY <4>1, ItemsOnDevice, HandOverKeepsOrder
      <4> QED BY <1>5, <4>1, <4>2
    <3> QED BY <2>2, <2>4, <3>5 DEF EndToEnd!lqVars, line
  <2> QED BY <2>1, <2>3, <2>4
<1>11. CASE EndOfTransmission
  <2>1. TransmitComplete /\ UNCHANGED <<queue, nArrived, lost>>
    BY <1>11 DEF EndOfTransmission, vars, baseVars
  <2>2. CASE txq.queue.items = <<>>
    <3>1. UNCHANGED <<txq, sent>>
      BY <2>1, <2>2 DEF TransmitComplete, TransmitHead
    <3> QED BY <1>7, <2>1, <3>1
  <2>3. CASE txq.queue.items # <<>>
    <3>1. PICK u : u = txq'
      OBVIOUS
    <3>2. u = Unqueued(txq) /\ sent' = Append(sent, Head(txq.queue.items).uid)
      BY <2>1, <2>3, <3>1 DEF TransmitComplete, TransmitHead
    <3>3. u.queue = D!RemoveHead(txq.queue)
      BY <1>1, <2>3, <3>2, UnqueuedDoes
    <3>4. u.queue.items = Tail(txq.queue.items)
      BY <1>1, <2>3, <3>3, Removed
    <3>5. line # <<>> /\ Head(line) = Head(txq.queue.items) /\ line' = Tail(line)
      <4>1. a # <<>> /\ line' = Tail(a) \o b
        BY <1>3, <1>4, <2>1, <2>3, <3>1, <3>4 DEF line
      <4>2. a \o b # <<>> /\ Head(a \o b) = Head(a) /\ Tail(a \o b) = Tail(a) \o b
        BY <4>1, HeadOfLine
      <4> QED BY <1>3, <1>5, <4>1, <4>2
    <3>6. /\ Uids(line) # <<>> /\ Head(line).uid = Head(Uids(line))
          /\ Uids(line') = Tail(Uids(line))
      BY <1>5, <3>5, ItemsOnDevice, UidsTail
    <3> QED BY <2>1, <3>2, <3>5, <3>6 DEF EndToEnd!Next, EndToEnd!Deliver, line
  <2> QED BY <2>2, <2>3
<1> QED BY <1>6, <1>7, <1>8, <1>9, <1>10, <1>11 DEF SystemNext, EndToEnd!Next

-----------------------------------------------------------------------------
(* The theorems *)

THEOREM SystemInvariance == SystemSpec => [](TypeOK /\ DeviceInv)
<1>1. IInv => TypeOK
  BY DEF IInv
<1> QED BY <1>1, DiscInsideSystem, Invariance, InitDeviceInv, NextDeviceInv, PTL
        DEF SystemSpec

\* The device is well formed in every state: it is busy just while it has a packet
\* to send, and never is more than one wake callback outstanding.
THEOREM DeviceTypeCorrect == SystemSpec => []DeviceTypeOK
<1>1. DeviceInv => DeviceTypeOK
  <2> SUFFICES ASSUME DeviceInv PROVE DeviceTypeOK
    OBVIOUS
  <2>1. /\ txq.stopped \in BOOLEAN /\ txq.queue.stored \in Counters
        /\ running \in BOOLEAN
    BY DEF DeviceInv, TxStates, TxQueues
  <2>2. txq.wakes \in 0 .. 1
    BY DEF DeviceInv, TxStates
  <2> QED BY <2>1, <2>2 DEF DeviceInv, DeviceTypeOK
<1> QED BY <1>1, SystemInvariance, PTL

THEOREM FlowControlInvariance ==
  ASSUME PacketsFit
  PROVE  SystemSpec => []FlowControlInv
<1>1. SystemInit => FlowControlInv
  BY InitFlowControlInv
<1>2. TypeOK /\ DeviceInv /\ FlowControlInv /\ [SystemNext]_sysVars
        => FlowControlInv'
  BY NextFlowControlInv
<1> QED BY <1>1, <1>2, SystemInvariance, PTL DEF SystemSpec

\* The queue of the device is stopped just when it could not take a packet of MTU
\* bytes, however departures, arrivals and wake-ups interleave.
THEOREM StoppedIffFullCorrect ==
  ASSUME PacketsFit
  PROVE  SystemSpec => []StoppedIffFull
<1>1. FlowControlInv => StoppedIffFull
  BY DEF FlowControlInv
<1> QED BY <1>1, FlowControlInvariance, PTL

\* Flow control is enough: the device never drops what the disc hands over.
THEOREM DeviceNeverDiscardsCorrect ==
  ASSUME PacketsFit
  PROVE  SystemSpec => []DeviceNeverDiscards
<1>1. FlowControlInv => DeviceNeverDiscards
  BY DEF FlowControlInv
<1> QED BY <1>1, FlowControlInvariance, PTL

\* Packets leave on the channel in the order the disc accepted them, each once,
\* and only the disc loses any.
THEOREM ImplementsLossyQueueEndToEndCorrect ==
  ASSUME PacketsFit
  PROVE  SystemSpec => ImplementsLossyQueueEndToEnd
<1>1. SystemInit => EndToEnd!Init
  <2> SUFFICES ASSUME SystemInit PROVE EndToEnd!Init
    OBVIOUS
  <2>1. txq.queue = D!EmptyQueue
    BY DEF SystemInit, DeviceInit
  <2>2. queue.items = <<>> /\ txq.queue.items = <<>>
    BY <2>1 DEF SystemInit, Init, BaseInit, Q!EmptyQueue, D!EmptyQueue
  <2>3. txq.queue.items \o queue.items = <<>>
    BY <2>2
  <2>4. Uids(txq.queue.items \o queue.items) = <<>>
    BY <2>3 DEF Uids
  <2> QED BY <2>4 DEF SystemInit, DeviceInit, Init, BaseInit, EndToEnd!Init
<1>2. TypeOK /\ DeviceInv /\ FlowControlInv /\ [SystemNext]_sysVars
        => [EndToEnd!Next]_EndToEnd!lqVars
  BY StepIsLossyEndToEnd
<1> QED BY <1>1, <1>2, SystemInvariance, FlowControlInvariance, PTL
        DEF SystemSpec, ImplementsLossyQueueEndToEnd, EndToEnd!Spec

THEOREM ServiceInvariance ==
  ASSUME DevUnit = "packets"
  PROVE  SystemSpec => [](DeviceInv /\ FlowControlInv /\ ServiceInv)
<1>1. PacketsFit
  BY DEF PacketsFit
<1>2. SystemSpec => []FlowControlInv
  BY <1>1, FlowControlInvariance
<1>3. TypeOK /\ DeviceInv /\ FlowControlInv /\ ServiceInv /\ [SystemNext]_sysVars
        => ServiceInv'
  BY NextServiceInv
<1> QED BY <1>2, <1>3, InitServiceInv, SystemInvariance, PTL DEF SystemSpec

\* A device queue that is stopped holds a packet, which a busy device will send.
LEMMA StoppedIsBusy ==
  ASSUME DevUnit = "packets", DeviceInv, FlowControlInv, txq.stopped
  PROVE  txMachineState = "BUSY" /\ txq.queue.items # <<>>
<1>1. Sound(txq.queue) /\ Len(txq.queue.items) >= DevMaxSize
  BY FullInPackets DEF DeviceInv, FlowControlInv, StoppedIffFull
<1>2. Len(txq.queue.items) > 0 /\ txq.queue.items \in Seq(TxItems)
  BY <1>1, DeviceAssumption DEF Sound, TxQueues
<1>3. txq.queue.items # <<>>
  BY <1>2
<1> QED BY <1>3 DEF DeviceInv

\* No wake-up is lost: between two events, a backlog in the disc has a wake
\* callback coming or a departure that will bring one.
THEOREM BacklogWillBeServedCorrect ==
  ASSUME DevUnit = "packets"
  PROVE  SystemSpec => []BacklogWillBeServed
<1>1. DeviceInv /\ FlowControlInv /\ ServiceInv => BacklogWillBeServed
  <2> SUFFICES ASSUME DeviceInv, FlowControlInv, ServiceInv,
                      ~running, queue.items # <<>>, ~(txq.wakes > 0)
               PROVE  /\ txq.stopped /\ txMachineState = "BUSY"
                      /\ txq.queue.items # <<>>
    BY DEF BacklogWillBeServed
  <2>1. txq.stopped
    BY DEF ServiceInv
  <2> QED BY <2>1, StoppedIsBusy
<1> QED BY <1>1, ServiceInvariance, PTL

\* The link never idles while a packet waits in either queue.
THEOREM WorkConservingCorrect ==
  ASSUME DevUnit = "packets"
  PROVE  SystemSpec => []WorkConserving
<1>1. DeviceInv /\ FlowControlInv /\ ServiceInv => WorkConserving
  <2> SUFFICES ASSUME DeviceInv, FlowControlInv, ServiceInv,
                      ~running, txMachineState = "READY"
               PROVE  /\ txq.queue.items = <<>>
                      /\ queue.items = <<>> \/ txq.wakes > 0
    BY DEF WorkConserving
  <2>1. ~txq.stopped
    BY StoppedIsBusy
  <2> QED BY <2>1 DEF DeviceInv, ServiceInv
<1> QED BY <1>1, ServiceInvariance, PTL

=============================================================================
