--------------------------- MODULE StabilizedRed ---------------------------
(***************************************************************************)
(* StabilizedRedQueueDisc (src/sred): the zombie list, DoEnqueue and       *)
(* DoDequeue, driven through QueueDisc::Enqueue and QueueDisc::Dequeue.    *)
(* An event handler of the simulator runs to completion, so each call is   *)
(* one step.                                                               *)
(***************************************************************************)
EXTENDS SredBase

VARIABLE zombies  \* the list of [flowID, count], at most MaxZombies long

vars == <<baseVars, zombies>>

-----------------------------------------------------------------------------
(* The zombie list *)

Zombie(flow) == [flowID |-> flow, count |-> 0]

\* Faulty forms of the definition below, which the properties must refute.
RememberOneTooMany(item) ==
  /\ Len(zombies) <= MaxZombies
  /\ zombies' = Append(zombies, Zombie(item.flow))
  /\ UNCHANGED p_hitFreq

RememberEachFlowOnce(item) ==
  /\ Len(zombies) < MaxZombies
  /\ zombies' = IF \E i \in DOMAIN zombies : zombies[i].flowID = item.flow
                THEN zombies
                ELSE Append(zombies, Zombie(item.flow))
  /\ UNCHANGED p_hitFreq

\* The list is not full: the packet's flow is pushed on it.
Remember(item) ==
  /\ Len(zombies) < MaxZombies
  /\ zombies' = Append(zombies, Zombie(item.flow))
  /\ UNCHANGED p_hitFreq

\* Faulty forms of the definition below, which the properties must refute.
HitNotInFrequency(item, index) ==
  /\ zombies[index].flowID = item.flow
  /\ zombies' = [zombies EXCEPT ![index].count = @ + 1]
  /\ p_hitFreq' = UpdatedHitFreq(p_hitFreq, 0)

\* The list is full and the zombie drawn carries the packet's flow.
Hit(item, index) ==
  /\ zombies[index].flowID = item.flow
  /\ zombies' = [zombies EXCEPT ![index].count = @ + 1]
  /\ p_hitFreq' = UpdatedHitFreq(p_hitFreq, 1)

\* Faulty forms of the definition below, which the properties must refute.
MissKeepsCount(item, index) ==
  /\ zombies[index].flowID # item.flow
  /\ zombies' = [zombies EXCEPT ![index].flowID = item.flow]
  /\ p_hitFreq' = UpdatedHitFreq(p_hitFreq, 0)

\* It carries another flow: it is overwritten with probability p_overwrite.
Miss(item, index) ==
  /\ zombies[index].flowID # item.flow
  /\ \/ /\ MayBeBelow(POverwrite)
        /\ zombies' = [zombies EXCEPT ![index] = Zombie(item.flow)]
     \/ /\ MayBeAbove(POverwrite)
        /\ UNCHANGED zombies
  /\ p_hitFreq' = UpdatedHitFreq(p_hitFreq, 0)

-----------------------------------------------------------------------------
(* QueueDisc::Enqueue, by the path DoEnqueue takes, and Dequeue *)

\* Faulty forms of the definition below, which the properties must refute.
EnqueueNoMatchUncounted(item) ==
  /\ Arrives(item)
  /\ NoFilterMatches(item)
  /\ stats' = Received(stats, item)
  /\ lost' = lost \cup {item.uid}
  /\ UNCHANGED <<queue, delivered, zombies, p_hitFreq>>

EnqueueNoMatch(item) ==
  /\ Arrives(item)
  /\ NoFilterMatches(item)
  /\ Refuse(item, Received(stats, item), "NoMatch")
  /\ UNCHANGED <<zombies, p_hitFreq>>

EnqueueWarmUp(item) ==
  /\ Arrives(item)
  /\ ~NoFilterMatches(item)
  /\ Remember(item)
  /\ WarmUpEnd(item)

EnqueueSteady(item) ==
  /\ Arrives(item)
  /\ ~NoFilterMatches(item)
  /\ Len(zombies) >= MaxZombies
  /\ \E index \in DOMAIN zombies : Hit(item, index) \/ Miss(item, index)
  /\ SteadyEnd(item, p_hitFreq')

Enqueue(item) ==
  EnqueueNoMatch(item) \/ EnqueueWarmUp(item) \/ EnqueueSteady(item)

Dequeue == TakeHead /\ UNCHANGED zombies

\* The packet that arrives next.
Packet(hash, size) ==
  [uid |-> nArrived + 1, flow |-> AsInt32(hash), size |-> size]

\* InitializeParams
Init == BaseInit /\ zombies = <<>>

Next == \/ \E hash \in Hashes, size \in Sizes : Enqueue(Packet(hash, size))
        \/ Dequeue

Spec == Init /\ [][Next]_vars

-----------------------------------------------------------------------------
(* Properties *)

Items == [uid : 1 .. MaxArrivals, flow : FlowIDs, size : Sizes]
Counters == [packets : Nat, bytes : Nat]
Queues == [items : Seq(Items), stored : Counters, discarded : Nat]
Statistics == [stored : Counters, received : Counters, enqueued : Counters,
               dequeued : Counters, droppedBefore : Counters,
               byReason : [Reasons -> Nat]]

\* The state keeps its shape: no counter goes below zero (they are unsigned in
\* the code), the list keeps within its limit, p_hitFreq stays in [0, 1].
TypeOK ==
  /\ queue \in Queues
  /\ stats \in Statistics
  /\ p_hitFreq \in 0 .. HitScale
  /\ nArrived \in 0 .. MaxArrivals
  /\ arrivals \in [FlowIDs -> Nat]
  /\ lost \subseteq 1 .. MaxArrivals
  /\ delivered \in Seq(1 .. MaxArrivals)
  /\ zombies \in Seq([flowID : FlowIDs, count : Nat])
  /\ Len(zombies) <= MaxZombies

\* A predicate on one drop: the step counts a drop for reason r.
Drops(r) == stats'.byReason[r] > stats.byReason[r]

\* received = dropped before enqueue + enqueued, as QueueDisc::Enqueue asserts,
\* up to the packets with flow identifier -1, which DoEnqueue drops and then
\* carries on with; queued = enqueued - dequeued, as QueueDisc::Dequeue asserts.
Accounting ==
  /\ stats.droppedBefore.packets + stats.enqueued.packets =
       stats.received.packets + stats.byReason["InvalidFlowID"]
  /\ stats.stored.packets = stats.enqueued.packets - stats.dequeued.packets
  /\ stats.stored.bytes = stats.enqueued.bytes - stats.dequeued.bytes

\* The assertion of QueueDisc::Enqueue as it stands.
ReceivedIsDroppedPlusEnqueued ==
  stats.received.packets = stats.droppedBefore.packets + stats.enqueued.packets

\* The counters of the disc and those of its internal queue, two copies kept in
\* step only by the trace callbacks, agree with each other and with the number
\* of packets held, and the queue respects its limit.
CountersInStep ==
  /\ stats.stored = queue.stored
  /\ queue.stored.packets = Len(queue.items)
  /\ Q!CurrentSize(queue) <= MaxSize

\* The sum of w[1], ..., w[n].
SumUpTo(w, n) ==
  LET sum[i \in 0 .. n] == IF i = 0 THEN 0 ELSE sum[i - 1] + w[i]
  IN  sum[n]

\* The byte counter is the sum of the sizes of the packets held, whatever
\* mixture of sizes has come and gone.
SizesOf(items) == [i \in DOMAIN items |-> items[i].size]
BytesMatchItems ==
  queue.stored.bytes = SumUpTo(SizesOf(queue.items), Len(queue.items))

AllDrops(byReason) ==
    byReason["NoMatch"] + byReason["InvalidFlowID"] + byReason["QUEUE_OVERFLOW"]
  + byReason["Zap"] + byReason["Overflow"] + byReason["InternalQueue"]

\* Each packet that arrived is enqueued once or refused once, and the drop
\* counters know of every refusal: those of the internal queue too.
OneFatePerPacket ==
  /\ stats.enqueued.packets + Cardinality(lost) = nArrived
  /\ stats.droppedBefore.packets =
       Cardinality(lost) + stats.byReason["InvalidFlowID"]
  /\ stats.droppedBefore.packets = AllDrops(stats.byReason)
  /\ queue.discarded = stats.byReason["InternalQueue"]

\* The list is evidence of past arrivals: the zombies of a flow, each with its
\* hits, never account for more packets than the flow has sent.
Evidence(list, flow) ==
  [i \in DOMAIN list |->
     IF list[i].flowID = flow THEN list[i].count + 1 ELSE 0]
ZombiesAreEvidence ==
  \A f \in FlowIDs :
    SumUpTo(Evidence(zombies, f), Len(zombies)) <= arrivals[f]

\* While the list fills up nothing is compared and nothing is dropped at random:
\* it holds one zombie for each packet classified, none with a hit.
WarmUpIsClean ==
  /\ Len(zombies) < MaxZombies =>
       /\ Len(zombies) = nArrived - stats.byReason["NoMatch"]
       /\ p_hitFreq = 0
       /\ \A i \in DOMAIN zombies : zombies[i].count = 0
  /\ p_hitFreq > 0 => Len(zombies) = MaxZombies

\* A hit in the list is never forgotten by the frequency, however many misses
\* follow, so the drop probability is never computed by a division by zero once
\* a flow has been seen twice.
HitsLeaveATrace ==
  Alpha > 0 /\ (\E i \in DOMAIN zombies : zombies[i].count > 0) => p_hitFreq > 0

\* "maximum probability of dropping a packet" (attribute MaximumDropProbability):
\* the probability of a random drop of the next packet is at most p_max.
ZapAtMostPMax ==
  LET p == ProbabilityZap(queue, p_hitFreq)
  IN  Len(zombies) = MaxZombies => p.num * PMaxDen <= PMaxNum * p.den

\* A packet is dropped at random only with a full zombie list and between a
\* sixth of the capacity and the capacity in bytes, even where the formula
\* divides zero by zero.
ZapOnlyUnderLoad ==
  [][Drops("Zap") => /\ Len(zombies) = MaxZombies
                     /\ MaxSize <= 6 * queue.stored.bytes
                     /\ queue.stored.bytes <= MaxSize]_vars

\* A drop for lack of room happens only when the packet would exceed the limit,
\* "the maximum number of packets accepted by this queue disc" (MaxSize).
OverflowOnlyWhenFull ==
  [][\A r \in {"QUEUE_OVERFLOW", "Overflow", "InternalQueue"} :
       Drops(r) => \E size \in Sizes :
         /\ ~Q!HasRoomFor(queue, [size |-> size])
         /\ stats'.received.bytes = stats.received.bytes + size]_vars

\* "if 1/3 rd buffer capacity <= queue <= buffer capacity, then p_sred = p_max":
\* with the queue in the unit of its capacity.
FullPressureAboveAThird ==
  3 * Q!CurrentSize(queue) >= MaxSize => SredQuarters(queue) = 4

\* In packet mode the room test of DoEnqueue is exact: the internal queue never
\* refuses a packet it is given.
InternalQueueNeverRefuses == queue.discarded = 0

\* The disc is a lossy queue: whatever the list, the filters and the dice do,
\* packets are accepted or refused on arrival and leave once, in order.
Uids(items) == [i \in DOMAIN items |-> items[i].uid]

Lossy == INSTANCE LossyQueue WITH n <- nArrived, pending <- Uids(queue.items)

ImplementsLossyQueue == Lossy!Spec

=============================================================================
