-------------------------- MODULE TokenBucketDisc --------------------------
(***************************************************************************)
(* TbfQueueDisc as the root disc of a device with flow control and any     *)
(* number of transmission queues, over a child disc with the DoPeek of the *)
(* base class: CoDel, which may drop packets whenever one is asked for,    *)
(* during a peek too.                                                      *)
(*                                                                         *)
(* As in TrafficControl an iteration of QueueDisc::Run is a step, and no   *)
(* event happens while running is TRUE; the quota of Run is taken to be    *)
(* larger than the backlog.  A tick is one unit of the simulator's clock.  *)
(***************************************************************************)
EXTENDS Integers, Sequences, FiniteSets

CONSTANTS Queues,       \* transmission queues of the device
          DevMaxSize,   \* packets each of them holds
          Sizes,        \* GetSize () of the packets
          Limit,        \* MaxSize of the child disc, in packets
          Second,       \* ticks in a second
          Rate, Burst,  \* bits per second of the first bucket, and its size
          PeakRate, Mtu, \* the same of the second bucket; no rate, no bucket
          Horizon,      \* bound: ticks counted since the check point
          MaxArrivals   \* bound: packets that ever arrive

\* The tokens that a number of ticks brings: a rate is taken in whole bytes per
\* second, and what it brings is rounded to the nearest token.
BytesPerSecond(rate) == rate \div 8
Credit(rate, ticks) ==
  (2 * ticks * BytesPerSecond(rate) + Second) \div (2 * Second)

\* By then a bucket that is ever refilled is full.
FullBy(rate, size, ticks) == BytesPerSecond(rate) > 0 => Credit(rate, ticks) >= size

\* A packet larger than a bucket would wait for tokens for ever.
ASSUME TokenBucketAssumption ==
  /\ IsFiniteSet(Queues) /\ Queues # {}
  /\ DevMaxSize \in Nat \ {0} /\ Limit \in Nat \ {0} /\ MaxArrivals \in Nat
  /\ Second \in Nat \ {0} /\ Rate \in Nat \ {0} /\ PeakRate \in Nat
  /\ Burst \in Nat /\ Mtu \in Nat /\ Horizon \in Nat
  /\ Sizes \subseteq 1 .. Burst
  /\ PeakRate > 0 => Sizes \subseteq 1 .. Mtu
  /\ FullBy(Rate, Burst, Horizon) /\ FullBy(PeakRate, Mtu, Horizon)

VARIABLES
  items,      \* the internal queue of the child
  kept,       \* m_requeued of the child: a packet it was asked to peek
  nPackets,   \* m_nPackets of the child; that of the root follows it
  requeued,   \* m_requeued of the root: a packet Transmit gave back
  btokens, ptokens,  \* m_btokens, m_ptokens
  elapsed,    \* ticks since m_timeCheckPoint, up to Horizon
  watchdog,   \* ticks until the event m_id, or Expired
  txqs,       \* the transmission queues: [held, stopped, wakes]
  running,    \* m_running of the root
  nArrived,   \* packets that reached Send so far
  dropped,    \* history: the packets the child dropped, before or after
  sent,       \* history: the packets given to the device
  excess, peakExcess  \* history, see RateIsKept

childVars  == <<items, kept, nPackets>>
bucketVars == <<btokens, ptokens, elapsed>>
rateVars   == <<excess, peakExcess>>
vars == <<childVars, requeued, bucketVars, watchdog, txqs, running, nArrived,
          dropped, sent, rateVars>>

\* With headers counting the calls of AddHeader; None is no packet.
Packets == [uid : 1 .. MaxArrivals, size : Sizes, txq : Queues, headers : Nat]
None    == [uid |-> 0]
Expired == -1

Least(a, b)    == IF a < b THEN a ELSE b
Greatest(a, b) == IF a < b THEN b ELSE a

-----------------------------------------------------------------------------
Init ==
  /\ items = <<>> /\ kept = None /\ nPackets = 0
  /\ requeued = None
  /\ btokens = Burst /\ ptokens = Mtu /\ elapsed = 0
  /\ watchdog = Expired
  /\ txqs = [q \in Queues |-> [held |-> 0, stopped |-> FALSE, wakes |-> 0]]
  /\ running = FALSE
  /\ nArrived = 0 /\ dropped = {} /\ sent = <<>>
  /\ excess = 0 /\ peakExcess = 0

\* TrafficControlLayer::Send with the DoEnqueue of tbf and of its child, and
\* the beginning of Run.
Send(size, txq) ==
  LET item == [uid |-> nArrived + 1, size |-> size, txq |-> txq, headers |-> 0]
  IN  /\ ~running /\ nArrived < MaxArrivals
      /\ nArrived' = nArrived + 1
      /\ \/ /\ nPackets < Limit
            /\ items' = Append(items, item) /\ nPackets' = nPackets + 1
            /\ UNCHANGED dropped
         \/ /\ nPackets >= Limit
            /\ dropped' = dropped \cup {item.uid}
            /\ UNCHANGED <<items, nPackets>>
      /\ running' = TRUE
      /\ UNCHANGED <<kept, requeued, bucketVars, watchdog, txqs, sent, rateVars>>

-----------------------------------------------------------------------------
(* What Run does in an iteration *)

\* Faulty forms of the definition below, which the properties must refute.
DropUncounted(n, k) == n

\* DropAfterDequeue of k packets.  In a peek the internal queue did not tell
\* the disc that they left: the function makes up for it.
DropAfterDequeue(n, k) == n - k

\* What the child may drop when it is asked for a packet it has: nothing if it
\* kept one; otherwise the first k, never the last (MinBytes is positive).
MayDrop(k) == IF kept # None THEN k = 0 ELSE k < Len(items)

\* It is asked to peek: it drops them and keeps the next.
PeekFrom(k) ==
  /\ MayDrop(k)
  /\ dropped' = dropped \cup {items[i].uid : i \in 1 .. k}

Peeked(k) == IF kept # None THEN kept ELSE items[k + 1]

Behind(k) == IF kept # None THEN items
             ELSE SubSeq(items, k + 2, Len(items))

\* What the buckets would hold after a packet of this size.
BTokens    == Least(Burst, btokens + Credit(Rate, elapsed))
PTokens    == Least(Mtu, ptokens + Credit(PeakRate, elapsed))
Btoks(size) == BTokens - size
Ptoks(size) == IF PeakRate > 0 THEN PTokens - size ELSE 0
Conforms(size) == Btoks(size) >= 0 /\ Ptoks(size) >= 0

\* CalculateBytesTxTime drops the fraction of a tick, and counts bits.
TxTime(rate, bytes) == IF bytes > 0 THEN (8 * bytes * Second) \div rate ELSE 0

\* The time until there should be enough tokens in both.
RequiredDelay(size) ==
  Greatest(TxTime(Rate, -Btoks(size)),
           IF PeakRate > 0 THEN TxTime(PeakRate, -Ptoks(size)) ELSE 0)

\* Faulty forms of the definition below, which the properties must refute.
ConsumeKeepingCheckPoint(size) ==
  /\ btokens' = Btoks(size) /\ ptokens' = Ptoks(size)
  /\ UNCHANGED elapsed

\* The tokens are taken, as of now.
Consume(size) ==
  /\ btokens' = Btoks(size) /\ ptokens' = Ptoks(size)
  /\ elapsed' = 0

\* m_send, and the flow control of the queue the packet goes to; Run goes on
\* unless the disc is empty or that queue is stopped.
Transmit(item) ==
  /\ sent' = Append(sent, item)
  /\ LET held == txqs[item.txq].held + 1
     IN  txqs' = [txqs EXCEPT ![item.txq].held = held,
                              ![item.txq].stopped = held >= DevMaxSize]
  /\ running' = (nPackets' # 0 /\ ~txqs'[item.txq].stopped)

\* DequeuePacket has a packet to ask for: the requeued one, which blocks the
\* others while its queue is stopped; otherwise any, unless the device has one
\* queue and it is stopped.
MayDequeue == IF requeued # None THEN ~txqs[requeued.txq].stopped
              ELSE Cardinality(Queues) > 1 \/ \A q \in Queues : ~txqs[q].stopped

RunBlocked == /\ running /\ ~MayDequeue
              /\ running' = FALSE
              /\ UNCHANGED <<childVars, requeued, bucketVars, watchdog, txqs,
                             nArrived, dropped, sent, rateVars>>

\* Faulty forms of the definition below, which the properties must refute.
RunRequeuedAddsHeader ==
  /\ running /\ requeued # None /\ MayDequeue
  /\ requeued' = None
  /\ UNCHANGED <<childVars, bucketVars, watchdog, nArrived, dropped, rateVars>>
  /\ Transmit([requeued EXCEPT !.headers = @ + 1])

\* A requeued packet goes out before any other.
RunRequeued == /\ running /\ requeued # None /\ MayDequeue
               /\ requeued' = None
               /\ UNCHANGED <<childVars, bucketVars, watchdog, nArrived, dropped,
                              rateVars>>
               /\ Transmit(requeued)

\* The child has no packet.
RunNothing ==
  /\ running /\ requeued = None /\ MayDequeue
  /\ kept = None /\ items = <<>>
  /\ running' = FALSE
  /\ UNCHANGED <<childVars, requeued, bucketVars, watchdog, txqs, nArrived, dropped,
                 sent, rateVars>>

\* Faulty forms of the definition below, which the properties must refute.
RunShortUnscheduled(k) ==
  /\ running /\ requeued = None /\ MayDequeue
  /\ PeekFrom(k)
  /\ ~Conforms(Peeked(k).size)
  /\ items' = Behind(k) /\ kept' = Peeked(k)
  /\ nPackets' = DropAfterDequeue(nPackets, k)
  /\ running' = FALSE
  /\ UNCHANGED <<watchdog, requeued, bucketVars, txqs, nArrived, sent, rateVars>>

\* There are not enough tokens: the child keeps the packet, and Run is scheduled
\* unless it is already.
RunShort(k) ==
  /\ running /\ requeued = None /\ MayDequeue
  /\ PeekFrom(k)
  /\ ~Conforms(Peeked(k).size)
  /\ items' = Behind(k) /\ kept' = Peeked(k)
  /\ nPackets' = DropAfterDequeue(nPackets, k)
  /\ watchdog' = IF watchdog = Expired THEN RequiredDelay(Peeked(k).size)
                 ELSE watchdog
  /\ running' = FALSE
  /\ UNCHANGED <<requeued, bucketVars, txqs, nArrived, sent, rateVars>>

\* What a packet adds to excess and peakExcess, see RateIsKept.
Excess(size) == (2 * size - 1) * Second

\* There are: the packet leaves the child, which counts it only now, and gets
\* its header; it is sent, or requeued when its queue is stopped.
RunDequeue(k) ==
  LET item == [Peeked(k) EXCEPT !.headers = @ + 1]
  IN  /\ running /\ requeued = None /\ MayDequeue
      /\ PeekFrom(k)
      /\ Conforms(item.size)
      /\ items' = Behind(k) /\ kept' = None
      /\ nPackets' = DropAfterDequeue(nPackets, k) - 1
      /\ Consume(item.size)
      /\ excess' = excess + Excess(item.size)
      /\ peakExcess' = peakExcess + Excess(item.size)
      /\ \/ /\ txqs[item.txq].stopped
            /\ requeued' = item /\ running' = FALSE
            /\ UNCHANGED <<txqs, sent>>
         \/ /\ ~txqs[item.txq].stopped
            /\ Transmit(item)
            /\ UNCHANGED requeued
      /\ UNCHANGED <<watchdog, nArrived>>

RunStep == \/ RunBlocked \/ RunRequeued \/ RunNothing
           \/ \E k \in 0 .. Len(items) : RunShort(k) \/ RunDequeue(k)

-----------------------------------------------------------------------------
(* Events *)

\* The device takes a packet from a queue, which is woken if it was stopped.
DeviceDequeue(q) ==
  /\ ~running /\ txqs[q].held > 0
  /\ txqs' = [txqs EXCEPT ![q].held = @ - 1, ![q].stopped = FALSE,
                          ![q].wakes = IF txqs[q].stopped THEN @ + 1 ELSE @]
  /\ UNCHANGED <<childVars, requeued, bucketVars, watchdog, running, nArrived,
                 dropped, sent, rateVars>>

\* The event Wake scheduled: Run, whatever queue was woken.
WakeCallback(q) ==
  /\ ~running /\ txqs[q].wakes > 0
  /\ txqs' = [txqs EXCEPT ![q].wakes = @ - 1]
  /\ running' = TRUE
  /\ UNCHANGED <<childVars, requeued, bucketVars, watchdog, nArrived, dropped, sent,
                 rateVars>>

\* The event m_id: Run.
Watchdog ==
  /\ ~running /\ watchdog = 0
  /\ watchdog' = Expired
  /\ running' = TRUE
  /\ UNCHANGED <<childVars, requeued, bucketVars, txqs, nArrived, dropped, sent,
                 rateVars>>

\* The clock goes on to the next event, and not past one that is due.
TimePasses ==
  /\ ~running /\ watchdog # 0 /\ \A q \in Queues : txqs[q].wakes = 0
  /\ elapsed' = Least(elapsed + 1, Horizon)
  /\ watchdog' = IF watchdog = Expired THEN Expired ELSE watchdog - 1
  /\ excess' = Greatest(excess - 2 * BytesPerSecond(Rate), 0)
  /\ peakExcess' = Greatest(peakExcess - 2 * BytesPerSecond(PeakRate), 0)
  /\ UNCHANGED <<childVars, requeued, btokens, ptokens, txqs, running, nArrived,
                 dropped, sent>>

Next == \/ \E size \in Sizes, txq \in Queues : Send(size, txq)
        \/ RunStep
        \/ \E q \in Queues : DeviceDequeue(q) \/ WakeCallback(q)
        \/ Watchdog
        \/ TimePasses

\* Loops end, the simulator executes what is scheduled, and the device serves
\* each of its queues.  Nothing obliges the upper layers to send.
Fairness ==
  /\ WF_vars(RunStep) /\ WF_vars(Watchdog) /\ WF_vars(TimePasses)
  /\ \A q \in Queues : WF_vars(DeviceDequeue(q)) /\ WF_vars(WakeCallback(q))

Spec == Init /\ [][Next]_vars /\ Fairness

-----------------------------------------------------------------------------
\* What the variables hold; each bucket is between empty and full.
TypeOK ==
  /\ items \in Seq(Packets) /\ nPackets \in Int
  /\ kept \in Packets \cup {None} /\ requeued \in Packets \cup {None}
  /\ btokens \in 0 .. Burst /\ ptokens \in 0 .. Mtu /\ elapsed \in 0 .. Horizon
  /\ nArrived \in 0 .. MaxArrivals
  /\ excess \in Nat /\ peakExcess \in Nat

Ids(s)  == {s[i].uid : i \in DOMAIN s}
Held    == (Ids(items) \cup {kept.uid, requeued.uid}) \ {0}

\* The counter of the disc, which tells Run whether to go on, is the number of
\* packets in it, peeked or not; and each packet that arrived is there, with the
\* device, requeued between the two, or was dropped, and nowhere else.
EveryPacketInOnePlace ==
  /\ nPackets = Len(items) + (IF kept = None THEN 0 ELSE 1)
  /\ Held \cup Ids(sent) \cup dropped = 1 .. nArrived
  /\ Cardinality(Held) + Len(sent) + Cardinality(dropped) = nArrived
  /\ Cardinality(Held) = nPackets + (IF requeued = None THEN 0 ELSE 1)

\* The device gets packets in the order they arrived, and each with one header,
\* whether it was peeked, blocked for want of tokens, or requeued before.
SentInOrderWithHeader ==
  \A i \in DOMAIN sent :
    /\ sent[i].headers = 1
    /\ \A j \in 1 .. i - 1 : sent[j].uid < sent[i].uid

\* In no interval does the disc release more bytes than its rate allows in that
\* interval, the bucket, and half a byte for each packet released: each release
\* rounds the tokens anew and forgets the error, which may add up, but by no more
\* than that, however often a packet was peeked in vain.  excess is the largest
\* of bytes - packets / 2 - rate * time over the intervals up to now, in units of
\* one in 2 * Second bytes; peakExcess the same for PeakRate.
RateIsKept == /\ excess <= 2 * Second * Burst
              /\ PeakRate > 0 => peakExcess <= 2 * Second * Mtu

\* A packet that arrived is sent or dropped, even if nothing else ever arrives
\* and its queue, or that of the packet before it, is stopped.
AcceptedPacketsLeave ==
  \A i \in 1 .. MaxArrivals :
    i <= nArrived ~> (i \in dropped \/ \E k \in DOMAIN sent : sent[k].uid = i)
=============================================================================
