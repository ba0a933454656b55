------------------------------ MODULE SredBase ------------------------------
(***************************************************************************)
(* The code StabilizedRedQueueDisc and ESRedQueueDisc share word for word: *)
(* the configuration, the internal queue and its accounting, the drop      *)
(* probability, the two ends of DoEnqueue, and DoDequeue.  What differs,   *)
(* the zombie list, is in StabilizedRed and in ESRed.                      *)
(***************************************************************************)
EXTENDS Integers, Sequences, FiniteSets, QueueDiscStats

CONSTANTS
  Unit, MaxSize,       \* MaxSize attribute of the disc and its internal queue
  HasFilters,          \* GetNPacketFilters () > 0
  Hashes, HashModulus, \* the 32-bit results of Hash (0), or of Classify cast
                       \* to uint32_t; 2^32 in the code
  Sizes,               \* the sizes GetSize () of the packets that arrive
  StabilizedRedMode,   \* 1 simple, 2 full, anything else: no random drop
  MaxZombies,          \* MAX_ZOMBIE_LIST_SIZE
  PMaxNum, PMaxDen,    \* p_max = PMaxNum / PMaxDen
  POverwriteNum, POverwriteDen,  \* p_overwrite
  HitUnit,             \* p_hitFreq is an integer multiple of 1/(16 * HitUnit)
  Alpha,               \* alpha, in the same unit
  MaxArrivals          \* bound: packets that ever reach the disc

HitScale == 16 * HitUnit

ASSUME SizeAssumption == /\ Unit \in {"packets", "bytes"}
                         /\ MaxSize \in Nat \ {0}
                         /\ Sizes \subseteq Nat \ {0}
                         /\ MaxArrivals \in Nat

ASSUME HashAssumption == /\ HasFilters \in BOOLEAN
                         /\ HashModulus \in Nat
                         /\ Hashes \subseteq 0 .. HashModulus - 1

\* The attribute checkers keep both probabilities in [0, 1].
ASSUME ProbabilityAssumption ==
  /\ StabilizedRedMode \in Int
  /\ PMaxDen \in Nat \ {0} /\ PMaxNum \in 0 .. PMaxDen
  /\ POverwriteDen \in Nat \ {0} /\ POverwriteNum \in 0 .. POverwriteDen

\* alpha = p_overwrite / MAX_ZOMBIE_LIST_SIZE (InitializeParams)
ASSUME AlphaAssumption ==
  /\ MaxZombies \in Nat \ {0}
  /\ HitUnit \in Nat \ {0}
  /\ Alpha \in 0 .. HitScale
  /\ Alpha * MaxZombies * POverwriteDen = HitScale * POverwriteNum

VARIABLES
  queue,      \* GetInternalQueue (0)
  stats,      \* m_nPackets, m_nBytes and m_stats of QueueDisc
  p_hitFreq,  \* in units of 1/HitScale
  nArrived,   \* packets that reached Enqueue so far; the next one's identity
  arrivals,   \* history: arrivals[f] of them carried flow identifier f
  lost,       \* history: the packets Enqueue returned false for
  delivered   \* history: the packets Dequeue returned, in order

baseVars == <<queue, stats, p_hitFreq, nArrived, arrivals, lost, delivered>>

Q == INSTANCE DropTailQueue

-----------------------------------------------------------------------------
(* Flow identifiers *)

\* int32_t flowID = flowHash, and static_cast<uint32_t> backwards.
AsInt32(hash) == IF 2 * hash < HashModulus THEN hash ELSE hash - HashModulus

FlowIDs == {AsInt32(hash) : hash \in Hashes}

\* PacketFilter::PF_NO_MATCH, and the flow identifier that is not valid.
PF_NO_MATCH == -1
InvalidFlowID == -1

-----------------------------------------------------------------------------
(* Probabilities, as fractions [num, den].  den = 0 stands for the double  *)
(* the code computes by dividing by 0.0: infinity, or NaN when num = 0.    *)

\* p_sred in quarters of p_max.  The code compares GetNBytes () with the value
\* of the limit, whatever the unit of the limit is.
SredQuarters(q) ==
  IF MaxSize <= 3 * q.stored.bytes /\ q.stored.bytes <= MaxSize THEN 4
  ELSE IF MaxSize <= 6 * q.stored.bytes /\ 3 * q.stored.bytes < MaxSize THEN 1
  ELSE 0

calculateProbabilityStabilizedRed(q) ==
  [num |-> SredQuarters(q) * PMaxNum, den |-> 4 * PMaxDen]

\* Faulty forms of the definition below, which the properties must refute.
ZapSimpleWithoutCap(p_sred, h) ==
  [num |-> p_sred.num * HitUnit * HitUnit, den |-> p_sred.den * h * h]

\* p_sred * min(1, 1/(256 h^2)): 1/(256 h^2) < 1 exactly when h > 1/16.
calculateProbabilityZapSimple(p_sred, h) ==
  IF h > HitUnit
  THEN [num |-> p_sred.num * HitUnit * HitUnit, den |-> p_sred.den * h * h]
  ELSE p_sred

\* ... * (1 + hit/h); DoEnqueue always passes hit = 1.
calculateProbabilityZap(p_sred, h) ==
  LET simple == calculateProbabilityZapSimple(p_sred, h)
  IN  [num |-> simple.num * (h + HitScale), den |-> simple.den * h]

ProbabilityZap(q, h) ==
  LET p_sred == calculateProbabilityStabilizedRed(q)
  IN  CASE StabilizedRedMode = 1 -> calculateProbabilityZapSimple(p_sred, h)
        [] StabilizedRedMode = 2 -> calculateProbabilityZap(p_sred, h)
        [] OTHER -> [num |-> 0, den |-> 1]

\* Faulty forms of the definition below, which the properties must refute.
MayBeBelowNaN(p) == p.num > 0 \/ p.den = 0

\* GetValue () draws rand in [0, 1): rand < p is possible when p > 0, and
\* rand >= p when p < 1.  A comparison with NaN is false.
MayBeBelow(p) == p.num > 0
MayBeAbove(p) == p.num = 0 \/ p.num < p.den

POverwrite == [num |-> POverwriteNum, den |-> POverwriteDen]

\* p_hitFreq = (1 - alpha) * p_hitFreq + alpha * hit.  The decay is rounded
\* down, so that a frequency that is positive stays positive.
UpdatedHitFreq(h, hit) == h - (h * Alpha) \div HitScale + Alpha * hit

-----------------------------------------------------------------------------
(* The parts of QueueDisc::Enqueue and DoEnqueue that do not touch the     *)
(* zombie list.  s is the statistics record so far.                        *)

\* Enqueue counts the packet; DoEnqueue then drops one whose flow identifier is
\* -1 and carries on with it.
CountedArrival(item) ==
  LET s == Received(stats, item)
  IN  IF item.flow = InvalidFlowID
      THEN DropBeforeEnqueue(s, item, "InvalidFlowID")
      ELSE s

\* A packet reaches Enqueue.
Arrives(item) ==
  /\ nArrived < MaxArrivals
  /\ item.uid = nArrived + 1
  /\ nArrived' = nArrived + 1
  /\ arrivals' = [arrivals EXCEPT ![item.flow] = @ + 1]

\* DropBeforeEnqueue; return false.
Refuse(item, s, reason) ==
  /\ stats' = DropBeforeEnqueue(s, item, reason)
  /\ lost' = lost \cup {item.uid}
  /\ UNCHANGED <<queue, delivered>>

\* return GetInternalQueue (0)->Enqueue (item), which notifies the disc.
Store(item, s) ==
  \/ /\ Q!HasRoomFor(queue, item)
     /\ queue' = Q!Insert(queue, item)
     /\ stats' = PacketEnqueued(s, item)
     /\ UNCHANGED <<lost, delivered>>
  \/ /\ ~Q!HasRoomFor(queue, item)
     /\ queue' = Q!Discard(queue)
     /\ stats' = DropBeforeEnqueue(s, item, "InternalQueue")
     /\ lost' = lost \cup {item.uid}
     /\ UNCHANGED delivered

\* Filters are installed and none of them matches: the packet is dropped first
\* of all.
NoFilterMatches(item) == HasFilters /\ item.flow = PF_NO_MATCH

\* The end of DoEnqueue while the zombie list is filling up.  It adds the bytes
\* of the packet to a length that may count packets.
WarmUpEnd(item) ==
  \/ /\ Q!CurrentSize(queue) + item.size <= MaxSize
     /\ Store(item, CountedArrival(item))
  \/ /\ Q!CurrentSize(queue) + item.size > MaxSize
     /\ Refuse(item, CountedArrival(item), "QUEUE_OVERFLOW")

\* Faulty forms of the definition below, which the properties must refute.
SteadyEndFullTooEarly(item, h) ==
  \/ /\ Q!CurrentSize(queue) < MaxSize - 1
     /\ Store(item, CountedArrival(item))
  \/ /\ Q!CurrentSize(queue) >= MaxSize - 1
     /\ Refuse(item, CountedArrival(item), "Overflow")

SteadyEndFullTooLate(item, h) ==
  \/ /\ Q!CurrentSize(queue) <= MaxSize
     /\ Store(item, CountedArrival(item))
  \/ /\ Q!CurrentSize(queue) > MaxSize
     /\ Refuse(item, CountedArrival(item), "Overflow")

\* The end of DoEnqueue once the list is full; h is the new p_hitFreq.
SteadyEnd(item, h) ==
  \/ /\ MayBeBelow(ProbabilityZap(queue, h))
     /\ Refuse(item, CountedArrival(item), "Zap")
  \/ /\ MayBeAbove(ProbabilityZap(queue, h))
     /\ Q!CurrentSize(queue) < MaxSize
     /\ Store(item, CountedArrival(item))
  \/ /\ MayBeAbove(ProbabilityZap(queue, h))
     /\ Q!CurrentSize(queue) >= MaxSize
     /\ Refuse(item, CountedArrival(item), "Overflow")

\* DoDequeue on a queue that is not empty (it changes nothing on an empty one).
TakeHead ==
  /\ queue.items # <<>>
  /\ queue' = Q!RemoveHead(queue)
  /\ stats' = PacketDequeued(stats, Head(queue.items))
  /\ delivered' = Append(delivered, Head(queue.items).uid)
  /\ UNCHANGED <<p_hitFreq, nArrived, arrivals, lost>>

BaseInit ==
  /\ queue = Q!EmptyQueue
  /\ stats = ZeroStats
  /\ p_hitFreq = 0
  /\ nArrived = 0
  /\ arrivals = [f \in FlowIDs |-> 0]
  /\ lost = {}
  /\ delivered = <<>>

=============================================================================
