-------------------------- MODULE ZombieListProofs --------------------------
(***************************************************************************)
(* Theorems that tie the zombie list, the hit frequency and the drops of   *)
(* StabilizedRedQueueDisc together: for every configuration, but for the   *)
(* last section, where each theorem states the configuration it needs.     *)
(***************************************************************************)
EXTENDS StabilizedRedProofs

\* Counting an arrival touches one drop counter at most, and adds the packet to
\* those received.
LEMMA CountedArrivalReasons ==
  ASSUME stats \in Statistics, NEW item, item.size \in Nat,
         NEW s, s = Received(stats, item) \/ s = CountedArrival(item)
  PROVE  /\ s \in Statistics
         /\ s.received = Plus(stats.received, item)
         /\ \A q \in Reasons \ {"InvalidFlowID"} :
              s.byReason[q] = stats.byReason[q]
<1> DEFINE r == Received(stats, item)
<1>1. /\ "InvalidFlowID" \in Reasons /\ r \in Statistics
      /\ stats.byReason \in [Reasons -> Nat]
  BY StatsTypes DEF Reasons, Statistics
<1>2. r.received = Plus(stats.received, item) /\ r.byReason = stats.byReason
  BY DEF Received, Statistics
<1> HIDE DEF r
<1>3. CASE s = r
  BY <1>1, <1>2, <1>3
<1>4. CASE s = DropBeforeEnqueue(r, item, "InvalidFlowID")
  <2>1. s \in Statistics
    BY <1>1, <1>4, StatsTypes
  <2>2. /\ s.received = r.received
        /\ s.byReason = [r.byReason EXCEPT !["InvalidFlowID"] = @ + 1]
    BY <1>1, <1>4 DEF DropBeforeEnqueue, Statistics
  <2> QED BY <1>1, <1>2, <2>1, <2>2
<1> QED BY <1>3, <1>4 DEF CountedArrival, r

\* What an arrival does to the drop counters: one drop for the reason given, and
\* one for an invalid flow identifier beside it.
LEMMA ArrivalReasons ==
  ASSUME stats \in Statistics, NEW item, item.size \in Nat,
         NEW s, s = Received(stats, item) \/ s = CountedArrival(item),
         NEW r \in Reasons,
         (Store(item, s) /\ r = "InternalQueue") \/ Refuse(item, s, r)
  PROVE  /\ stats'.byReason \in [Reasons -> Nat]
         /\ \A q \in Reasons \ {"InvalidFlowID", r} :
              stats'.byReason[q] = stats.byReason[q]
<1>3. ASSUME NEW t \in Statistics, NEW p \in Reasons
      PROVE  /\ DropBeforeEnqueue(t, item, p) \in Statistics
             /\ \A q \in Reasons \ {p} :
                  DropBeforeEnqueue(t, item, p).byReason[q] = t.byReason[q]
  <2>1. DropBeforeEnqueue(t, item, p) \in Statistics
    BY StatsTypes
  <2>2. DropBeforeEnqueue(t, item, p).byReason = [t.byReason EXCEPT ![p] = @ + 1]
    BY DEF DropBeforeEnqueue, Statistics
  <2>3. t.byReason \in [Reasons -> Nat]
    BY DEF Statistics
  <2> QED BY <2>1, <2>2, <2>3
<1>4. /\ s \in Statistics
      /\ \A q \in Reasons \ {"InvalidFlowID"} : s.byReason[q] = stats.byReason[q]
  BY CountedArrivalReasons
<1>5. \/ stats' = PacketEnqueued(s, item)
      \/ stats' = DropBeforeEnqueue(s, item, r)
  BY DEF Store, Refuse
<1>6. CASE stats' = PacketEnqueued(s, item)
  <2>1. stats'.byReason = s.byReason
    BY <1>4, <1>6 DEF PacketEnqueued, Statistics
  <2> QED BY <1>4, <2>1 DEF Statistics
<1>7. CASE stats' = DropBeforeEnqueue(s, item, r)
  <2>1. stats' \in Statistics
    BY <1>3, <1>4, <1>7
  <2>2. \A q \in Reasons \ {r} : stats'.byReason[q] = s.byReason[q]
    BY <1>3, <1>4, <1>7
  <2> QED BY <1>4, <2>1, <2>2 DEF Statistics
<1> QED BY <1>5, <1>6, <1>7

\* A step that is not an arrival drops nothing.
LEMMA OthersDropNothing ==
  ASSUME IInv, Dequeue \/ UNCHANGED vars
  PROVE  stats'.byReason = stats.byReason
<1>1. CASE Dequeue
  BY <1>1 DEF Dequeue, TakeHead, PacketDequeued, IInv, TypeOK, Statistics
<1>2. CASE UNCHANGED vars
  BY <1>2 DEF vars, baseVars
<1> QED BY <1>1, <1>2

\* The three ways an arrival can go, with what each does to the list.
LEMMA EnqueueCases ==
  ASSUME IInv, NEW hash \in Hashes, NEW size \in Sizes,
         Enqueue(Packet(hash, size))
  PROVE  LET item == Packet(hash, size)
             c == CountedArrival(item)
         IN  /\ item \in Items /\ item.size \in Nat
             /\ nArrived' = nArrived + 1
             /\ \/ /\ Refuse(item, Received(stats, item), "NoMatch")
                   /\ UNCHANGED <<zombies, p_hitFreq>>
                \/ /\ Remember(item)
                   /\ Store(item, c) \/ Refuse(item, c, "QUEUE_OVERFLOW")
                \/ /\ Len(zombies) = MaxZombies
                   /\ \E index \in DOMAIN zombies :
                        Hit(item, index) \/ Miss(item, index)
                   /\ \/ Store(item, c) \/ Refuse(item, c, "Overflow")
                      \/ /\ Refuse(item, c, "Zap")
                         /\ MayBeBelow(ProbabilityZap(queue, p_hitFreq'))
<1> DEFINE item == Packet(hash, size)
<1>1. Arrives(item)
  BY DEF Enqueue, EnqueueNoMatch, EnqueueWarmUp, EnqueueSteady
<1>2. item \in Items /\ item.size \in Nat /\ nArrived' = nArrived + 1
  BY <1>1, ArrivesType DEF IInv, Arrives
<1>3. Len(zombies) <= MaxZombies /\ Len(zombies) \in Nat /\ MaxZombies \in Nat
  BY AlphaAssumption DEF IInv, TypeOK
<1> HIDE DEF item
<1>4. CASE EnqueueNoMatch(item)
  BY <1>2, <1>4 DEF EnqueueNoMatch, item
<1>5. CASE EnqueueWarmUp(item)
  BY <1>2, <1>5 DEF EnqueueWarmUp, WarmUpEnd, item
<1>6. CASE EnqueueSteady(item)
  <2>1. Len(zombies) = MaxZombies
    BY <1>3, <1>6 DEF EnqueueSteady
  <2> QED BY <1>2, <1>6, <2>1 DEF EnqueueSteady, SteadyEnd, item
<1> QED BY <1>4, <1>5, <1>6 DEF Enqueue, item

-----------------------------------------------------------------------------
(* Random drops *)

\* Whatever the mode and the frequency, a pressure of zero never drops: where
\* the code computes 0/0 the comparison with NaN is false.
LEMMA NoPressureNoZap ==
  ASSUME NEW q, NEW h \in 0 .. HitScale, SredQuarters(q) = 0
  PROVE  ~MayBeBelow(ProbabilityZap(q, h))
<1>1. HitUnit \in Nat /\ HitScale \in Nat /\ PMaxNum \in Nat /\ h \in Nat
  BY AlphaAssumption, ProbabilityAssumption DEF HitScale
<1>2. calculateProbabilityStabilizedRed(q).num = 0
  BY <1>1 DEF calculateProbabilityStabilizedRed
<1>3. \A p : p.num = 0 => calculateProbabilityZapSimple(p, h).num = 0
  BY <1>1 DEF calculateProbabilityZapSimple
<1>4. \A p : p.num = 0 => calculateProbabilityZap(p, h).num = 0
  BY <1>1, <1>3 DEF calculateProbabilityZap
<1>5. ProbabilityZap(q, h).num = 0
  BY <1>2, <1>3, <1>4, ProbabilityAssumption DEF ProbabilityZap
<1> QED BY <1>5 DEF MayBeBelow

\* There is pressure only between a sixth of the limit and the limit.
LEMMA PressureRange ==
  ASSUME NEW q \in Queues, SredQuarters(q) # 0
  PROVE  MaxSize <= 6 * q.stored.bytes /\ q.stored.bytes <= MaxSize
<1>1. MaxSize \in Nat /\ q.stored.bytes \in Nat
  BY SizeAssumption DEF Queues, Counters
<1> QED BY <1>1 DEF SredQuarters

\* A packet is dropped at random only with a full zombie list and between a sixth
\* of the capacity and the capacity in bytes, whatever the mode.
THEOREM ZapOnlyUnderLoadCorrect == Spec => ZapOnlyUnderLoad
<1> DEFINE A == Drops("Zap") => /\ Len(zombies) = MaxZombies
                               /\ MaxSize <= 6 * queue.stored.bytes
                               /\ queue.stored.bytes <= MaxSize
<1>1. IInv /\ IInv' /\ [Next]_vars => [A]_vars
  <2> SUFFICES ASSUME IInv, IInv', [Next]_vars, Drops("Zap")
               PROVE  A
    OBVIOUS
  <2>1. /\ queue \in Queues /\ stats \in Statistics
        /\ p_hitFreq' \in 0 .. HitScale
        /\ stats.byReason \in [Reasons -> Nat]
    BY DEF IInv, TypeOK, Statistics
  <2>2. {"NoMatch", "QUEUE_OVERFLOW", "Overflow", "InternalQueue", "Zap"}
          \subseteq Reasons \ {"InvalidFlowID"}
    BY DEF Reasons
  <2>3. ~(stats'.byReason["Zap"] = stats.byReason["Zap"])
    BY <2>1, <2>2 DEF Drops
  <2>4. ~Dequeue /\ ~UNCHANGED vars
    BY <2>3, OthersDropNothing
  <2>5. PICK hash \in Hashes, size \in Sizes : Enqueue(Packet(hash, size))
    BY <2>4 DEF Next
  <2> DEFINE item == Packet(hash, size)
             c == CountedArrival(item)
  <2>6. item.size \in Nat
    BY <2>5, EnqueueCases
  <2>7. /\ ~Refuse(item, Received(stats, item), "NoMatch")
        /\ ~Store(item, c)
        /\ ~Refuse(item, c, "QUEUE_OVERFLOW")
        /\ ~Refuse(item, c, "Overflow")
    BY <2>1, <2>2, <2>3, <2>6, ArrivalReasons
  <2>8. /\ Len(zombies) = MaxZombies
        /\ MayBeBelow(ProbabilityZap(queue, p_hitFreq'))
    BY <2>5, <2>7, EnqueueCases
  <2>9. SredQuarters(queue) # 0
    BY <2>1, <2>8, NoPressureNoZap
  <2> QED BY <2>1, <2>8, <2>9, PressureRange
<1> QED BY <1>1, Invariance, PTL DEF Spec, ZapOnlyUnderLoad

-----------------------------------------------------------------------------
(* The list while it fills up, and the hits after *)

\* The list grows by one with each packet classified until it is full, and
\* neither a hit nor a positive frequency exists before.
THEOREM WarmUpIsCleanCorrect == Spec => []WarmUpIsClean
<1>1. Init => WarmUpIsClean
  <2> SUFFICES ASSUME Init PROVE WarmUpIsClean
    OBVIOUS
  <2> QED BY DEF Init, BaseInit, ZeroStats, Reasons, WarmUpIsClean
<1>2. IInv /\ IInv' /\ WarmUpIsClean /\ [Next]_vars => WarmUpIsClean'
  <2> SUFFICES ASSUME IInv, IInv', WarmUpIsClean, [Next]_vars
               PROVE  WarmUpIsClean'
    OBVIOUS
  <2>1. /\ stats \in Statistics /\ stats.byReason \in [Reasons -> Nat]
        /\ Len(zombies) \in Nat /\ Len(zombies) <= MaxZombies
        /\ MaxZombies \in Nat \ {0}
        /\ p_hitFreq \in Nat /\ nArrived \in Nat
    BY AlphaAssumption, SizeAssumption DEF IInv, TypeOK, Statistics, HitScale
  <2>2. "NoMatch" \in Reasons \ {"InvalidFlowID", "QUEUE_OVERFLOW", "Zap",
                                 "Overflow", "InternalQueue"}
        /\ {"QUEUE_OVERFLOW", "Zap", "Overflow", "InternalQueue"}
             \subseteq Reasons
    BY DEF Reasons
  <2> DEFINE noMatch == stats.byReason["NoMatch"]
  <2>3. noMatch \in Nat
    BY <2>1, <2>2
  <2>4. ASSUME NEW hash \in Hashes, NEW size \in Sizes,
               Enqueue(Packet(hash, size))
        PROVE  WarmUpIsClean'
    <3> DEFINE item == Packet(hash, size)
               c == CountedArrival(item)
    <3>1. item.size \in Nat /\ nArrived' = nArrived + 1
      BY <2>4, EnqueueCases
    <3>2. CASE /\ Refuse(item, Received(stats, item), "NoMatch")
               /\ UNCHANGED <<zombies, p_hitFreq>>
      <4>1. stats'.byReason["NoMatch"] = noMatch + 1
        <5>1. Received(stats, item) \in Statistics
              /\ Received(stats, item).byReason = stats.byReason
          BY <2>1, <2>2, <3>1, StatsTypes DEF Received, Statistics
        <5> QED BY <2>1, <2>2, <3>2, <5>1
                DEF Refuse, DropBeforeEnqueue, Statistics
      <4> QED BY <2>1, <2>3, <3>1, <3>2, <4>1 DEF WarmUpIsClean
    <3>3. CASE /\ Remember(item)
               /\ Store(item, c) \/ Refuse(item, c, "QUEUE_OVERFLOW")
      <4>1. stats'.byReason["NoMatch"] = noMatch
        <5>1. CASE Store(item, c)
          BY <2>1, <2>2, <3>1, <5>1, ArrivalReasons
        <5>2. CASE Refuse(item, c, "QUEUE_OVERFLOW")
          BY <2>1, <2>2, <3>1, <5>2, ArrivalReasons
        <5> QED BY <3>3, <5>1, <5>2
      <4>2. /\ Len(zombies) < MaxZombies /\ p_hitFreq' = 0
            /\ zombies' = Append(zombies, Zombie(item.flow))
        BY <3>3 DEF Remember, WarmUpIsClean
      <4>3. Len(zombies') = Len(zombies) + 1
            /\ \A i \in DOMAIN zombies' : zombies'[i].count = 0
        <5> DEFINE Z == [flowID : FlowIDs, count : Nat]
        <5>1. zombies \in Seq(Z) /\ \A i \in DOMAIN zombies : zombies[i].count = 0
          BY <4>2 DEF WarmUpIsClean, IInv, TypeOK
        <5>2. Zombie(item.flow).count = 0
          BY DEF Zombie
        <5> HIDE DEF Z
        <5>3. /\ Len(zombies') = Len(zombies) + 1
              /\ DOMAIN zombies' = 1 .. Len(zombies) + 1
              /\ DOMAIN zombies = 1 .. Len(zombies)
              /\ zombies'[Len(zombies) + 1] = Zombie(item.flow)
              /\ \A i \in 1 .. Len(zombies) : zombies'[i] = zombies[i]
          BY <4>2, <5>1
        <5>4. ASSUME NEW i \in 1 .. Len(zombies) + 1
              PROVE  zombies'[i].count = 0
          <6>1. CASE i = Len(zombies) + 1
            BY <5>2, <5>3, <6>1
          <6>2. CASE i \in 1 .. Len(zombies)
            BY <5>1, <5>3, <6>2
          <6> QED BY <2>1, <6>1, <6>2
        <5> QED BY <5>3, <5>4
      <4> QED BY <2>1, <2>3, <3>1, <4>1, <4>2, <4>3 DEF WarmUpIsClean
    <3>4. CASE /\ Len(zombies) = MaxZombies
               /\ \E index \in DOMAIN zombies :
                    Hit(item, index) \/ Miss(item, index)
      <4>1. Len(zombies') = Len(zombies)
        BY <3>4 DEF Hit, Miss, IInv, TypeOK
      <4> QED BY <2>1, <3>4, <4>1 DEF WarmUpIsClean
    <3> QED BY <2>4, <3>2, <3>3, <3>4, EnqueueCases
  <2>5. CASE Dequeue \/ UNCHANGED vars
    <3>1. stats'.byReason = stats.byReason
      BY <2>5, OthersDropNothing
    <3>2. UNCHANGED <<nArrived, zombies, p_hitFreq>>
      BY <2>5 DEF Dequeue, TakeHead, vars, baseVars
    <3> QED BY <3>1, <3>2 DEF WarmUpIsClean
  <2> QED BY <2>4, <2>5 DEF Next
<1> QED BY <1>1, <1>2, Invariance, PTL DEF Spec

\* A frequency that is positive stays positive, unless it decays all at once;
\* a hit makes it positive.
LEMMA HitFreqPositive ==
  ASSUME NEW h \in 0 .. HitScale, NEW hit \in {0, 1}, Alpha > 0,
         hit = 1 \/ (h > 0 /\ Alpha < HitScale)
  PROVE  UpdatedHitFreq(h, hit) > 0
<1> DEFINE decay == (h * Alpha) \div HitScale
<1>1. HitScale \in Nat /\ HitScale > 0 /\ Alpha \in 0 .. HitScale
  BY AlphaAssumption DEF HitScale
<1>2. h * Alpha \in Nat
  BY <1>1
<1>3. /\ decay \in Int
      /\ HitScale * decay <= h * Alpha
  BY <1>1, <1>2
<1> HIDE DEF decay
<1>4. UpdatedHitFreq(h, hit) = h - decay + Alpha * hit
  BY DEF UpdatedHitFreq, decay
<1>5. CASE hit = 1
  <2>1. decay <= h
    <3>1. h * Alpha <= HitScale * h
      BY <1>1
    <3>2. CASE decay > h
      <4>1. HitScale * decay >= HitScale * h + HitScale
        BY <1>1, <1>3, <3>2
      <4> QED BY <1>1, <1>2, <1>3, <3>1, <4>1
    <3> QED BY <1>3, <3>2
  <2>2. UpdatedHitFreq(h, hit) = h - decay + Alpha
    BY <1>1, <1>4, <1>5
  <2> QED BY <1>1, <1>3, <2>1, <2>2
<1>6. CASE hit = 0 /\ h > 0 /\ Alpha < HitScale
  <2>1. h * Alpha < HitScale * h
    <3>1. h * (HitScale - Alpha) > 0
      BY <1>1, <1>6
    <3> QED BY <1>1, <3>1
  <2>2. CASE decay >= h
    <3>1. HitScale * decay >= HitScale * h
      BY <1>1, <1>3, <2>2
    <3> QED BY <1>1, <1>2, <1>3, <2>1, <3>1
  <2>3. UpdatedHitFreq(h, hit) = h - decay
    BY <1>1, <1>3, <1>4, <1>6
  <2> QED BY <1>1, <1>3, <2>2, <2>3
<1> QED BY <1>5, <1>6

\* The frequency can decay all at once only with a list of one zombie that every
\* miss overwrites.
LEMMA TotalDecay ==
  ASSUME Alpha = HitScale
  PROVE  MaxZombies = 1 /\ ~MayBeAbove(POverwrite)
<1>1. /\ HitScale \in Nat \ {0} /\ MaxZombies \in Nat \ {0}
      /\ POverwriteDen \in Nat \ {0} /\ POverwriteNum \in 0 .. POverwriteDen
      /\ HitScale * MaxZombies * POverwriteDen = HitScale * POverwriteNum
  BY AlphaAssumption, ProbabilityAssumption DEF HitScale
<1>2. MaxZombies * POverwriteDen = POverwriteNum
  <2>1. /\ MaxZombies * POverwriteDen \in Nat
        /\ HitScale * (MaxZombies * POverwriteDen) = HitScale * POverwriteNum
    BY <1>1
  <2>2. \A x, y \in Nat : HitScale * x = HitScale * y => x = y
    BY <1>1
  <2> QED BY <1>1, <2>1, <2>2
<1>3. MaxZombies = 1
  <2>1. CASE MaxZombies >= 2
    <3>1. MaxZombies * POverwriteDen >= 2 * POverwriteDen
      BY <1>1, <2>1
    <3> QED BY <1>1, <1>2, <3>1
  <2> QED BY <1>1, <2>1
<1>4. POverwriteNum = POverwriteDen
  BY <1>1, <1>2, <1>3
<1> QED BY <1>1, <1>3, <1>4 DEF MayBeAbove, POverwrite

\* A hit in the list is never forgotten by the frequency, however many misses
\* follow: the drop probability of the full mode divides by a positive number
\* once a flow has been recognised.
THEOREM HitsLeaveATraceCorrect == Spec => []HitsLeaveATrace
<1> DEFINE Seen(list) == \E i \in DOMAIN list : list[i].count > 0
<1>1. Init => HitsLeaveATrace
  BY DEF Init, BaseInit, HitsLeaveATrace
<1>2. IInv /\ HitsLeaveATrace /\ [Next]_vars => HitsLeaveATrace'
  <2> SUFFICES ASSUME IInv, HitsLeaveATrace, [Next]_vars, Alpha > 0,
                      Seen(zombies')
               PROVE  p_hitFreq' > 0
    BY DEF HitsLeaveATrace
  <2>1. /\ p_hitFreq \in 0 .. HitScale
        /\ zombies \in Seq([flowID : FlowIDs, count : Nat])
        /\ HitScale \in Nat \ {0} /\ Alpha \in 0 .. HitScale
    BY AlphaAssumption DEF IInv, TypeOK, HitScale
  <2>2. Seen(zombies) => p_hitFreq > 0
    BY DEF HitsLeaveATrace
  <2>3. CASE UNCHANGED <<zombies, p_hitFreq>>
    BY <2>2, <2>3
  <2>4. ASSUME NEW item, Remember(item)
        PROVE  p_hitFreq' > 0
    <3>1. Seen(zombies)
      <4>1. /\ Len(zombies') = Len(zombies) + 1 /\ Len(zombies) \in Nat
            /\ DOMAIN zombies' = 1 .. Len(zombies) + 1
            /\ zombies'[Len(zombies) + 1] = Zombie(item.flow)
            /\ \A i \in DOMAIN zombies : zombies'[i] = zombies[i]
            /\ DOMAIN zombies = 1 .. Len(zombies)
        <5> HIDE DEF Seen
        <5> QED BY <2>1, <2>4 DEF Remember
      <4>2. PICK i \in DOMAIN zombies' : zombies'[i].count > 0
        OBVIOUS
      <4>3. i # Len(zombies) + 1
        BY <4>1, <4>2 DEF Zombie
      <4>4. i \in DOMAIN zombies
        BY <4>1, <4>2, <4>3
      <4> QED BY <4>1, <4>2, <4>4
    <3> QED BY <2>2, <2>4, <3>1 DEF Remember
  <2>5. ASSUME NEW item, NEW index \in DOMAIN zombies, Hit(item, index)
        PROVE  p_hitFreq' > 0
    BY <2>1, <2>5, HitFreqPositive DEF Hit
  <2>6. ASSUME NEW item, NEW index \in DOMAIN zombies, Miss(item, index)
        PROVE  p_hitFreq' > 0
    <3>1. \/ zombies' = [zombies EXCEPT ![index] = Zombie(item.flow)]
          \/ zombies' = zombies /\ MayBeAbove(POverwrite)
      BY <2>6 DEF Miss
    <3>2. Seen(zombies)
      BY <3>1 DEF Zombie
    <3>3. Alpha < HitScale
      <4>1. CASE Alpha = HitScale
        <5>1. zombies' = [zombies EXCEPT ![index] = Zombie(item.flow)]
              /\ MaxZombies = 1
          BY <3>1, <4>1, TotalDecay
        <5>2. DOMAIN zombies \subseteq {1}
          BY <2>1, <5>1 DEF IInv, TypeOK
        <5> QED BY <5>1, <5>2 DEF Zombie
      <4> QED BY <2>1, <4>1
    <3> QED BY <2>1, <2>2, <2>6, <3>2, <3>3, HitFreqPositive DEF Miss
  <2>7. \/ UNCHANGED <<zombies, p_hitFreq>>
        \/ \E item : Remember(item)
        \/ \E item : \E index \in DOMAIN zombies :
             Hit(item, index) \/ Miss(item, index)
    BY DEF Next, Enqueue, EnqueueNoMatch, EnqueueWarmUp, EnqueueSteady,
           Dequeue, TakeHead, vars, baseVars
  <2> QED BY <2>3, <2>4, <2>5, <2>6, <2>7
<1> QED BY <1>1, <1>2, Invariance, PTL DEF Spec

-----------------------------------------------------------------------------
(* The fate of a packet *)

\* A drop for a reason counts once in the total.
LEMMA OneMoreDrop ==
  ASSUME NEW f \in [Reasons -> Nat], NEW r \in Reasons
  PROVE  /\ [f EXCEPT ![r] = @ + 1] \in [Reasons -> Nat]
         /\ AllDrops([f EXCEPT ![r] = @ + 1]) = AllDrops(f) + 1
<1> DEFINE g == [f EXCEPT ![r] = @ + 1]
<1>1. g \in [Reasons -> Nat] /\ \A q \in Reasons : f[q] \in Nat
  OBVIOUS
<1>2. \A q \in Reasons : g[q] = IF q = r THEN f[q] + 1 ELSE f[q]
  OBVIOUS
<1>3. /\ "NoMatch" \in Reasons /\ "InvalidFlowID" \in Reasons
      /\ "QUEUE_OVERFLOW" \in Reasons /\ "Zap" \in Reasons
      /\ "Overflow" \in Reasons /\ "InternalQueue" \in Reasons
      /\ r \in {"NoMatch", "InvalidFlowID", "QUEUE_OVERFLOW", "Zap",
               "Overflow", "InternalQueue"}
  BY DEF Reasons
<1> HIDE DEF g
<1>4. AllDrops(g) = AllDrops(f) + 1
  <2>1. /\ f["NoMatch"] \in Nat /\ f["InvalidFlowID"] \in Nat
        /\ f["QUEUE_OVERFLOW"] \in Nat /\ f["Zap"] \in Nat
        /\ f["Overflow"] \in Nat /\ f["InternalQueue"] \in Nat
    BY <1>1, <1>3
  <2>2. ASSUME NEW q \in {"NoMatch", "InvalidFlowID", "QUEUE_OVERFLOW", "Zap",
                         "Overflow", "InternalQueue"}, q = r
        PROVE  AllDrops(g) = AllDrops(f) + 1
    BY <1>2, <1>3, <2>1, <2>2 DEF AllDrops
  <2> QED BY <1>3, <2>2
<1> QED BY <1>1, <1>4 DEF g

\* What Enqueue did once the packet is stored or refused: bump is the drop that
\* a packet with an invalid flow identifier has behind it by then.
LEMMA ArrivalFate ==
  ASSUME stats \in Statistics, queue \in Queues, NEW item, item.size \in Nat,
         NEW s, s = Received(stats, item) \/ s = CountedArrival(item),
         NEW r \in Reasons \ {"InvalidFlowID"},
         \/ Store(item, s) /\ r = "InternalQueue"
         \/ Refuse(item, s, r) /\ r # "InternalQueue"
  PROVE  \E bump \in {0, 1} :
           /\ stats'.byReason["InvalidFlowID"] =
                stats.byReason["InvalidFlowID"] + bump
           /\ stats'.droppedBefore.packets - AllDrops(stats'.byReason) =
                stats.droppedBefore.packets - AllDrops(stats.byReason)
           /\ \/ /\ lost' = lost
                 /\ stats'.enqueued.packets = stats.enqueued.packets + 1
                 /\ stats'.droppedBefore.packets =
                      stats.droppedBefore.packets + bump
                 /\ queue'.discarded = queue.discarded
                 /\ stats'.byReason["InternalQueue"] =
                      stats.byReason["InternalQueue"]
              \/ /\ lost' = lost \cup {item.uid}
                 /\ stats'.enqueued.packets = stats.enqueued.packets
                 /\ stats'.droppedBefore.packets =
                      stats.droppedBefore.packets + bump + 1
                 /\ queue'.discarded - queue.discarded =
                      stats'.byReason["InternalQueue"]
                      - stats.byReason["InternalQueue"]
<1>1. "InvalidFlowID" \in Reasons /\ "InternalQueue" \in Reasons
  BY DEF Reasons
<1>2. ASSUME NEW t \in Statistics
      PROVE  /\ t.droppedBefore.packets \in Nat /\ t.enqueued.packets \in Nat
             /\ t.byReason \in [Reasons -> Nat]
             /\ t.byReason["InvalidFlowID"] \in Nat
             /\ t.byReason["InternalQueue"] \in Nat
             /\ AllDrops(t.byReason) \in Nat
  <2>1. t.byReason \in [Reasons -> Nat] /\ t.droppedBefore \in Counters
        /\ t.enqueued \in Counters
    BY DEF Statistics
  <2>2. \A q \in Reasons : t.byReason[q] \in Nat
    BY <2>1
  <2>3. AllDrops(t.byReason) \in Nat
    BY <2>2 DEF AllDrops, Reasons
  <2> QED BY <1>1, <2>1, <2>2, <2>3 DEF Counters
<1>3. ASSUME NEW t \in Statistics, NEW q \in Reasons
      PROVE  LET d == DropBeforeEnqueue(t, item, q)
             IN  /\ d \in Statistics
                 /\ d.enqueued = t.enqueued
                 /\ d.droppedBefore.packets = t.droppedBefore.packets + 1
                 /\ d.byReason = [t.byReason EXCEPT ![q] = @ + 1]
                 /\ AllDrops(d.byReason) = AllDrops(t.byReason) + 1
  <2> DEFINE d == DropBeforeEnqueue(t, item, q)
  <2>1. d \in Statistics
    BY StatsTypes
  <2>2. /\ d.enqueued = t.enqueued
        /\ d.droppedBefore = Plus(t.droppedBefore, item)
        /\ d.byReason = [t.byReason EXCEPT ![q] = @ + 1]
    BY DEF DropBeforeEnqueue, Statistics
  <2>3. AllDrops(d.byReason) = AllDrops(t.byReason) + 1
    BY <1>2, <2>2, OneMoreDrop
  <2> QED BY <2>1, <2>2, <2>3 DEF Plus
<1>4. /\ Received(stats, item) \in Statistics
      /\ Received(stats, item).byReason = stats.byReason
      /\ Received(stats, item).enqueued = stats.enqueued
      /\ Received(stats, item).droppedBefore = stats.droppedBefore
  BY <1>1, StatsTypes DEF Received, Statistics
<1>5. PICK bump \in {0, 1} :
        /\ s \in Statistics
        /\ s.enqueued = stats.enqueued
        /\ s.droppedBefore.packets = stats.droppedBefore.packets + bump
        /\ s.byReason["InvalidFlowID"] = stats.byReason["InvalidFlowID"] + bump
        /\ s.byReason["InternalQueue"] = stats.byReason["InternalQueue"]
        /\ AllDrops(s.byReason) = AllDrops(stats.byReason) + bump
  <2> DEFINE d == DropBeforeEnqueue(Received(stats, item), item, "InvalidFlowID")
  <2>1. CASE s = Received(stats, item)
    <3>1. /\ s.droppedBefore.packets = stats.droppedBefore.packets + 0
          /\ s.byReason["InvalidFlowID"] = stats.byReason["InvalidFlowID"] + 0
          /\ AllDrops(s.byReason) = AllDrops(stats.byReason) + 0
      BY <1>2, <1>4, <2>1
    <3> QED BY <1>4, <2>1, <3>1
  <2>2. CASE s = d
    <3>1. /\ d \in Statistics
          /\ d.enqueued = stats.enqueued
          /\ d.droppedBefore.packets = stats.droppedBefore.packets + 1
          /\ d.byReason = [stats.byReason EXCEPT !["InvalidFlowID"] = @ + 1]
          /\ AllDrops(d.byReason) = AllDrops(stats.byReason) + 1
      <4> DEFINE t == Received(stats, item)
      <4>1. t \in Statistics /\ t.byReason = stats.byReason
            /\ t.enqueued = stats.enqueued
            /\ t.droppedBefore = stats.droppedBefore
        BY <1>4
      <4> HIDE DEF t
      <4>2. LET e == DropBeforeEnqueue(t, item, "InvalidFlowID")
            IN  /\ e \in Statistics
                /\ e.enqueued = t.enqueued
                /\ e.droppedBefore.packets = t.droppedBefore.packets + 1
                /\ e.byReason = [t.byReason EXCEPT !["InvalidFlowID"] = @ + 1]
                /\ AllDrops(e.byReason) = AllDrops(t.byReason) + 1
        BY ONLY <1>1, <1>3, <4>1
      <4> QED BY ONLY <4>1, <4>2 DEF t
    <3>2. /\ d.byReason["InvalidFlowID"] = stats.byReason["InvalidFlowID"] + 1
          /\ d.byReason["InternalQueue"] = stats.byReason["InternalQueue"]
      BY <1>1, <1>2, <3>1
    <3> HIDE DEF d
    <3> QED BY <2>2, <3>1, <3>2
  <2> QED BY <2>1, <2>2 DEF CountedArrival
<1>6. \/ /\ stats' = PacketEnqueued(s, item)
         /\ lost' = lost /\ queue' = Q!Insert(queue, item)
      \/ /\ stats' = DropBeforeEnqueue(s, item, r)
         /\ lost' = lost \cup {item.uid}
         /\ queue' = IF r = "InternalQueue" THEN Q!Discard(queue) ELSE queue
  BY DEF Store, Refuse
<1>7. CASE /\ stats' = PacketEnqueued(s, item)
           /\ lost' = lost /\ queue' = Q!Insert(queue, item)
  <2>1. /\ stats'.enqueued.packets = s.enqueued.packets + 1
        /\ stats'.droppedBefore = s.droppedBefore
        /\ stats'.byReason = s.byReason
    BY <1>5, <1>7 DEF PacketEnqueued, Statistics, Plus
  <2>2. queue'.discarded = queue.discarded
    BY <1>7 DEF Q!Insert, Queues
  <2> QED BY <1>2, <1>5, <1>7, <2>1, <2>2
<1>8. CASE /\ stats' = DropBeforeEnqueue(s, item, r)
           /\ lost' = lost \cup {item.uid}
           /\ queue' = IF r = "InternalQueue" THEN Q!Discard(queue) ELSE queue
  <2>1. /\ stats' \in Statistics
        /\ stats'.enqueued = s.enqueued
        /\ stats'.droppedBefore.packets = s.droppedBefore.packets + 1
        /\ stats'.byReason = [s.byReason EXCEPT ![r] = @ + 1]
        /\ AllDrops(stats'.byReason) = AllDrops(s.byReason) + 1
    BY <1>3, <1>5, <1>8
  <2>2. /\ stats'.byReason["InvalidFlowID"] = s.byReason["InvalidFlowID"]
        /\ stats'.byReason["InternalQueue"] =
             s.byReason["InternalQueue"] + (IF r = "InternalQueue" THEN 1 ELSE 0)
    BY <1>1, <1>2, <1>5, <2>1
  <2>3. /\ queue.discarded \in Nat
        /\ queue'.discarded =
             queue.discarded + (IF r = "InternalQueue" THEN 1 ELSE 0)
    BY <1>8 DEF Q!Discard, Queues
  <2>4. queue'.discarded - queue.discarded =
          stats'.byReason["InternalQueue"] - stats.byReason["InternalQueue"]
    BY <1>2, <1>5, <2>2, <2>3
  <2> QED BY <1>2, <1>5, <1>8, <2>1, <2>2, <2>4
<1> QED BY <1>6, <1>7, <1>8

\* Each packet is enqueued or refused, once, and the drop counters account for
\* each refusal: the packets refused are among those that have arrived, so the
\* next one is none of them.
THEOREM OneFatePerPacketCorrect == Spec => []OneFatePerPacket
<1> DEFINE Inv == OneFatePerPacket /\ lost \subseteq 1 .. nArrived
<1>1. Init => Inv
  <2> SUFFICES ASSUME Init PROVE Inv
    OBVIOUS
  <2>1. /\ nArrived = 0 /\ lost = {} /\ queue.discarded = 0
        /\ stats.enqueued.packets = 0 /\ stats.droppedBefore.packets = 0
    BY DEF Init, BaseInit, ZeroStats, NoItems, Q!EmptyQueue
  <2>2. /\ stats.byReason["NoMatch"] = 0 /\ stats.byReason["InvalidFlowID"] = 0
        /\ stats.byReason["QUEUE_OVERFLOW"] = 0 /\ stats.byReason["Zap"] = 0
        /\ stats.byReason["Overflow"] = 0
        /\ stats.byReason["InternalQueue"] = 0
    BY DEF Init, BaseInit, ZeroStats, Reasons
  <2>3. Cardinality(lost) = 0
    BY <2>1, FS_EmptySet
  <2> QED BY <2>1, <2>2, <2>3 DEF OneFatePerPacket, AllDrops
<1>2. IInv /\ Inv /\ [Next]_vars => Inv'
  <2> SUFFICES ASSUME IInv, Inv, [Next]_vars PROVE Inv'
    OBVIOUS
  <2>1. /\ stats \in Statistics /\ queue \in Queues /\ nArrived \in Nat
        /\ stats.droppedBefore.packets \in Nat
        /\ stats.enqueued.packets \in Nat
        /\ stats.byReason \in [Reasons -> Nat]
        /\ queue.discarded \in Nat
    <3>1. stats \in Statistics /\ queue \in Queues /\ nArrived \in Nat
      BY SizeAssumption DEF IInv, TypeOK
    <3>2. /\ stats.droppedBefore \in Counters /\ stats.enqueued \in Counters
          /\ stats.byReason \in [Reasons -> Nat] /\ queue.discarded \in Nat
      BY <3>1 DEF Statistics, Queues
    <3> QED BY <3>1, <3>2 DEF Counters
  <2>2. IsFiniteSet(lost) /\ Cardinality(lost) \in Nat
    <3>1. IsFiniteSet(1 .. nArrived)
      BY <2>1, FS_Interval
    <3>2. IsFiniteSet(lost)
      BY <3>1, FS_Subset
    <3> QED BY <3>2, FS_CardinalityType
  <2>3. {"NoMatch", "QUEUE_OVERFLOW", "Zap", "Overflow"}
          \subseteq Reasons \ {"InvalidFlowID", "InternalQueue"}
        /\ "InternalQueue" \in Reasons \ {"InvalidFlowID"}
        /\ "InvalidFlowID" \in Reasons
    BY DEF Reasons
  <2>4. ASSUME NEW hash \in Hashes, NEW size \in Sizes,
               Enqueue(Packet(hash, size))
        PROVE  Inv'
    <3> DEFINE item == Packet(hash, size)
               c == CountedArrival(item)
    <3>1. /\ item.uid = nArrived + 1 /\ item.size \in Nat
          /\ nArrived' = nArrived + 1
      BY <2>4, EnqueueCases DEF Packet
    <3>2. PICK s \in {Received(stats, item), c},
               r \in Reasons \ {"InvalidFlowID"} :
               \/ Store(item, s) /\ r = "InternalQueue"
               \/ Refuse(item, s, r) /\ r # "InternalQueue"
      <4>1. \/ Refuse(item, Received(stats, item), "NoMatch")
            \/ Store(item, c) \/ Refuse(item, c, "QUEUE_OVERFLOW")
            \/ Refuse(item, c, "Overflow") \/ Refuse(item, c, "Zap")
        BY <2>4, EnqueueCases
      <4> HIDE DEF item
      <4>2. CASE Refuse(item, Received(stats, item), "NoMatch")
        BY <2>3, <4>2
      <4>3. CASE \/ Store(item, c) \/ Refuse(item, c, "QUEUE_OVERFLOW")
                 \/ Refuse(item, c, "Overflow") \/ Refuse(item, c, "Zap")
        BY <2>3, <4>3
      <4> QED BY <4>1, <4>2, <4>3
    <3> HIDE DEF item
    <3>3. PICK bump \in {0, 1} :
           /\ stats'.byReason["InvalidFlowID"] =
                stats.byReason["InvalidFlowID"] + bump
           /\ stats'.droppedBefore.packets - AllDrops(stats'.byReason) =
                stats.droppedBefore.packets - AllDrops(stats.byReason)
           /\ \/ /\ lost' = lost
                 /\ stats'.enqueued.packets = stats.enqueued.packets + 1
                 /\ stats'.droppedBefore.packets =
                      stats.droppedBefore.packets + bump
                 /\ queue'.discarded = queue.discarded
                 /\ stats'.byReason["InternalQueue"] =
                      stats.byReason["InternalQueue"]
              \/ /\ lost' = lost \cup {item.uid}
                 /\ stats'.enqueued.packets = stats.enqueued.packets
                 /\ stats'.droppedBefore.packets =
                      stats.droppedBefore.packets + bump + 1
                 /\ queue'.discarded - queue.discarded =
                      stats'.byReason["InternalQueue"]
                      - stats.byReason["InternalQueue"]
      BY <2>1, <3>1, <3>2, ArrivalFate
    <3>4. /\ stats'.droppedBefore.packets \in Nat
          /\ stats'.byReason["InvalidFlowID"] \in Nat
          /\ stats'.byReason["InternalQueue"] \in Nat
          /\ AllDrops(stats'.byReason) \in Nat
          /\ AllDrops(stats.byReason) \in Nat
          /\ queue'.discarded \in Nat
      <4>1. /\ stats'.byReason \in [Reasons -> Nat]
            /\ stats'.droppedBefore \in Counters /\ queue' \in Queues
        BY NextIInv DEF IInv, TypeOK, Statistics
      <4>2. ASSUME NEW f \in [Reasons -> Nat]
            PROVE  /\ f["InvalidFlowID"] \in Nat /\ f["InternalQueue"] \in Nat
                   /\ AllDrops(f) \in Nat
        BY DEF AllDrops, Reasons
      <4>3. stats'.droppedBefore.packets \in Nat /\ queue'.discarded \in Nat
        BY <4>1 DEF Counters, Queues
      <4> QED BY <2>1, <4>1, <4>2, <4>3
    <3>5. item.uid \notin lost
      BY <2>1, <3>1
    <3>6. /\ IsFiniteSet(lost \cup {item.uid})
          /\ Cardinality(lost \cup {item.uid}) = Cardinality(lost) + 1
      BY ONLY <2>2, <3>5, FS_AddElement
    <3>7. /\ lost' \subseteq 1 .. nArrived'
          /\ stats'.enqueued.packets + Cardinality(lost') = nArrived'
          /\ stats'.droppedBefore.packets =
               Cardinality(lost') + stats'.byReason["InvalidFlowID"]
      <4>1. lost' \subseteq 1 .. nArrived'
        <5>1. lost \subseteq 1 .. nArrived /\ lost' \subseteq lost \cup {item.uid}
          BY <3>3
        <5> QED BY ONLY <2>1, <3>1, <5>1
      <4>2. /\ stats.enqueued.packets + Cardinality(lost) = nArrived
            /\ stats.droppedBefore.packets =
                 Cardinality(lost) + stats.byReason["InvalidFlowID"]
            /\ stats.byReason["InvalidFlowID"] \in Nat
        BY <2>1, <2>3 DEF OneFatePerPacket
      <4>3. CASE lost' = lost
        <5>1. lost # lost \cup {item.uid}
          BY <3>5
        <5> QED BY <2>1, <2>2, <3>1, <3>3, <3>4, <4>1, <4>2, <4>3, <5>1
      <4>4. CASE lost' = lost \cup {item.uid}
        <5>1. lost # lost \cup {item.uid}
          BY <3>5
        <5> QED
          BY <2>1, <2>2, <3>1, <3>3, <3>4, <3>6, <4>1, <4>2, <4>4, <5>1
      <4> QED BY <3>3, <4>3, <4>4
    <3>8. /\ stats'.droppedBefore.packets = AllDrops(stats'.byReason)
          /\ queue'.discarded = stats'.byReason["InternalQueue"]
      <4>1. /\ stats.droppedBefore.packets = AllDrops(stats.byReason)
            /\ queue.discarded = stats.byReason["InternalQueue"]
            /\ stats.byReason["InternalQueue"] \in Nat
        BY <2>1 DEF OneFatePerPacket
      <4>2. stats'.droppedBefore.packets - AllDrops(stats'.byReason) =
              stats.droppedBefore.packets - AllDrops(stats.byReason)
        BY <3>3
      <4>3. queue'.discarded - queue.discarded =
              stats'.byReason["InternalQueue"] - stats.byReason["InternalQueue"]
        BY <2>1, <3>3, <3>4, <4>1
      <4> QED BY ONLY <2>1, <3>4, <4>1, <4>2, <4>3
    <3> QED BY <3>7, <3>8 DEF OneFatePerPacket
  <2>5. CASE Dequeue \/ UNCHANGED vars
    <3>1. stats'.byReason = stats.byReason
      BY <2>5, OthersDropNothing
    <3>2. /\ UNCHANGED <<nArrived, lost>>
          /\ stats'.droppedBefore = stats.droppedBefore
          /\ stats'.enqueued = stats.enqueued
          /\ queue'.discarded = queue.discarded
      BY <2>1, <2>5 DEF Dequeue, TakeHead, vars, baseVars, PacketDequeued,
                        Q!RemoveHead, Statistics, Queues
    <3> QED BY <3>1, <3>2 DEF OneFatePerPacket
  <2> QED BY <2>4, <2>5 DEF Next
<1> QED BY <1>1, <1>2, Invariance, PTL DEF Spec

-----------------------------------------------------------------------------
(* The list as evidence *)

LEMMA EvidenceIsInt ==
  ASSUME NEW list \in Seq([flowID : FlowIDs, count : Nat]), NEW f
  PROVE  SumUpTo(Evidence(list, f), Len(list)) \in Int
<1> DEFINE w == Evidence(list, f)
           n == Len(list)
<1>1. /\ n \in Nat /\ n \in 0 .. n
      /\ \A i \in 1 .. n : w[i] \in Int
  <2> DEFINE Z == [flowID : FlowIDs, count : Nat]
  <2>1. list \in Seq(Z) /\ \A z \in Z : z.count \in Nat
    OBVIOUS
  <2> HIDE DEF Z
  <2>2. /\ n \in Nat /\ n \in 0 .. n /\ DOMAIN list = 1 .. n
        /\ \A i \in 1 .. n : list[i] \in Z
    BY <2>1
  <2>3. \A i \in 1 .. n : list[i].count \in Nat
    BY <2>1, <2>2
  <2> QED BY <2>2, <2>3 DEF Evidence
<1> HIDE DEF w, n
<1>2. SumUpTo(w, n) \in Int
  BY <1>1, SumRec
<1> QED BY <1>2 DEF w, n

\* An arrival adds at most one to what the list says of its own flow, and
\* nothing to what it says of another: an overwritten zombie only takes its
\* evidence with it.
LEMMA EvidenceGrowsByOne ==
  ASSUME IInv, NEW item \in Items, NEW f \in FlowIDs,
         \/ Remember(item)
         \/ \E index \in DOMAIN zombies : Hit(item, index) \/ Miss(item, index)
  PROVE  /\ SumUpTo(Evidence(zombies, f), Len(zombies)) \in Int
         /\ SumUpTo(Evidence(zombies', f), Len(zombies')) <=
              SumUpTo(Evidence(zombies, f), Len(zombies))
              + (IF item.flow = f THEN 1 ELSE 0)
<1> DEFINE n == Len(zombies)
           w == Evidence(zombies, f)
           v == Evidence(zombies', f)
           Z == [flowID : FlowIDs, count : Nat]
<1>1. zombies \in Seq(Z) /\ n \in Nat /\ DOMAIN zombies = 1 .. n
  BY DEF IInv, TypeOK
<1>2. ASSUME NEW i \in 1 .. n
      PROVE  /\ w[i] = IF zombies[i].flowID = f THEN zombies[i].count + 1 ELSE 0
             /\ w[i] \in Nat /\ zombies[i] \in Z
  <2>1. zombies[i] \in Z
    <3> HIDE DEF Z
    <3> QED BY <1>1
  <2>2. w[i] = IF zombies[i].flowID = f THEN zombies[i].count + 1 ELSE 0
    BY <1>1 DEF Evidence
  <2> QED BY <2>1, <2>2
<1>3. SumUpTo(w, n) \in Int
  BY <1>1, EvidenceIsInt
<1>4. ASSUME Remember(item)
      PROVE  SumUpTo(v, Len(zombies')) <=
               SumUpTo(w, n) + (IF item.flow = f THEN 1 ELSE 0)
  <2>1. /\ zombies' = Append(zombies, Zombie(item.flow))
        /\ Len(zombies') = n + 1 /\ DOMAIN zombies' = 1 .. n + 1
        /\ zombies'[n + 1] = Zombie(item.flow)
        /\ \A i \in 1 .. n : zombies'[i] = zombies[i]
    <3> HIDE DEF Z
    <3> QED BY <1>1, <1>4 DEF Remember
  <2>2. /\ v[n + 1] = IF item.flow = f THEN 1 ELSE 0
        /\ \A i \in 1 .. n : v[i] = w[i]
    BY <1>1, <1>2, <2>1 DEF Evidence, Zombie
  <2>3. \A i \in 1 .. n : w[i] \in Int
    BY <1>2
  <2>4. v[n + 1] \in Int
    BY <2>2
  <2> HIDE DEF v, w, n
  <2>5. SumUpTo(v, n + 1) = SumUpTo(w, n) + v[n + 1]
    BY <1>1, <2>2, <2>3, <2>4, SumAppend
  <2> QED BY <1>3, <2>1, <2>2, <2>5
<1>5. ASSUME NEW k \in DOMAIN zombies, Hit(item, k) \/ Miss(item, k)
      PROVE  SumUpTo(v, Len(zombies')) <=
               SumUpTo(w, n) + (IF item.flow = f THEN 1 ELSE 0)
  <2>1. CASE zombies' = zombies
    BY <1>3, <2>1
  <2>2. CASE zombies' # zombies
    <3>1. \/ /\ zombies[k].flowID = item.flow
             /\ zombies' = [zombies EXCEPT ![k].count = @ + 1]
          \/ zombies' = [zombies EXCEPT ![k] = Zombie(item.flow)]
      BY <1>5, <2>2 DEF Hit, Miss
    <3>2. /\ DOMAIN zombies' = 1 .. n /\ Len(zombies') = n
          /\ \A i \in 1 .. n : i # k => zombies'[i] = zombies[i]
      BY <1>1, <3>1
    <3>3. k \in 1 .. n
      BY <1>1
    <3>4. \A i \in 1 .. n : i # k => v[i] = w[i]
      BY <1>1, <3>2 DEF Evidence
    <3>5. v[k] \in Int /\ v[k] - w[k] <= (IF item.flow = f THEN 1 ELSE 0)
      <4>1. v[k] = IF zombies'[k].flowID = f THEN zombies'[k].count + 1 ELSE 0
        BY <3>2, <3>3 DEF Evidence
      <4>2. zombies[k].count \in Nat
        BY <1>2, <3>3
      <4>3. CASE /\ zombies[k].flowID = item.flow
                 /\ zombies' = [zombies EXCEPT ![k].count = @ + 1]
        <5>1. /\ zombies'[k].flowID = item.flow
              /\ zombies'[k].count = zombies[k].count + 1
          BY <1>1, <1>2, <3>3, <4>3
        <5> HIDE DEF v
        <5> QED BY <1>2, <3>3, <4>1, <4>2, <4>3, <5>1
      <4>4. CASE zombies' = [zombies EXCEPT ![k] = Zombie(item.flow)]
        <5>1. zombies'[k] = Zombie(item.flow)
          BY <1>1, <3>3, <4>4
        <5>2. zombies'[k].flowID = item.flow /\ zombies'[k].count = 0
          BY <5>1 DEF Zombie
        <5> HIDE DEF v, w
        <5> QED BY <1>2, <3>3, <4>1, <5>2
      <4> QED BY <3>1, <4>3, <4>4
    <3>6. \A i \in 1 .. n : w[i] \in Int
      BY <1>2
    <3> HIDE DEF v, w, n
    <3>7. SumUpTo(v, n) = SumUpTo(w, n) + (v[k] - w[k])
      BY <1>1, <3>3, <3>4, <3>5, <3>6, SumChange
    <3>8. w[k] \in Int
      BY <3>3, <3>6
    <3> QED BY <1>3, <3>2, <3>5, <3>7, <3>8
  <2> QED BY <2>1, <2>2
<1> QED BY <1>3, <1>4, <1>5

\* The zombies of a flow, with their hits, never stand for more packets than the
\* flow has sent.
THEOREM ZombiesAreEvidenceCorrect == Spec => []ZombiesAreEvidence
<1>1. Init => ZombiesAreEvidence
  <2> SUFFICES ASSUME Init, NEW f \in FlowIDs
               PROVE  SumUpTo(Evidence(zombies, f), Len(zombies)) <= arrivals[f]
    BY DEF ZombiesAreEvidence
  <2>1. zombies = <<>> /\ arrivals[f] = 0 /\ Len(zombies) = 0
    BY DEF Init, BaseInit
  <2> DEFINE w == Evidence(zombies, f)
  <2>2. \A i \in 1 .. 0 : w[i] \in Int
    OBVIOUS
  <2> HIDE DEF w
  <2>3. SumUpTo(w, 0) = 0
    BY ONLY <2>2, 0 \in Nat, SumRec
  <2> QED BY <2>1, <2>3 DEF w
<1>2. IInv /\ ZombiesAreEvidence /\ [Next]_vars => ZombiesAreEvidence'
  <2> SUFFICES ASSUME IInv, ZombiesAreEvidence, [Next]_vars,
                      NEW f \in FlowIDs
               PROVE  SumUpTo(Evidence(zombies', f), Len(zombies'))
                        <= arrivals'[f]
    BY DEF ZombiesAreEvidence
  <2>1. /\ SumUpTo(Evidence(zombies, f), Len(zombies)) <= arrivals[f]
        /\ arrivals \in [FlowIDs -> Nat] /\ arrivals[f] \in Nat
    BY DEF ZombiesAreEvidence, IInv, TypeOK
  <2>2. SumUpTo(Evidence(zombies, f), Len(zombies)) \in Int
    BY EvidenceIsInt DEF IInv, TypeOK
  <2>3. ASSUME NEW hash \in Hashes, NEW size \in Sizes,
               Enqueue(Packet(hash, size))
        PROVE  SumUpTo(Evidence(zombies', f), Len(zombies')) <= arrivals'[f]
    <3> DEFINE item == Packet(hash, size)
    <3>1. /\ item \in Items
          /\ \/ UNCHANGED zombies
             \/ Remember(item)
             \/ \E index \in DOMAIN zombies :
                  Hit(item, index) \/ Miss(item, index)
      BY <2>3, EnqueueCases
    <3>2. arrivals' = [arrivals EXCEPT ![item.flow] = @ + 1]
      BY <2>3 DEF Enqueue, EnqueueNoMatch, EnqueueWarmUp, EnqueueSteady, Arrives
    <3> HIDE DEF item
    <3>3. arrivals'[f] = arrivals[f] + (IF item.flow = f THEN 1 ELSE 0)
      BY <2>1, <3>2
    <3>4. CASE UNCHANGED zombies
      <4>1. arrivals[f] <= arrivals'[f]
        BY <2>1, <3>3
      <4> QED BY <2>1, <2>2, <3>3, <3>4, <4>1
    <3>5. CASE \/ Remember(item)
               \/ \E index \in DOMAIN zombies :
                    Hit(item, index) \/ Miss(item, index)
      <4>1. /\ SumUpTo(Evidence(zombies, f), Len(zombies)) \in Int
            /\ SumUpTo(Evidence(zombies', f), Len(zombies')) <=
                 SumUpTo(Evidence(zombies, f), Len(zombies))
                 + (IF item.flow = f THEN 1 ELSE 0)
        BY <3>1, <3>5, EvidenceGrowsByOne
      <4>2. SumUpTo(Evidence(zombies', f), Len(zombies')) \in Int
        BY NextIInv, EvidenceIsInt DEF IInv, TypeOK
      <4> QED BY <2>1, <2>2, <3>3, <4>1, <4>2
    <3> QED BY <3>1, <3>4, <3>5
  <2>4. CASE Dequeue \/ UNCHANGED vars
    <3>1. UNCHANGED <<zombies, arrivals>>
      BY <2>4 DEF Dequeue, TakeHead, vars, baseVars
    <3> QED BY <2>1, <3>1
  <2> QED BY <2>3, <2>4 DEF Next
<1> QED BY <1>1, <1>2, Invariance, PTL DEF Spec

-----------------------------------------------------------------------------
(* What depends on the configuration *)

\* With a limit in packets both room tests of DoEnqueue are at least as strict as
\* the one of the internal queue, which therefore never refuses a packet.
THEOREM InternalQueueNeverRefusesCorrect ==
  ASSUME Unit = "packets"
  PROVE  Spec => []InternalQueueNeverRefuses
<1>1. Init => InternalQueueNeverRefuses
  BY DEF Init, BaseInit, Q!EmptyQueue, InternalQueueNeverRefuses
<1>2. IInv /\ InternalQueueNeverRefuses /\ [Next]_vars
        => InternalQueueNeverRefuses'
  <2> SUFFICES ASSUME IInv, InternalQueueNeverRefuses, [Next]_vars
               PROVE  queue'.discarded = 0
    BY DEF InternalQueueNeverRefuses
  <2>1. queue \in Queues /\ queue.discarded = 0
    BY DEF IInv, TypeOK, InternalQueueNeverRefuses
  <2>2. Q!CurrentSize(queue) \in Nat /\ MaxSize \in Nat
    BY <2>1, SizeAssumption DEF Q!CurrentSize, Queues, Counters
  <2>3. ASSUME NEW item, NEW s, Store(item, s), Q!HasRoomFor(queue, item)
        PROVE  queue'.discarded = 0
    BY <2>1, <2>3 DEF Store, Q!Insert, Queues
  <2>4. ASSUME NEW hash \in Hashes, NEW size \in Sizes,
               Enqueue(Packet(hash, size))
        PROVE  queue'.discarded = 0
    <3> DEFINE item == Packet(hash, size)
               c == CountedArrival(item)
    <3>1. item.size \in Nat \ {0}
      BY SizeAssumption DEF Packet
    <3>2. ASSUME NEW s, NEW r, Refuse(item, s, r)
          PROVE  queue'.discarded = 0
      BY <2>1, <3>2 DEF Refuse
    <3> HIDE DEF item, c
    <3>3. \/ \E s, r : Refuse(item, s, r)
          \/ /\ Store(item, c)
             /\ \/ Q!CurrentSize(queue) + item.size <= MaxSize
                \/ Q!CurrentSize(queue) < MaxSize
      BY <2>4 DEF Enqueue, EnqueueNoMatch, EnqueueWarmUp, EnqueueSteady,
                  WarmUpEnd, SteadyEnd, item, c
    <3>4. CASE /\ Store(item, c)
               /\ \/ Q!CurrentSize(queue) + item.size <= MaxSize
                  \/ Q!CurrentSize(queue) < MaxSize
      <4>1. Q!CurrentSize(queue) + 1 <= MaxSize
        BY <2>2, <3>1, <3>4
      <4>2. Q!HasRoomFor(queue, item)
        BY <4>1 DEF Q!HasRoomFor
      <4> QED BY <2>3, <3>4, <4>2
    <3> QED BY <3>2, <3>3, <3>4
  <2>5. CASE Dequeue
    BY <2>1, <2>5 DEF Dequeue, TakeHead, Q!RemoveHead, Queues
  <2>6. CASE UNCHANGED vars
    BY <2>1, <2>6 DEF vars, baseVars
  <2> QED BY <2>4, <2>5, <2>6 DEF Next
<1> QED BY <1>1, <1>2, Invariance, PTL DEF Spec

\* With a limit in bytes a packet is refused for lack of room only when it would
\* exceed the limit, by whichever of the three tests refuses it.
THEOREM OverflowOnlyWhenFullCorrect ==
  ASSUME Unit = "bytes"
  PROVE  Spec => OverflowOnlyWhenFull
<1> DEFINE A == \A r \in {"QUEUE_OVERFLOW", "Overflow", "InternalQueue"} :
                 Drops(r) => \E size \in Sizes :
                   /\ ~Q!HasRoomFor(queue, [size |-> size])
                   /\ stats'.received.bytes = stats.received.bytes + size
<1>1. IInv /\ [Next]_vars => [A]_vars
  <2> SUFFICES ASSUME IInv, [Next]_vars,
                      NEW r \in {"QUEUE_OVERFLOW", "Overflow", "InternalQueue"},
                      Drops(r)
               PROVE  \E size \in Sizes :
                        /\ ~Q!HasRoomFor(queue, [size |-> size])
                        /\ stats'.received.bytes = stats.received.bytes + size
    OBVIOUS
  <2>1. /\ queue \in Queues /\ stats \in Statistics
        /\ stats.byReason \in [Reasons -> Nat]
    BY DEF IInv, TypeOK, Statistics
  <2>2. Q!CurrentSize(queue) = queue.stored.bytes /\ queue.stored.bytes \in Nat
        /\ MaxSize \in Nat
    BY <2>1, SizeAssumption DEF Q!CurrentSize, Queues, Counters
  <2>3. /\ r \in Reasons \ {"InvalidFlowID", "NoMatch", "Zap"}
        /\ {"NoMatch", "QUEUE_OVERFLOW", "Overflow", "InternalQueue", "Zap"}
             \subseteq Reasons
    BY DEF Reasons
  <2>4. ~(stats'.byReason[r] = stats.byReason[r])
    BY <2>1, <2>3 DEF Drops
  <2>5. ~Dequeue /\ ~UNCHANGED vars
    BY <2>4, OthersDropNothing
  <2>6. PICK hash \in Hashes, size \in Sizes : Enqueue(Packet(hash, size))
    BY <2>5 DEF Next
  <2> DEFINE item == Packet(hash, size)
             c == CountedArrival(item)
  <2>7. item.size = size /\ size \in Nat \ {0}
    BY SizeAssumption DEF Packet
  <2> HIDE DEF item, c
  <2>8. \/ Refuse(item, Received(stats, item), "NoMatch")
        \/ Refuse(item, c, "Zap")
        \/ Store(item, c)
        \/ /\ Refuse(item, c, "QUEUE_OVERFLOW")
           /\ Q!CurrentSize(queue) + item.size > MaxSize
        \/ /\ Refuse(item, c, "Overflow")
           /\ Q!CurrentSize(queue) >= MaxSize
    BY <2>6 DEF Enqueue, EnqueueNoMatch, EnqueueWarmUp, EnqueueSteady,
                WarmUpEnd, SteadyEnd, item, c
  <2>9. ~Q!HasRoomFor(queue, item)
    <3>1. ~Refuse(item, Received(stats, item), "NoMatch")
      BY <2>1, <2>3, <2>4, <2>7, ArrivalReasons
    <3>2. ~Refuse(item, c, "Zap")
      BY <2>1, <2>3, <2>4, <2>7, ArrivalReasons DEF c
    <3>3. CASE Store(item, c)
      <4>1. ASSUME Q!HasRoomFor(queue, item) PROVE FALSE
        <5>1. stats' = PacketEnqueued(c, item)
          BY <3>3, <4>1 DEF Store
        <5>2. /\ c \in Statistics
              /\ c.byReason[r] = stats.byReason[r]
          BY <2>1, <2>3, <2>7, CountedArrivalReasons DEF c
        <5> QED BY <2>4, <5>1, <5>2 DEF PacketEnqueued, Statistics
      <4> QED BY <4>1
    <3>4. CASE Q!CurrentSize(queue) + item.size > MaxSize
      BY <2>2, <2>7, <3>4 DEF Q!HasRoomFor
    <3>5. CASE Q!CurrentSize(queue) >= MaxSize
      BY <2>2, <2>7, <3>5 DEF Q!HasRoomFor
    <3> QED BY <2>8, <3>1, <3>2, <3>3, <3>4, <3>5
  <2>10. ~Q!HasRoomFor(queue, [size |-> size])
    BY <2>7, <2>9 DEF Q!HasRoomFor
  <2>11. stats'.received.bytes = stats.received.bytes + size
    <3>1. /\ c \in Statistics /\ c.received = Plus(stats.received, item)
          /\ Received(stats, item) \in Statistics
          /\ Received(stats, item).received = Plus(stats.received, item)
      BY <2>1, <2>3, <2>7, CountedArrivalReasons DEF c
    <3>2. stats'.received = Plus(stats.received, item)
      BY <2>8, <3>1 DEF Refuse, Store, PacketEnqueued, DropBeforeEnqueue, Statistics
    <3> QED BY <2>7, <3>2 DEF Plus
  <2> QED BY <2>10, <2>11
<1> QED BY <1>1, Invariance, PTL DEF Spec, OverflowOnlyWhenFull

\* In the simple mode the factor min (1, 1/(256 h^2)) keeps the probability of a
\* random drop within the attribute MaximumDropProbability; a mode that is
\* neither simple nor full never drops at random.
THEOREM ZapAtMostPMaxCorrect ==
  ASSUME StabilizedRedMode # 2
  PROVE  Spec => []ZapAtMostPMax
<1>1. IInv => ZapAtMostPMax
  <2> SUFFICES ASSUME IInv
               PROVE  LET p == ProbabilityZap(queue, p_hitFreq)
                      IN  p.num * PMaxDen <= PMaxNum * p.den
    BY DEF ZapAtMostPMax
  <2> DEFINE h == p_hitFreq
             p_sred == calculateProbabilityStabilizedRed(queue)
             p == ProbabilityZap(queue, h)
             quarters == SredQuarters(queue)
  <2>1. /\ h \in Nat /\ HitUnit \in Nat /\ PMaxNum \in Nat /\ PMaxDen \in Nat
        /\ quarters \in Nat /\ quarters <= 4
    BY AlphaAssumption, ProbabilityAssumption
       DEF IInv, TypeOK, HitScale, SredQuarters
  <2>2. /\ p_sred.num = quarters * PMaxNum /\ p_sred.den = 4 * PMaxDen
    BY DEF calculateProbabilityStabilizedRed
  <2>3. p_sred.num * PMaxDen <= PMaxNum * p_sred.den
    <3> DEFINE m == PMaxNum * PMaxDen
    <3>1. m \in Nat /\ p_sred.num * PMaxDen = quarters * m
          /\ PMaxNum * p_sred.den = 4 * m
      BY <2>1, <2>2
    <3> HIDE DEF m, quarters, p_sred
    <3>2. quarters * m <= 4 * m
      BY <2>1, <3>1
    <3> QED BY <3>1, <3>2
  <2>4. CASE StabilizedRedMode # 1
    <3>1. p = [num |-> 0, den |-> 1]
      BY <2>4, ProbabilityAssumption DEF ProbabilityZap
    <3>2. p.num * PMaxDen = 0 /\ PMaxNum * p.den = PMaxNum
      BY <2>1, <3>1
    <3> QED BY <2>1, <3>2
  <2>5. CASE StabilizedRedMode = 1
    <3>1. p = calculateProbabilityZapSimple(p_sred, h)
      BY <2>5 DEF ProbabilityZap
    <3>2. CASE ~(h > HitUnit)
      BY <2>3, <3>1, <3>2 DEF calculateProbabilityZapSimple
    <3>3. CASE h > HitUnit
      <4> DEFINE a == p_sred.num * PMaxDen
                 b == PMaxNum * p_sred.den
      <4>1. a \in Nat /\ b \in Nat /\ p_sred.num \in Nat /\ p_sred.den \in Nat
        BY <2>1, <2>2
      <4>2. /\ p.num = p_sred.num * HitUnit * HitUnit
            /\ p.den = p_sred.den * h * h
        BY <3>1, <3>3 DEF calculateProbabilityZapSimple
      <4> HIDE DEF p_sred, p, h
      <4>3. /\ p.num * PMaxDen = a * (HitUnit * HitUnit)
            /\ PMaxNum * p.den = b * (h * h)
        BY <2>1, <4>1, <4>2
      <4>4. HitUnit * HitUnit \in Nat /\ h * h \in Nat
            /\ HitUnit * HitUnit <= h * h
        <5>1. HitUnit * HitUnit <= h * HitUnit
          BY <2>1, <3>3
        <5>2. h * HitUnit <= h * h
          BY <2>1, <3>3
        <5> QED BY <2>1, <5>1, <5>2
      <4>5. a <= b
        BY <2>3
      <4> HIDE DEF a, b
      <4>6. \A x, y \in Nat : x <= y => a * x <= b * y
        <5> SUFFICES ASSUME NEW x \in Nat, NEW y \in Nat, x <= y
                     PROVE  a * x <= b * y
          OBVIOUS
        <5>1. a * x <= b * x
          BY <4>1, <4>5
        <5>2. b * x <= b * y
          BY <4>1
        <5> QED BY <4>1, <5>1, <5>2
      <4> QED BY <4>3, <4>4, <4>6 DEF p, h
    <3> QED BY <3>2, <3>3
  <2> QED BY <2>4, <2>5
<1> QED BY <1>1, Invariance, PTL

\* With a limit in bytes the pressure is what the comment on it says: full from a
\* third of the capacity up to the capacity.
THEOREM FullPressureAboveAThirdCorrect ==
  ASSUME Unit = "bytes"
  PROVE  Spec => []FullPressureAboveAThird
<1>1. IInv => FullPressureAboveAThird
  <2> SUFFICES ASSUME IInv PROVE FullPressureAboveAThird
    OBVIOUS
  <2>1. Q!CurrentSize(queue) = queue.stored.bytes
        /\ Q!CurrentSize(queue) <= MaxSize
    BY DEF IInv, BaseInv, CountersInStep, Q!CurrentSize
  <2> QED BY <2>1 DEF FullPressureAboveAThird, SredQuarters
<1> QED BY <1>1, Invariance, PTL

\* The assertion of QueueDisc::Enqueue is exact where no packet reaches DoEnqueue
\* with the flow identifier -1: with packet filters installed, which have such a
\* packet dropped first, or with hashes that never take that value.
THEOREM ReceivedIsDroppedPlusEnqueuedCorrect ==
  ASSUME HasFilters \/ InvalidFlowID \notin FlowIDs
  PROVE  Spec => []ReceivedIsDroppedPlusEnqueued
<1> DEFINE Inv == stats.byReason["InvalidFlowID"] = 0
<1>1. Init => Inv
  BY DEF Init, BaseInit, ZeroStats, Reasons
<1>2. IInv /\ Inv /\ [Next]_vars => Inv'
  <2> SUFFICES ASSUME IInv, Inv, [Next]_vars PROVE Inv'
    OBVIOUS
  <2>1. stats \in Statistics /\ stats.byReason \in [Reasons -> Nat]
    BY DEF IInv, TypeOK, Statistics
  <2>2. "InvalidFlowID" \in Reasons
        /\ {"NoMatch", "QUEUE_OVERFLOW", "Overflow", "InternalQueue", "Zap"}
             \subseteq Reasons \ {"InvalidFlowID"}
    BY DEF Reasons
  <2>3. ASSUME NEW hash \in Hashes, NEW size \in Sizes,
               Enqueue(Packet(hash, size))
        PROVE  Inv'
    <3> DEFINE item == Packet(hash, size)
               c == CountedArrival(item)
               d == Received(stats, item)
    <3>1. item \in Items /\ item.size \in Nat
      BY <2>3, EnqueueCases
    <3>2. \/ Refuse(item, d, "NoMatch")
          \/ /\ ~NoFilterMatches(item)
             /\ \/ Store(item, c) \/ Refuse(item, c, "QUEUE_OVERFLOW")
                \/ Refuse(item, c, "Overflow") \/ Refuse(item, c, "Zap")
      BY <2>3 DEF Enqueue, EnqueueNoMatch, EnqueueWarmUp, EnqueueSteady,
                  WarmUpEnd, SteadyEnd
    <3>3. d \in Statistics /\ d.byReason = stats.byReason
      BY <2>1, <2>2, <3>1, StatsTypes DEF Received, Statistics
    <3>4. ~NoFilterMatches(item) => c = d
      BY <3>1 DEF NoFilterMatches, CountedArrival, Items, InvalidFlowID, PF_NO_MATCH
    <3> HIDE DEF item, c, d
    <3>5. \/ stats' = PacketEnqueued(d, item)
          \/ \E r \in Reasons \ {"InvalidFlowID"} :
               stats' = DropBeforeEnqueue(d, item, r)
      BY <2>2, <3>2, <3>4 DEF Store, Refuse
    <3>6. ASSUME NEW r \in Reasons \ {"InvalidFlowID"},
                 stats' = DropBeforeEnqueue(d, item, r)
          PROVE  Inv'
      <4>1. stats'.byReason = [d.byReason EXCEPT ![r] = @ + 1]
        BY <3>3, <3>6 DEF DropBeforeEnqueue, Statistics
      <4> QED BY <2>1, <2>2, <3>3, <4>1
    <3>7. CASE stats' = PacketEnqueued(d, item)
      BY <3>3, <3>7 DEF PacketEnqueued, Statistics
    <3> QED BY <3>5, <3>6, <3>7
  <2>4. CASE Dequeue \/ UNCHANGED vars
    BY <2>4, OthersDropNothing
  <2> QED BY <2>3, <2>4 DEF Next
<1>3. IInv /\ Inv => ReceivedIsDroppedPlusEnqueued
  <2> SUFFICES ASSUME IInv, Inv PROVE ReceivedIsDroppedPlusEnqueued
    OBVIOUS
  <2>1. /\ stats.received.packets \in Nat
        /\ stats.droppedBefore.packets + stats.enqueued.packets =
             stats.received.packets + stats.byReason["InvalidFlowID"]
    BY DEF IInv, BaseInv, Accounting, Statistics, Counters
  <2> QED BY <2>1 DEF ReceivedIsDroppedPlusEnqueued
<1> QED BY <1>1, <1>2, <1>3, Invariance, PTL DEF Spec

=============================================================================
