---------------------------- MODULE ESRedProofs ----------------------------
(***************************************************************************)
(* ESRedQueueDisc implements StabilizedRedQueueDisc, and what its stamps   *)
(* do to the zombies, for every configuration.                             *)
(***************************************************************************)
EXTENDS ESRed, SequenceTheorems, TLAPS

-----------------------------------------------------------------------------
(* The list *)

EZombies == [flowID : FlowIDs, count : Nat, time : 0 .. now]

\* The four things a step can do to the list and the clock.
Pushes(flow) ==
  /\ Len(zombies) < MaxZombies
  /\ zombies' = Append(zombies, EZombie(flow)) /\ now' = now
Counts(index) ==
  /\ zombies' = [zombies EXCEPT ![index].count = @ + 1, ![index].time = now]
  /\ now' = now
Overwrites(index, flow) ==
  /\ zombies[index].flowID # flow
  /\ zombies' = [zombies EXCEPT ![index] = EZombie(flow)] /\ now' = now
Leaves == zombies' = zombies /\ now' \in {now, now + 1}

LEMMA ListSteps ==
  ASSUME [Next]_vars
  PROVE  \/ \E flow \in FlowIDs : Pushes(flow)
         \/ \E index \in DOMAIN zombies : Counts(index)
         \/ \E index \in DOMAIN zombies, flow \in FlowIDs : Overwrites(index, flow)
         \/ Leaves
<1>1. ASSUME NEW hash \in Hashes, NEW size \in Sizes, Enqueue(Packet(hash, size))
      PROVE  \/ \E flow \in FlowIDs : Pushes(flow)
             \/ \E index \in DOMAIN zombies : Counts(index)
             \/ \E index \in DOMAIN zombies, flow \in FlowIDs : Overwrites(index, flow)
             \/ Leaves
  <2> DEFINE item == Packet(hash, size)
  <2>1. item.flow \in FlowIDs
    BY DEF Packet, FlowIDs
  <2> HIDE DEF item
  <2>2. now' = now /\ (EnqueueNoMatch(item) \/ EnqueueWarmUp(item) \/ EnqueueSteady(item))
    BY <1>1 DEF Enqueue, item
  <2>3. CASE EnqueueNoMatch(item)
    BY <2>2, <2>3 DEF EnqueueNoMatch, Leaves
  <2>4. CASE EnqueueWarmUp(item)
    BY <2>1, <2>2, <2>4 DEF EnqueueWarmUp, Remember, Pushes
  <2>5. CASE EnqueueSteady(item)
    <3>1. PICK index \in DOMAIN zombies : Hit(item, index) \/ Miss(item, index)
      BY <2>5 DEF EnqueueSteady
    <3>2. CASE Hit(item, index)
      BY <2>2, <3>2 DEF Hit, Counts
    <3>3. CASE Miss(item, index)
      BY <2>1, <2>2, <3>3 DEF Miss, Overwrites, Leaves
    <3> QED BY <3>1, <3>2, <3>3
  <2> QED BY <2>2, <2>3, <2>4, <2>5
<1>2. CASE Dequeue
  BY <1>2 DEF Dequeue, Leaves
<1>3. CASE Tick
  BY <1>3 DEF Tick, Leaves
<1>4. CASE UNCHANGED vars
  BY <1>4 DEF vars, Leaves
<1> QED BY <1>1, <1>2, <1>3, <1>4 DEF Next

ListOK == ZombiesOK /\ now \in Nat

\* A hit leaves a zombie.
LEMMA CountedZombie ==
  ASSUME NEW old \in EZombies, now \in Nat
  PROVE  [old EXCEPT !.count = @ + 1, !.time = now] \in EZombies
<1>1. [old EXCEPT !.count = @ + 1] \in EZombies
  BY DEF EZombies
<1>2. \A z \in EZombies : [z EXCEPT !.time = now] \in EZombies
  BY DEF EZombies
<1>3. [old EXCEPT !.count = @ + 1, !.time = now]
        = [[old EXCEPT !.count = @ + 1] EXCEPT !.time = now]
  OBVIOUS
<1> QED BY <1>1, <1>2, <1>3

LEMMA ListOKStep == ASSUME ListOK, [Next]_vars PROVE ListOK'
<1>0. /\ zombies \in Seq(EZombies) /\ now \in Nat /\ Len(zombies) \in Nat
      /\ Len(zombies) <= MaxZombies /\ MaxZombies \in Nat
  BY AlphaAssumption DEF ListOK, ZombiesOK, EZombies
<1>1. \A flow \in FlowIDs : EZombie(flow) \in EZombies
  BY <1>0 DEF EZombie, EZombies
<1>2. CASE \E flow \in FlowIDs : Pushes(flow)
  <2>1. PICK flow \in FlowIDs : Pushes(flow)
    BY <1>2
  <2>2. zombies' = Append(zombies, EZombie(flow)) /\ EZombie(flow) \in EZombies
        /\ now' = now
    BY <1>1, <2>1 DEF Pushes
  <2> HIDE DEF EZombies
  <2>3. zombies' \in Seq(EZombies) /\ Len(zombies') = Len(zombies) + 1
    BY <1>0, <2>2, AppendProperties
  <2> QED BY <1>0, <2>1, <2>2, <2>3 DEF Pushes, ListOK, ZombiesOK, EZombies
<1>3. CASE \E index \in DOMAIN zombies : Counts(index)
  <2>1. PICK index \in DOMAIN zombies : Counts(index)
    BY <1>3
  <2> DEFINE z == [zombies[index] EXCEPT !.count = @ + 1, !.time = now]
  <2>2. z \in EZombies
    <3>1. zombies[index] \in EZombies
      BY <1>0, ElementOfSeq
    <3> QED BY <1>0, <3>1, CountedZombie
  <2>3. zombies' = [zombies EXCEPT ![index] = z]
    BY <2>1 DEF Counts
  <2> HIDE DEF z
  <2>4. zombies' \in Seq(EZombies) /\ Len(zombies') = Len(zombies)
    BY <1>0, <2>2, <2>3, ExceptSeq
  <2> QED BY <1>0, <2>1, <2>4 DEF Counts, ListOK, ZombiesOK, EZombies
<1>4. CASE \E index \in DOMAIN zombies, flow \in FlowIDs : Overwrites(index, flow)
  <2>1. PICK index \in DOMAIN zombies, flow \in FlowIDs : Overwrites(index, flow)
    BY <1>4
  <2>2. zombies' \in Seq(EZombies) /\ Len(zombies') = Len(zombies)
    BY <1>0, <1>1, <2>1, ExceptSeq DEF Overwrites
  <2> QED BY <1>0, <2>1, <2>2 DEF Overwrites, ListOK, ZombiesOK, EZombies
<1>5. CASE Leaves
  <2>1. now' \in Nat /\ now <= now' /\ zombies' = zombies
    BY <1>0, <1>5 DEF Leaves
  <2> DEFINE Later == [flowID : FlowIDs, count : Nat, time : 0 .. now']
  <2>2. EZombies \subseteq Later
    BY <1>0, <2>1 DEF EZombies
  <2> HIDE DEF Later
  <2>3. zombies \in Seq(Later)
    BY ONLY <1>0, <2>2, SeqMonotonic
  <2> USE DEF Later
  <2> QED BY <1>0, <2>1, <2>3 DEF ListOK, ZombiesOK
<1> QED BY <1>2, <1>3, <1>4, <1>5, ListSteps

LEMMA ListOKInvariant == Spec => []ListOK
<1>1. Init => ListOK
  BY AlphaAssumption DEF Init, ListOK, ZombiesOK
<1>2. ListOK /\ [Next]_vars => ListOK'
  BY ListOKStep
<1> QED BY <1>1, <1>2, PTL DEF Spec

\* The zombie list keeps within its limit and no zombie carries a time to come.
THEOREM ZombiesOKCorrect == Spec => []ZombiesOK
BY ListOKInvariant, PTL DEF ListOK

-----------------------------------------------------------------------------
(* Stamps *)

\* What a step does to the zombie at a place of the list: nothing, or a change of
\* its record that is stamped with the time.
LEMMA ZombieSteps ==
  ASSUME ListOK, [Next]_vars, NEW i \in DOMAIN zombies
  PROVE  /\ zombies[i] \in EZombies
         /\ \/ zombies'[i] = zombies[i]
            \/ zombies'[i].time = now /\ Untimed(zombies'[i]) # Untimed(zombies[i])
<1>0. /\ zombies \in Seq(EZombies) /\ now \in Nat
      /\ DOMAIN zombies = 1 .. Len(zombies) /\ Len(zombies) \in Nat
      /\ zombies[i] \in EZombies
  <2>1. zombies \in Seq(EZombies) /\ now \in Nat
    BY DEF ListOK, ZombiesOK, EZombies
  <2> QED BY <2>1
<1>1. CASE \E flow \in FlowIDs : Pushes(flow)
  BY <1>0, <1>1 DEF Pushes
<1>2. CASE \E index \in DOMAIN zombies : Counts(index)
  <2>1. PICK index \in DOMAIN zombies : Counts(index)
    BY <1>2
  <2>2. CASE i = index
    <3>1. zombies'[i] = [zombies[i] EXCEPT !.count = @ + 1, !.time = now]
      BY <1>0, <2>1, <2>2 DEF Counts
    <3>2. zombies[i].count \in Nat /\ zombies[i].count + 1 # zombies[i].count
      BY <1>0 DEF EZombies
    <3>3. zombies'[i].count = zombies[i].count + 1 /\ zombies'[i].time = now
      BY <1>0, <3>1 DEF EZombies
    <3> QED BY <1>0, <3>2, <3>3 DEF Untimed
  <2>3. CASE i # index
    BY <1>0, <2>1, <2>3 DEF Counts
  <2> QED BY <2>2, <2>3
<1>3. CASE \E index \in DOMAIN zombies, flow \in FlowIDs : Overwrites(index, flow)
  <2>1. PICK index \in DOMAIN zombies, flow \in FlowIDs : Overwrites(index, flow)
    BY <1>3
  <2>2. CASE i = index
    <3>1. zombies'[i] = EZombie(flow) /\ zombies[i].flowID # flow
      BY <1>0, <2>1, <2>2 DEF Overwrites
    <3>2. zombies'[i].flowID = flow /\ zombies'[i].time = now
      BY <3>1 DEF EZombie
    <3> QED BY <1>0, <3>1, <3>2 DEF Untimed
  <2>3. CASE i # index
    BY <1>0, <2>1, <2>3 DEF Overwrites
  <2> QED BY <2>2, <2>3
<1>4. CASE Leaves
  BY <1>0, <1>4 DEF Leaves
<1> QED BY <1>0, <1>1, <1>2, <1>3, <1>4, ListSteps

\* A stamp moves when, and only when, the record it stands on does.
THEOREM StampFollowsRecordCorrect == Spec => StampFollowsRecord
<1>1. ListOK /\ [Next]_vars =>
        [\A i \in DOMAIN zombies :
           /\ Untimed(zombies'[i]) # Untimed(zombies[i]) => zombies'[i].time = now
           /\ zombies'[i].time # zombies[i].time =>
                Untimed(zombies'[i]) # Untimed(zombies[i])]_vars
  BY ZombieSteps
<1> QED BY <1>1, ListOKInvariant, PTL DEF Spec, StampFollowsRecord

\* The overwrite probability of the zombie at a given place never increases, for
\* the stamp is the absolute time.
LEMMA RarerStep ==
  ASSUME ListOK, [Next]_vars, NEW i \in DOMAIN zombies
  PROVE  POverwriteE(zombies'[i]).num * POverwriteE(zombies[i]).den
           <= POverwriteE(zombies[i]).num * POverwriteE(zombies'[i]).den
<1> DEFINE before == zombies[i].time
           after == zombies'[i].time
<1>1. before \in Nat /\ after \in Nat /\ before <= after
  <2>1. zombies[i].time \in 0 .. now /\ now \in Nat
    BY ZombieSteps DEF EZombies, ListOK
  <2>2. zombies'[i] = zombies[i] \/ zombies'[i].time = now
    BY ZombieSteps
  <2> QED BY <2>1, <2>2
<1>2. POverwriteNum \in Nat /\ POverwriteDen \in Nat
  BY ProbabilityAssumption
<1> HIDE DEF before, after
<1>3. POverwriteDen * (1 + before) <= POverwriteDen * (1 + after)
      /\ POverwriteDen * (1 + before) \in Nat /\ POverwriteDen * (1 + after) \in Nat
  BY <1>1, <1>2, Z3
<1> DEFINE a == POverwriteDen * (1 + before)
           b == POverwriteDen * (1 + after)
<1>4. /\ POverwriteE(zombies'[i]) = [num |-> POverwriteNum, den |-> b]
      /\ POverwriteE(zombies[i]) = [num |-> POverwriteNum, den |-> a]
  BY DEF POverwriteE, before, after
<1> HIDE DEF a, b
<1>5. a \in Nat /\ b \in Nat /\ a <= b
  BY <1>3 DEF a, b
<1>6. POverwriteNum * a <= POverwriteNum * b
  BY <1>2, <1>5, Z3
<1> QED BY <1>4, <1>6

THEOREM OverwritingOnlyGetsRarerCorrect == Spec => OverwritingOnlyGetsRarer
<1>1. ListOK /\ [Next]_vars =>
        [\A i \in DOMAIN zombies :
           LET before == POverwriteE(zombies[i])
               after == POverwriteE(zombies'[i])
           IN  after.num * before.den <= before.num * after.den]_vars
  BY RarerStep
<1> QED BY <1>1, ListOKInvariant, PTL DEF Spec, OverwritingOnlyGetsRarer

-----------------------------------------------------------------------------
(* ESRED implements SRED *)

\* The zombies as StabilizedRed keeps them.
Bar == [i \in DOMAIN zombies |-> Untimed(zombies[i])]

\* What the two discs share is the same seen from either.
LEMMA SameArrival ==
  ASSUME NEW item
  PROVE  /\ Arrives(item) => SRED!Arrives(item)
         /\ NoFilterMatches(item) <=> SRED!NoFilterMatches(item)
BY DEF Arrives, SRED!Arrives, NoFilterMatches, SRED!NoFilterMatches,
       PF_NO_MATCH, SRED!PF_NO_MATCH

LEMMA SameRefuse ==
  ASSUME NEW item, NEW s, NEW reason, Refuse(item, s, reason)
  PROVE  SRED!Refuse(item, s, reason)
BY DEF Refuse, SRED!Refuse, DropBeforeEnqueue, SRED!DropBeforeEnqueue, Plus, SRED!Plus

LEMMA SameStore ==
  ASSUME NEW item, NEW s, Store(item, s)
  PROVE  SRED!Store(item, s)
BY DEF Store, SRED!Store, DropBeforeEnqueue, SRED!DropBeforeEnqueue, Plus, SRED!Plus,
       PacketEnqueued, SRED!PacketEnqueued, Q!HasRoomFor, SRED!Q!HasRoomFor,
       Q!CurrentSize, SRED!Q!CurrentSize, Q!Insert, SRED!Q!Insert, Q!Discard,
       SRED!Q!Discard, Q!Plus, SRED!Q!Plus

LEMMA SameCounted ==
  ASSUME NEW item
  PROVE  /\ Received(stats, item) = SRED!Received(stats, item)
         /\ CountedArrival(item) = SRED!CountedArrival(item)
BY DEF Received, SRED!Received, CountedArrival, SRED!CountedArrival, InvalidFlowID,
       SRED!InvalidFlowID, DropBeforeEnqueue, SRED!DropBeforeEnqueue, Plus, SRED!Plus

LEMMA SameZap ==
  ASSUME NEW q, NEW h
  PROVE  ProbabilityZap(q, h) = SRED!ProbabilityZap(q, h)
BY DEF ProbabilityZap, SRED!ProbabilityZap, calculateProbabilityStabilizedRed,
       SRED!calculateProbabilityStabilizedRed, SredQuarters, SRED!SredQuarters,
       calculateProbabilityZapSimple, SRED!calculateProbabilityZapSimple,
       calculateProbabilityZap, SRED!calculateProbabilityZap, HitScale, SRED!HitScale

LEMMA SameEnds ==
  ASSUME NEW item
  PROVE  /\ WarmUpEnd(item) => SRED!WarmUpEnd(item)
         /\ \A h : SteadyEnd(item, h) => SRED!SteadyEnd(item, h)
<1>1. Q!CurrentSize(queue) = SRED!Q!CurrentSize(queue)
  BY DEF Q!CurrentSize, SRED!Q!CurrentSize
<1>2. \A p : /\ MayBeBelow(p) <=> SRED!MayBeBelow(p)
             /\ MayBeAbove(p) <=> SRED!MayBeAbove(p)
  BY DEF MayBeBelow, SRED!MayBeBelow, MayBeAbove, SRED!MayBeAbove
<1>3. WarmUpEnd(item) => SRED!WarmUpEnd(item)
  BY <1>1, SameRefuse, SameStore, SameCounted DEF WarmUpEnd, SRED!WarmUpEnd
<1>4. ASSUME NEW h, SteadyEnd(item, h)
      PROVE  SRED!SteadyEnd(item, h)
  BY <1>1, <1>2, <1>4, SameRefuse, SameStore, SameCounted, SameZap
     DEF SteadyEnd, SRED!SteadyEnd
<1> QED BY <1>3, <1>4

LEMMA SameDequeue == TakeHead => SRED!TakeHead
BY DEF TakeHead, SRED!TakeHead, Q!RemoveHead, SRED!Q!RemoveHead, PacketDequeued,
       SRED!PacketDequeued, Plus, SRED!Plus, Minus, SRED!Minus, Q!Minus,
       SRED!Q!Minus

\* A zombie pushed, counted or overwritten is the same to StabilizedRed.
LEMMA BarSteps ==
  ASSUME ListOK
  PROVE  /\ Len(Bar) = Len(zombies) /\ DOMAIN Bar = DOMAIN zombies
         /\ \A i \in DOMAIN zombies : Bar[i].flowID = zombies[i].flowID
         /\ \A flow : zombies' = Append(zombies, EZombie(flow)) =>
              Bar' = Append(Bar, SRED!Zombie(flow))
         /\ \A index \in DOMAIN zombies :
              zombies' = [zombies EXCEPT ![index].count = @ + 1, ![index].time = now] =>
                Bar' = [Bar EXCEPT ![index].count = @ + 1]
         /\ \A flow : \A index \in DOMAIN zombies :
              zombies' = [zombies EXCEPT ![index] = EZombie(flow)] =>
                Bar' = [Bar EXCEPT ![index] = SRED!Zombie(flow)]
         /\ zombies' = zombies => Bar' = Bar
<1> DEFINE n == Len(zombies)
<1>1. n \in Nat /\ DOMAIN zombies = 1 .. n /\ zombies \in Seq(EZombies)
      /\ zombies \in [1 .. n -> EZombies]
  <2>1. zombies \in Seq(EZombies)
    BY DEF ListOK, ZombiesOK, EZombies
  <2> QED BY <2>1
<1>2. Bar = [i \in 1 .. n |-> Untimed(zombies[i])]
  BY <1>1 DEF Bar
<1>3. Bar' = [i \in DOMAIN zombies' |-> Untimed(zombies'[i])]
  BY DEF Bar, Untimed
<1>4. \A z : Untimed(z).flowID = z.flowID /\ Untimed(z).count = z.count
  BY DEF Untimed
<1>5. \A flow : Untimed(EZombie(flow)) = SRED!Zombie(flow)
  BY DEF Untimed, EZombie, SRED!Zombie
<1>6. Len(Bar) = n /\ DOMAIN Bar = 1 .. n
  BY <1>1, <1>2
<1> HIDE DEF n
<1>7. ASSUME NEW flow, zombies' = Append(zombies, EZombie(flow))
      PROVE  Bar' = Append(Bar, SRED!Zombie(flow))
  <2>1. /\ DOMAIN zombies' = 1 .. n + 1 /\ zombies'[n + 1] = EZombie(flow)
        /\ \A i \in 1 .. n : zombies'[i] = zombies[i]
    <3>1. zombies \in Seq(EZombies \cup {EZombie(flow)})
      BY <1>1, SeqMonotonic
    <3>2. Len(zombies) = n
      BY DEF n
    <3> QED BY <1>1, <1>7, <3>1, <3>2, AppendProperties
  <2>2. Append(Bar, SRED!Zombie(flow)) =
          [i \in 1 .. n + 1 |-> IF i = n + 1 THEN SRED!Zombie(flow) ELSE Bar[i]]
    BY <1>1, <1>2, <1>6
  <2>3. ASSUME NEW i \in 1 .. n + 1
        PROVE  Untimed(zombies'[i]) = IF i = n + 1 THEN SRED!Zombie(flow) ELSE Bar[i]
    <3>1. i = n + 1 \/ i \in 1 .. n
      BY <1>1
    <3> QED BY <1>1, <1>2, <1>5, <2>1, <3>1
  <2> QED BY <1>3, <2>1, <2>2, <2>3
<1>8. ASSUME NEW index \in DOMAIN zombies,
             zombies' = [zombies EXCEPT ![index].count = @ + 1, ![index].time = now]
      PROVE  Bar' = [Bar EXCEPT ![index].count = @ + 1]
  <2> DEFINE old == zombies[index]
             new == [old EXCEPT !.count = @ + 1, !.time = now]
  <2>1. zombies' = [zombies EXCEPT ![index] = new]
    BY <1>8
  <2>2. Untimed(new) = [Untimed(old) EXCEPT !.count = @ + 1]
    <3>1. old \in EZombies
      BY <1>1
    <3> HIDE DEF old
    <3>2. new.flowID = old.flowID /\ new.count = old.count + 1
      BY <3>1 DEF EZombies
    <3> HIDE DEF new
    <3> QED BY <3>2 DEF Untimed
  <2> HIDE DEF old, new
  <2>3. Bar' = [Bar EXCEPT ![index] = Untimed(new)]
    BY <1>1, <1>2, <1>3, <2>1
  <2>4. Bar[index] = Untimed(old)
    BY <1>1, <1>2 DEF old
  <2> QED BY <2>2, <2>3, <2>4
<1>9. ASSUME NEW index \in DOMAIN zombies, NEW flow,
             zombies' = [zombies EXCEPT ![index] = EZombie(flow)]
      PROVE  Bar' = [Bar EXCEPT ![index] = SRED!Zombie(flow)]
  BY <1>1, <1>2, <1>3, <1>5, <1>9
<1>10. ASSUME zombies' = zombies
       PROVE  Bar' = Bar
  BY <1>3, <1>10 DEF Bar
<1> QED BY <1>1, <1>2, <1>4, <1>6, <1>7, <1>8, <1>9, <1>10 DEF n

\* StabilizedRed's own operations on that list, with the list by its name.
LEMMA SredOnBar ==
  ASSUME NEW item, NEW index
  PROVE  /\ SRED!Remember(item) <=>
              /\ Len(Bar) < MaxZombies
              /\ Bar' = Append(Bar, SRED!Zombie(item.flow))
              /\ UNCHANGED p_hitFreq
         /\ SRED!Hit(item, index) <=>
              /\ Bar[index].flowID = item.flow
              /\ Bar' = [Bar EXCEPT ![index].count = @ + 1]
              /\ p_hitFreq' = SRED!UpdatedHitFreq(p_hitFreq, 1)
         /\ SRED!Miss(item, index) <=>
              /\ Bar[index].flowID # item.flow
              /\ \/ /\ SRED!MayBeBelow(SRED!POverwrite)
                    /\ Bar' = [Bar EXCEPT ![index] = SRED!Zombie(item.flow)]
                 \/ SRED!MayBeAbove(SRED!POverwrite) /\ UNCHANGED Bar
              /\ p_hitFreq' = SRED!UpdatedHitFreq(p_hitFreq, 0)
<1>1. SRED!Remember(item) <=>
        /\ Len(Bar) < MaxZombies
        /\ Bar' = Append(Bar, SRED!Zombie(item.flow))
        /\ UNCHANGED p_hitFreq
  BY DEF SRED!Remember, Bar
<1>2. SRED!Hit(item, index) <=>
        /\ Bar[index].flowID = item.flow
        /\ Bar' = [Bar EXCEPT ![index].count = @ + 1]
        /\ p_hitFreq' = SRED!UpdatedHitFreq(p_hitFreq, 1)
  BY DEF SRED!Hit, Bar
<1>3. SRED!Miss(item, index) <=>
        /\ Bar[index].flowID # item.flow
        /\ \/ /\ SRED!MayBeBelow(SRED!POverwrite)
              /\ Bar' = [Bar EXCEPT ![index] = SRED!Zombie(item.flow)]
           \/ SRED!MayBeAbove(SRED!POverwrite) /\ UNCHANGED Bar
        /\ p_hitFreq' = SRED!UpdatedHitFreq(p_hitFreq, 0)
  BY DEF SRED!Miss, Bar
<1> QED BY <1>1, <1>2, <1>3

LEMMA SredActionsOnBar ==
  ASSUME NEW item
  PROVE  /\ SRED!EnqueueNoMatch(item) <=>
              /\ SRED!Arrives(item) /\ SRED!NoFilterMatches(item)
              /\ SRED!Refuse(item, SRED!Received(stats, item), "NoMatch")
              /\ UNCHANGED <<Bar, p_hitFreq>>
         /\ SRED!EnqueueSteady(item) <=>
              /\ SRED!Arrives(item) /\ ~SRED!NoFilterMatches(item)
              /\ Len(Bar) >= MaxZombies
              /\ \E index \in DOMAIN Bar : SRED!Hit(item, index) \/ SRED!Miss(item, index)
              /\ SRED!SteadyEnd(item, p_hitFreq')
         /\ SRED!Dequeue <=> SRED!TakeHead /\ UNCHANGED Bar
         /\ UNCHANGED (SRED!vars) <=> UNCHANGED <<baseVars, Bar>>
         /\ SRED!Init <=> SRED!BaseInit /\ Bar = <<>>
<1>1. SRED!EnqueueNoMatch(item) <=>
        /\ SRED!Arrives(item) /\ SRED!NoFilterMatches(item)
        /\ SRED!Refuse(item, SRED!Received(stats, item), "NoMatch")
        /\ UNCHANGED <<Bar, p_hitFreq>>
  BY DEF SRED!EnqueueNoMatch, Bar
<1>2. SRED!EnqueueSteady(item) <=>
        /\ SRED!Arrives(item) /\ ~SRED!NoFilterMatches(item)
        /\ Len(Bar) >= MaxZombies
        /\ \E index \in DOMAIN Bar : SRED!Hit(item, index) \/ SRED!Miss(item, index)
        /\ SRED!SteadyEnd(item, p_hitFreq')
  BY DEF SRED!EnqueueSteady, Bar
<1>3. SRED!Dequeue <=> SRED!TakeHead /\ UNCHANGED Bar
  BY DEF SRED!Dequeue, Bar
<1>4. UNCHANGED (SRED!vars) <=> UNCHANGED <<baseVars, Bar>>
  BY DEF SRED!vars, SRED!baseVars, baseVars, Bar
<1>5. SRED!Init <=> SRED!BaseInit /\ Bar = <<>>
  BY DEF SRED!Init, Bar
<1> QED BY <1>1, <1>2, <1>3, <1>4, <1>5

\* When p_overwrite < 1 every step of ESRED is a step of SRED or none at all.
LEMMA StepImplements ==
  ASSUME POverwriteNum < POverwriteDen, ListOK, [Next]_vars
  PROVE  [SRED!Next]_(SRED!vars)
<1>0. /\ Len(Bar) = Len(zombies) /\ DOMAIN Bar = DOMAIN zombies
      /\ \A i \in DOMAIN zombies : Bar[i].flowID = zombies[i].flowID
  BY BarSteps
<1>1. ASSUME NEW hash \in Hashes, NEW size \in Sizes, Enqueue(Packet(hash, size))
      PROVE  SRED!Next
  <2> DEFINE item == Packet(hash, size)
  <2>1. item = SRED!Packet(hash, size)
    BY DEF Packet, SRED!Packet, AsInt32, SRED!AsInt32
  <2> HIDE DEF item
  <2>2. ASSUME EnqueueNoMatch(item)
        PROVE  SRED!EnqueueNoMatch(item)
    <3>1. UNCHANGED <<Bar, p_hitFreq>>
      BY <2>2, BarSteps DEF EnqueueNoMatch
    <3>2. /\ SRED!Arrives(item) /\ SRED!NoFilterMatches(item)
          /\ SRED!Refuse(item, SRED!Received(stats, item), "NoMatch")
      BY <2>2, SameArrival, SameRefuse, SameCounted DEF EnqueueNoMatch
    <3> QED BY <3>1, <3>2, SredActionsOnBar
  <2>3. ASSUME EnqueueWarmUp(item)
        PROVE  SRED!EnqueueWarmUp(item)
    <3>1. SRED!Remember(item)
      BY <1>0, <2>3, BarSteps, SredOnBar DEF EnqueueWarmUp, Remember
    <3>2. SRED!Arrives(item) /\ ~SRED!NoFilterMatches(item) /\ SRED!WarmUpEnd(item)
      BY <2>3, SameArrival, SameEnds DEF EnqueueWarmUp
    <3> QED BY <3>1, <3>2 DEF SRED!EnqueueWarmUp
  <2>4. ASSUME EnqueueSteady(item)
        PROVE  SRED!EnqueueSteady(item)
    <3>1. PICK index \in DOMAIN zombies : Hit(item, index) \/ Miss(item, index)
      BY <2>4 DEF EnqueueSteady
    <3>2. \A h, hit : UpdatedHitFreq(h, hit) = SRED!UpdatedHitFreq(h, hit)
      BY DEF UpdatedHitFreq, SRED!UpdatedHitFreq, HitScale, SRED!HitScale
    <3>3. ASSUME Hit(item, index)
          PROVE  SRED!Hit(item, index)
      BY <1>0, <3>2, <3>3, BarSteps, SredOnBar DEF Hit
    <3>4. ASSUME Miss(item, index)
          PROVE  SRED!Miss(item, index)
      <4>1. SRED!MayBeAbove(SRED!POverwrite)
        BY ProbabilityAssumption DEF SRED!MayBeAbove, SRED!POverwrite
      <4>2. MayBeBelow(POverwriteE(zombies[index])) => SRED!MayBeBelow(SRED!POverwrite)
        BY DEF MayBeBelow, SRED!MayBeBelow, POverwriteE, SRED!POverwrite
      <4>3. Bar[index].flowID # item.flow
            /\ p_hitFreq' = SRED!UpdatedHitFreq(p_hitFreq, 0)
        BY <1>0, <3>2, <3>4 DEF Miss
      <4>4. \/ /\ SRED!MayBeBelow(SRED!POverwrite)
               /\ Bar' = [Bar EXCEPT ![index] = SRED!Zombie(item.flow)]
            \/ SRED!MayBeAbove(SRED!POverwrite) /\ UNCHANGED Bar
        <5>1. ASSUME zombies' = [zombies EXCEPT ![index] = EZombie(item.flow)]
              PROVE  Bar' = [Bar EXCEPT ![index] = SRED!Zombie(item.flow)]
          BY <5>1, BarSteps
        <5>2. ASSUME zombies' = zombies
              PROVE  UNCHANGED Bar
          BY <5>2, BarSteps
        <5>3. \/ /\ MayBeBelow(POverwriteE(zombies[index]))
                 /\ zombies' = [zombies EXCEPT ![index] = EZombie(item.flow)]
              \/ zombies' = zombies
          BY <3>4 DEF Miss
        <5> QED BY <4>1, <4>2, <5>1, <5>2, <5>3
      <4> QED BY ONLY <4>3, <4>4, SredOnBar
    <3>5. \E i \in DOMAIN Bar : SRED!Hit(item, i) \/ SRED!Miss(item, i)
      BY <1>0, <3>1, <3>3, <3>4
    <3>6. /\ SRED!Arrives(item) /\ ~SRED!NoFilterMatches(item)
          /\ Len(zombies) >= MaxZombies /\ SRED!SteadyEnd(item, p_hitFreq')
      BY <2>4, SameArrival, SameEnds DEF EnqueueSteady
    <3> QED BY <1>0, <3>5, <3>6, SredActionsOnBar
  <2>5. SRED!Enqueue(item)
    BY <1>1, <2>2, <2>3, <2>4 DEF Enqueue, item, SRED!Enqueue
  <2> QED BY <2>1, <2>5 DEF SRED!Next
<1>2. CASE Dequeue
  BY <1>2, SameDequeue, BarSteps, SredActionsOnBar DEF Dequeue, SRED!Next
<1>3. CASE Tick
  BY <1>3, BarSteps, SredActionsOnBar DEF Tick
<1>4. CASE UNCHANGED vars
  BY <1>4, BarSteps, SredActionsOnBar DEF vars
<1> QED BY <1>1, <1>2, <1>3, <1>4 DEF Next

LEMMA InitImplements == Init => SRED!Init
<1> SUFFICES ASSUME Init PROVE SRED!Init
  OBVIOUS
<1>1. BaseInit => SRED!BaseInit
  BY DEF BaseInit, SRED!BaseInit, ZeroStats, SRED!ZeroStats, NoItems, SRED!NoItems,
         Reasons, SRED!Reasons, FlowIDs, SRED!FlowIDs, AsInt32, SRED!AsInt32,
         Q!EmptyQueue, SRED!Q!EmptyQueue, Q!NoItems, SRED!Q!NoItems
<1>2. Bar = <<>>
  BY DEF Init, Bar
<1> QED BY <1>1, <1>2, SredActionsOnBar DEF Init

\* ESRED implements SRED with the same parameters, for every configuration in
\* which p_overwrite < 1: whatever it does to a packet, to the list (stamps
\* aside) and to the hit frequency, SRED may do.
THEOREM ImplementsStabilizedRedCorrect ==
  POverwriteNum < POverwriteDen => (Spec => ImplementsStabilizedRed)
<1> SUFFICES ASSUME POverwriteNum < POverwriteDen
             PROVE  Spec => ImplementsStabilizedRed
  OBVIOUS
<1>1. ListOK /\ [Next]_vars => [SRED!Next]_(SRED!vars)
  BY StepImplements
<1> QED BY <1>1, InitImplements, ListOKInvariant, PTL
        DEF Spec, ImplementsStabilizedRed, SRED!Spec
=============================================================================
