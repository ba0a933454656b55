------------------------------- MODULE ESRed -------------------------------
(***************************************************************************)
(* ESRedQueueDisc (src/esred): StabilizedRed whose zombies also carry the  *)
(* time they were last pushed, hit or overwritten, and are overwritten     *)
(* with probability p_overwrite / (1 + that time in seconds).              *)
(***************************************************************************)
EXTENDS SredBase

CONSTANT MaxTime  \* bound: the simulation ends at this second

ASSUME TimeAssumption == MaxTime \in Nat

VARIABLES zombies,  \* the list of [flowID, count, time]
          now       \* Simulator::Now (), in seconds

vars == <<baseVars, zombies, now>>

-----------------------------------------------------------------------------
\* Faulty forms of the definition below, which the properties must refute.
EZombieUnstamped(flow) == [flowID |-> flow, count |-> 0, time |-> 0]

EZombie(flow) == [flowID |-> flow, count |-> 0, time |-> now]

\* Faulty forms of the definition below, which the properties must refute.
RememberOneTooMany(item) ==
  /\ Len(zombies) <= MaxZombies
  /\ zombies' = Append(zombies, EZombie(item.flow))
  /\ UNCHANGED p_hitFreq

\* The list is not full: the packet's flow is pushed on it.
Remember(item) ==
  /\ Len(zombies) < MaxZombies
  /\ zombies' = Append(zombies, EZombie(item.flow))
  /\ UNCHANGED p_hitFreq

\* Faulty forms of the definition below, which the properties must refute.
HitWithoutStamp(item, index) ==
  /\ zombies[index].flowID = item.flow
  /\ zombies' = [zombies EXCEPT ![index].count = @ + 1]
  /\ p_hitFreq' = UpdatedHitFreq(p_hitFreq, 1)

\* The list is full and the zombie drawn carries the packet's flow.
Hit(item, index) ==
  /\ zombies[index].flowID = item.flow
  /\ zombies' = [zombies EXCEPT ![index].count = @ + 1, ![index].time = now]
  /\ p_hitFreq' = UpdatedHitFreq(p_hitFreq, 1)

\* p_overwrite_e: the time is the absolute one, not the age of the zombie.
POverwriteE(zombie) ==
  [num |-> POverwriteNum, den |-> POverwriteDen * (1 + zombie.time)]

\* Faulty forms of the definition below, which the properties must refute.
MissKeepsCount(item, index) ==
  /\ zombies[index].flowID # item.flow
  /\ zombies' = [zombies EXCEPT ![index].flowID = item.flow,
                                ![index].time = now]
  /\ p_hitFreq' = UpdatedHitFreq(p_hitFreq, 0)

\* It carries another flow.
Miss(item, index) ==
  /\ zombies[index].flowID # item.flow
  /\ \/ /\ MayBeBelow(POverwriteE(zombies[index]))
        /\ zombies' = [zombies EXCEPT ![index] = EZombie(item.flow)]
     \/ /\ MayBeAbove(POverwriteE(zombies[index]))
        /\ UNCHANGED zombies
  /\ p_hitFreq' = UpdatedHitFreq(p_hitFreq, 0)

-----------------------------------------------------------------------------
EnqueueNoMatch(item) ==
  /\ Arrives(item)
  /\ NoFilterMatches(item)
  /\ Refuse(item, Received(stats, item), "NoMatch")
  /\ UNCHANGED <<zombies, p_hitFreq>>

EnqueueWarmUp(item) ==
  /\ Arrives(item)
  /\ ~NoFilterMatches(item)
  /\ Remember(item)
  /\ WarmUpEnd(item)

EnqueueSteady(item) ==
  /\ Arrives(item)
  /\ ~NoFilterMatches(item)
  /\ Len(zombies) >= MaxZombies
  /\ \E index \in DOMAIN zombies : Hit(item, index) \/ Miss(item, index)
  /\ SteadyEnd(item, p_hitFreq')

Enqueue(item) ==
  /\ EnqueueNoMatch(item) \/ EnqueueWarmUp(item) \/ EnqueueSteady(item)
  /\ UNCHANGED now

Dequeue == TakeHead /\ UNCHANGED <<zombies, now>>

\* Simulated time goes on between events.
Tick == /\ now < MaxTime
        /\ now' = now + 1
        /\ UNCHANGED <<baseVars, zombies>>

Packet(hash, size) ==
  [uid |-> nArrived + 1, flow |-> AsInt32(hash), size |-> size]

Init == BaseInit /\ zombies = <<>> /\ now = 0

Next == \/ \E hash \in Hashes, size \in Sizes : Enqueue(Packet(hash, size))
        \/ Dequeue
        \/ Tick

Spec == Init /\ [][Next]_vars

-----------------------------------------------------------------------------
(* Properties *)

\* The zombie list keeps its shape; no zombie carries a time to come.
ZombiesOK ==
  /\ zombies \in Seq([flowID : FlowIDs, count : Nat, time : 0 .. now])
  /\ Len(zombies) <= MaxZombies

\* The stamps never go back, so the probability that a given zombie is
\* overwritten only ever decreases during a simulation: hit or not, the longer
\* the simulation has run the longer its zombies live.
OverwritingOnlyGetsRarer ==
  [][\A i \in DOMAIN zombies :
       LET before == POverwriteE(zombies[i])
           after == POverwriteE(zombies'[i])
       IN  after.num * before.den <= before.num * after.den]_vars

\* The record without the stamp: the Zombie of StabilizedRed.
Untimed(zombie) == [flowID |-> zombie.flowID, count |-> zombie.count]

\* ESRED is SRED with a choosier overwrite: when p_overwrite < 1, whatever it
\* does to a packet, to the list (stamps aside) and to the hit frequency, SRED
\* with the same parameters may do.
SRED == INSTANCE StabilizedRed WITH
          zombies <- [i \in DOMAIN zombies |-> Untimed(zombies[i])]

ImplementsStabilizedRed == SRED!Spec

\* A zombie's stamp is the second of the last change of its own record: every
\* hit and every overwrite refreshes it, and nothing else moves it.
StampFollowsRecord ==
  [][\A i \in DOMAIN zombies :
       /\ Untimed(zombies'[i]) # Untimed(zombies[i]) => zombies'[i].time = now
       /\ zombies'[i].time # zombies[i].time =>
            Untimed(zombies'[i]) # Untimed(zombies[i])]_vars

=============================================================================
