-------------------------- MODULE LossyQueueProofs --------------------------
(***************************************************************************)
(* The disc implements LossyQueue, for every configuration: whatever the   *)
(* filters, the zombie list and the draws do, a packet is accepted or      *)
(* rejected on arrival and the accepted ones leave once, in order.         *)
(***************************************************************************)
EXTENDS StabilizedRedProofs, SequenceTheorems

\* The identities of the packets held, which LossyQueue!pending stands for, form a
\* sequence as long as the queue.
LEMMA UidsType ==
  ASSUME NEW S, \A e \in S : e.uid \in Nat, NEW items \in Seq(S)
  PROVE  Uids(items) \in Seq(Nat) /\ Len(Uids(items)) = Len(items)
<1>1. \A i \in 1 .. Len(items) : items[i].uid \in Nat
  OBVIOUS
<1>2. Uids(items) = [i \in 1 .. Len(items) |-> items[i].uid]
  BY DEF Uids
<1> QED BY <1>1, <1>2

\* Storing a packet appends its identity.
LEMMA UidsAppend ==
  ASSUME NEW S, \A e \in S : e.uid \in Nat, NEW items \in Seq(S), NEW item \in S
  PROVE  Uids(Append(items, item)) = Append(Uids(items), item.uid)
<1> DEFINE n == Len(items)
           before == Append(Uids(items), item.uid)
           after == Uids(Append(items, item))
<1>1. n \in Nat /\ item.uid \in Nat
  OBVIOUS
<1>2. /\ Append(items, item) \in Seq(S)
      /\ Len(Append(items, item)) = n + 1
      /\ \A i \in 1 .. n : Append(items, item)[i] = items[i]
      /\ Append(items, item)[n + 1] = item
  OBVIOUS
<1>3. /\ Uids(items) \in Seq(Nat) /\ Len(Uids(items)) = n
      /\ after \in Seq(Nat) /\ Len(after) = n + 1
  BY <1>2, UidsType
<1>4. /\ before \in Seq(Nat) /\ Len(before) = n + 1
      /\ \A i \in 1 .. n : before[i] = Uids(items)[i]
      /\ before[n + 1] = item.uid
  BY <1>1, <1>3
<1>5. /\ \A i \in 1 .. n : after[i] = items[i].uid
      /\ after[n + 1] = item.uid
  BY <1>1, <1>2 DEF Uids
<1>6. \A i \in 1 .. n : Uids(items)[i] = items[i].uid
  BY DEF Uids
<1> HIDE DEF before, after, n
<1>7. \A i \in 1 .. n + 1 : after[i] = before[i]
  BY <1>1, <1>4, <1>5, <1>6
<1>8. after = before
  BY <1>3, <1>4, <1>7, SeqEqual
<1> QED BY <1>8 DEF after, before

\* Taking the head removes the oldest identity.
LEMMA UidsTail ==
  ASSUME NEW S, \A e \in S : e.uid \in Nat, NEW items \in Seq(S), items # <<>>
  PROVE  /\ Uids(items) # <<>>
         /\ Head(items).uid = Head(Uids(items))
         /\ Uids(Tail(items)) = Tail(Uids(items))
<1> DEFINE n == Len(items)
           before == Tail(Uids(items))
           after == Uids(Tail(items))
<1>1. n \in Nat /\ n > 0 /\ DOMAIN items = 1 .. n
  OBVIOUS
<1>2. /\ Tail(items) \in Seq(S) /\ Len(Tail(items)) = n - 1
      /\ \A i \in 1 .. n - 1 : Tail(items)[i] = items[i + 1]
  OBVIOUS
<1>3. /\ Uids(items) \in Seq(Nat) /\ Len(Uids(items)) = n
      /\ after \in Seq(Nat) /\ Len(after) = n - 1
  BY <1>2, UidsType
<1>4. Uids(items) # <<>>
  BY <1>1, <1>3
<1>5. Head(items).uid = Head(Uids(items))
  BY <1>1, <1>3 DEF Uids
<1>6. /\ before \in Seq(Nat) /\ Len(before) = n - 1
      /\ \A i \in 1 .. n - 1 : before[i] = Uids(items)[i + 1]
  BY <1>1, <1>3, <1>4
<1>7. \A i \in 1 .. n - 1 : after[i] = items[i + 1].uid
  BY <1>1, <1>2 DEF Uids
<1>8. \A i \in 1 .. n - 1 : Uids(items)[i + 1] = items[i + 1].uid
  BY <1>1 DEF Uids
<1> HIDE DEF before, after, n
<1>9. \A i \in 1 .. n - 1 : after[i] = before[i]
  BY <1>6, <1>7, <1>8
<1>10. after = before
  BY <1>3, <1>6, <1>9, SeqEqual
<1> QED BY <1>4, <1>5, <1>10 DEF after, before

LEMMA UidsAreNumbers == \A item \in Items : item.uid \in Nat
BY SizeAssumption DEF Items

\* Whatever path Enqueue takes, the packet is put at the tail or is lost.
LEMMA EnqueueStoresOrLoses ==
  ASSUME TypeOK, NEW hash \in Hashes, NEW size \in Sizes,
         NEW item, item = Packet(hash, size), Enqueue(item)
  PROVE  /\ item \in Items /\ item.uid = nArrived + 1 /\ nArrived' = nArrived + 1
         /\ UNCHANGED delivered
         /\ \/ queue'.items = Append(queue.items, item) /\ UNCHANGED lost
            \/ queue'.items = queue.items /\ lost' = lost \cup {item.uid}
<1>1. Arrives(item)
  BY DEF Enqueue, EnqueueNoMatch, EnqueueWarmUp, EnqueueSteady
<1>2. item \in Items /\ item.uid = nArrived + 1 /\ nArrived' = nArrived + 1
  BY <1>1, ArrivesType DEF Arrives
<1>3. \E s, r : Store(item, s) \/ Refuse(item, s, r)
  BY DEF Enqueue, EnqueueNoMatch, EnqueueWarmUp, EnqueueSteady, WarmUpEnd, SteadyEnd
<1>4. /\ UNCHANGED delivered
      /\ \/ queue'.items = Append(queue.items, item) /\ UNCHANGED lost
         \/ queue'.items = queue.items /\ lost' = lost \cup {item.uid}
  BY <1>3 DEF Store, Refuse, Q!Insert, Q!Discard, TypeOK, Queues
<1> QED BY <1>2, <1>4

\* Each step is an Accept, a Reject, a Deliver or a stutter of LossyQueue.
LEMMA StepIsLossy ==
  ASSUME IInv, [Next]_vars
  PROVE  [Lossy!Next]_Lossy!lqVars
<1>1. TypeOK /\ queue.items \in Seq(Items)
  BY DEF IInv, TypeOK, Queues
<1>2. ASSUME NEW hash \in Hashes, NEW size \in Sizes,
             Enqueue(Packet(hash, size))
      PROVE  Lossy!Accept \/ Lossy!Reject
  <2>1. PICK item : item = Packet(hash, size)
    OBVIOUS
  <2>2. /\ item \in Items /\ item.uid = nArrived + 1 /\ nArrived' = nArrived + 1
        /\ UNCHANGED delivered
        /\ \/ queue'.items = Append(queue.items, item) /\ UNCHANGED lost
           \/ queue'.items = queue.items /\ lost' = lost \cup {item.uid}
    BY <1>1, <1>2, <2>1, EnqueueStoresOrLoses
  <2>3. CASE queue'.items = Append(queue.items, item) /\ UNCHANGED lost
    <3>1. Uids(queue'.items) = Append(Uids(queue.items), nArrived + 1)
      BY <1>1, <2>2, <2>3, UidsAreNumbers, UidsAppend
    <3> QED BY <2>2, <2>3, <3>1 DEF Lossy!Accept
  <2>4. CASE queue'.items = queue.items /\ lost' = lost \cup {item.uid}
    BY <2>2, <2>4 DEF Lossy!Reject
  <2> QED BY <2>2, <2>3, <2>4
<1>3. CASE Dequeue
  <2>1. /\ queue.items # <<>> /\ queue'.items = Tail(queue.items)
        /\ delivered' = Append(delivered, Head(queue.items).uid)
        /\ UNCHANGED <<nArrived, lost>>
    BY <1>1, <1>3 DEF Dequeue, TakeHead, Q!RemoveHead, TypeOK, Queues
  <2>2. /\ Uids(queue.items) # <<>>
        /\ Head(queue.items).uid = Head(Uids(queue.items))
        /\ Uids(queue'.items) = Tail(Uids(queue.items))
    BY <1>1, <2>1, UidsAreNumbers, UidsTail
  <2>3. Lossy!Deliver
    BY <2>1, <2>2 DEF Lossy!Deliver
  <2> QED BY <2>3 DEF Lossy!Next
<1>4. CASE UNCHANGED vars
  BY <1>4 DEF vars, baseVars, Lossy!lqVars
<1> QED BY <1>2, <1>3, <1>4 DEF Next, Lossy!Next

\* StabilizedRedQueueDisc implements the lossy queue it promises to be.
THEOREM ImplementsLossyQueueCorrect == Spec => ImplementsLossyQueue
<1>1. Init => Lossy!Init
  <2> SUFFICES ASSUME Init PROVE Lossy!Init
    OBVIOUS
  <2>1. queue.items = <<>>
    BY DEF Init, BaseInit, Q!EmptyQueue
  <2>2. Uids(queue.items) = <<>>
    BY <2>1 DEF Uids
  <2> QED BY <2>2 DEF Init, BaseInit, Lossy!Init
<1>2. IInv /\ [Next]_vars => [Lossy!Next]_Lossy!lqVars
  BY StepIsLossy
<1> QED BY <1>1, <1>2, Invariance, PTL
        DEF Spec, ImplementsLossyQueue, Lossy!Spec

=============================================================================
