------------------------- MODULE TokenBucketProofs -------------------------
(***************************************************************************)
(* The token bucket keeps its rates up to a rounding of half a byte for    *)
(* each packet, for every bucket, every rate and clock, every number of    *)
(* queues and whatever the child drops: what was released beyond the rate  *)
(* and what the bucket still holds are never more than a bucket.           *)
(* Packets reach the device in order; and whatever is peeked, dropped in a *)
(* peek or requeued, each of them is in one place and counted once.        *)
(***************************************************************************)
EXTENDS TokenBucketDisc, SequenceTheorems, FiniteSetTheorems, TLAPS

USE DEF vars, childVars, bucketVars, rateVars

-----------------------------------------------------------------------------
LEMMA NoneIsNoPacket == None \notin Packets
BY DEF None, Packets

\* Whatever number of packets the child drops, what it peeks is a packet and
\* what is behind it a sequence of packets.
LEMMA PeekType ==
  ASSUME TypeOK, NEW k \in 0 .. Len(items), MayDrop(k)
  PROVE  /\ Peeked(k) \in Packets /\ Peeked(k) # None
         /\ Behind(k) \in Seq(Packets)
<1>1. Len(items) \in Nat /\ \A i \in 1 .. Len(items) : items[i] \in Packets
  BY DEF TypeOK
<1>2. Peeked(k) \in Packets /\ Peeked(k) # None
  <2>1. kept = None => k + 1 \in 1 .. Len(items)
    BY <1>1 DEF MayDrop
  <2> QED BY <1>1, <2>1, NoneIsNoPacket DEF Peeked, TypeOK
<1>3. SubSeq(items, k + 2, Len(items)) \in Seq(Packets)
  <2>1. \A i \in k + 2 .. Len(items) : items[i] \in Packets
    BY <1>1
  <2> QED BY <1>1, <2>1, SubSeqProperties
<1> QED BY <1>2, <1>3 DEF Behind, TypeOK

\* Rates in whole bytes, and division: the quotient is the last one that fits.
LEMMA ByteRates ==
  /\ BytesPerSecond(Rate) \in Nat /\ BytesPerSecond(PeakRate) \in Nat
  /\ Second \in Nat \ {0} /\ Burst \in Nat /\ Mtu \in Nat
BY TokenBucketAssumption DEF BytesPerSecond

LEMMA Quotient ==
  ASSUME NEW a \in Nat, NEW d \in Nat \ {0}
  PROVE  a \div d \in Nat /\ d * (a \div d) <= a /\ a < d * (a \div d) + d
OBVIOUS

\* What a number of ticks brings is at most half a token too much, and nothing
\* when no tick has passed.
LEMMA CreditBound ==
  ASSUME NEW rate, BytesPerSecond(rate) \in Nat, NEW ticks \in Nat
  PROVE  /\ Credit(rate, ticks) \in Nat
         /\ 2 * ticks * BytesPerSecond(rate) \in Nat
         /\ 2 * Second * Credit(rate, ticks)
              <= 2 * ticks * BytesPerSecond(rate) + Second
<1>1. PICK x : x = 2 * ticks * BytesPerSecond(rate)
  OBVIOUS
<1>2. x \in Nat
  BY <1>1
<1>3. x + Second \in Nat /\ 2 * Second \in Nat \ {0}
  BY <1>2, ByteRates
<1> QED BY <1>1, <1>2, <1>3, Quotient DEF Credit

LEMMA ExcessType ==
  ASSUME NEW size \in Nat \ {0}
  PROVE  Excess(size) \in Nat
<1>1. \A a, b \in Nat : a * b \in Nat
  OBVIOUS
<1>2. 2 * size - 1 \in Nat
  OBVIOUS
<1> QED BY <1>1, <1>2, ByteRates DEF Excess

\* A packet that conforms leaves its size less in each bucket, and not less than
\* nothing.
LEMMA ConsumeTokens ==
  ASSUME TypeOK, NEW size \in Sizes, Conforms(size), Consume(size)
  PROVE  /\ btokens' = BTokens - size /\ btokens' \in 0 .. Burst
         /\ PeakRate > 0 => ptokens' = PTokens - size
         /\ ptokens' \in 0 .. Mtu /\ elapsed' = 0 /\ size \in Nat \ {0}
<1>1. size \in Nat \ {0} /\ elapsed \in Nat
  BY TokenBucketAssumption DEF TypeOK
<1>2. Credit(Rate, elapsed) \in Nat /\ Credit(PeakRate, elapsed) \in Nat
  BY <1>1, ByteRates, CreditBound
<1>3. /\ BTokens \in Int /\ BTokens <= Burst
      /\ PTokens \in Int /\ PTokens <= Mtu
  BY <1>2, ByteRates DEF BTokens, PTokens, Least, TypeOK
<1> HIDE DEF BTokens, PTokens
<1> QED BY <1>1, <1>3, ByteRates DEF Conforms, Consume, Btoks, Ptoks

-----------------------------------------------------------------------------
\* A run of the disc changes no token unless it takes a packet out.
StillBuckets == UNCHANGED <<bucketVars, rateVars, nArrived>>

LEMMA RunIterations ==
  ASSUME TypeOK, RunStep
  PROVE  \/ /\ StillBuckets
            /\ items' \in Seq(Packets) /\ nPackets' \in Int
            /\ kept' \in Packets \cup {None} /\ requeued' \in Packets \cup {None}
         \/ \E size \in Sizes :
              /\ Conforms(size) /\ Consume(size)
              /\ excess' = excess + Excess(size) /\ peakExcess' = peakExcess + Excess(size)
              /\ items' \in Seq(Packets) /\ nPackets' \in Int
              /\ kept' \in Packets \cup {None} /\ requeued' \in Packets \cup {None}
              /\ UNCHANGED nArrived
<1>1. CASE RunBlocked
  BY <1>1 DEF RunBlocked, TypeOK, StillBuckets
<1>2. CASE RunRequeued
  BY <1>2 DEF RunRequeued, TypeOK, StillBuckets
<1>4. CASE RunNothing
  BY <1>4 DEF RunNothing, TypeOK, StillBuckets
<1>5. ASSUME NEW k \in 0 .. Len(items), RunShort(k)
      PROVE  /\ StillBuckets
             /\ items' \in Seq(Packets) /\ nPackets' \in Int
             /\ kept' \in Packets \cup {None} /\ requeued' \in Packets \cup {None}
  <2>1. k \in Int /\ MayDrop(k)
    BY <1>5 DEF TypeOK, RunShort, PeekFrom
  <2> QED BY <1>5, <2>1, PeekType DEF RunShort, DropAfterDequeue, TypeOK, StillBuckets
<1>6. ASSUME NEW k \in 0 .. Len(items), RunDequeue(k)
      PROVE  \E size \in Sizes :
               /\ Conforms(size) /\ Consume(size)
               /\ excess' = excess + Excess(size) /\ peakExcess' = peakExcess + Excess(size)
               /\ items' \in Seq(Packets) /\ nPackets' \in Int
               /\ kept' \in Packets \cup {None} /\ requeued' \in Packets \cup {None}
               /\ UNCHANGED nArrived
  <2> DEFINE item == [Peeked(k) EXCEPT !.headers = @ + 1]
  <2>1. Peeked(k) \in Packets /\ Behind(k) \in Seq(Packets)
    BY <1>6, PeekType DEF RunDequeue, PeekFrom
  <2>2. item \in Packets /\ item.size \in Sizes /\ k \in Int
    <3>1. Peeked(k).headers + 1 \in Nat
      BY <2>1 DEF Packets
    <3>2. item \in Packets
      BY <2>1, <3>1 DEF Packets
    <3>3. item.size \in Sizes
      BY <3>2 DEF Packets
    <3>4. k \in Int
      BY DEF TypeOK
    <3> HIDE DEF item
    <3> QED BY <3>2, <3>3, <3>4
  <2>3. /\ Conforms(item.size) /\ Consume(item.size)
        /\ excess' = excess + Excess(item.size)
        /\ peakExcess' = peakExcess + Excess(item.size)
        /\ items' = Behind(k) /\ kept' = None /\ nArrived' = nArrived
        /\ nPackets' = nPackets - k - 1
        /\ requeued' = item \/ requeued' = requeued
    BY <1>6 DEF RunDequeue, DropAfterDequeue
  <2> HIDE DEF item
  <2>4. items' \in Seq(Packets) /\ nPackets' \in Int
        /\ kept' \in Packets \cup {None} /\ requeued' \in Packets \cup {None}
    BY <2>1, <2>2, <2>3 DEF TypeOK
  <2> QED BY <2>2, <2>3, <2>4
<1> QED BY <1>1, <1>2, <1>4, <1>5, <1>6 DEF RunStep

LEMMA TypeOKStep ==
  ASSUME TypeOK, [Next]_vars
  PROVE  TypeOK'
<1>1. CASE \E size \in Sizes, txq \in Queues : Send(size, txq)
  <2>1. PICK size \in Sizes, txq \in Queues : Send(size, txq)
    BY <1>1
  <2> DEFINE item == [uid |-> nArrived + 1, size |-> size, txq |-> txq, headers |-> 0]
  <2>2. nArrived \in 0 .. MaxArrivals /\ nArrived < MaxArrivals
    BY <2>1 DEF Send, TypeOK
  <2>3. item \in Packets /\ nArrived + 1 \in 0 .. MaxArrivals
    BY <2>2, TokenBucketAssumption DEF Packets
  <2>4. /\ nArrived' = nArrived + 1
        /\ \/ items' = Append(items, item) /\ nPackets' = nPackets + 1
           \/ items' = items /\ nPackets' = nPackets
        /\ UNCHANGED <<kept, requeued, bucketVars, rateVars>>
    BY <2>1 DEF Send
  <2> HIDE DEF item
  <2>5. items' \in Seq(Packets) /\ nPackets' \in Int
    <3>1. items \in Seq(Packets) /\ nPackets \in Int
      BY DEF TypeOK
    <3>2. Append(items, item) \in Seq(Packets)
      BY ONLY <2>3, <3>1
    <3>3. nPackets + 1 \in Int
      BY ONLY <3>1
    <3> QED BY ONLY <2>4, <3>1, <3>2, <3>3
  <2> QED BY <2>3, <2>4, <2>5 DEF TypeOK
<1>2. CASE RunStep
  <2>1. CASE /\ StillBuckets
             /\ items' \in Seq(Packets) /\ nPackets' \in Int
             /\ kept' \in Packets \cup {None} /\ requeued' \in Packets \cup {None}
    BY <2>1 DEF TypeOK, StillBuckets
  <2>2. ASSUME NEW size \in Sizes, Conforms(size), Consume(size),
               excess' = excess + Excess(size), peakExcess' = peakExcess + Excess(size),
               items' \in Seq(Packets), nPackets' \in Int,
               kept' \in Packets \cup {None}, requeued' \in Packets \cup {None},
               UNCHANGED nArrived
        PROVE  TypeOK'
    <3>1. /\ btokens' \in 0 .. Burst /\ ptokens' \in 0 .. Mtu /\ elapsed' = 0
          /\ size \in Nat \ {0}
      BY <2>2, ConsumeTokens
    <3>2. 0 \in 0 .. Horizon
      BY TokenBucketAssumption
    <3>3. excess' \in Nat /\ peakExcess' \in Nat
      <4>1. excess \in Nat /\ peakExcess \in Nat /\ Excess(size) \in Nat
        BY <3>1, ExcessType DEF TypeOK
      <4> QED BY ONLY <2>2, <4>1
    <3>4. nArrived' \in 0 .. MaxArrivals
      BY <2>2 DEF TypeOK
    <3> QED BY ONLY <2>2, <3>1, <3>2, <3>3, <3>4 DEF TypeOK
  <2> QED BY <1>2, <2>1, <2>2, RunIterations
<1>3. CASE \E q \in Queues : DeviceDequeue(q) \/ WakeCallback(q)
  BY <1>3 DEF DeviceDequeue, WakeCallback, TypeOK
<1>4. CASE Watchdog
  BY <1>4 DEF Watchdog, TypeOK
<1>5. CASE TimePasses
  <2>1. /\ elapsed \in 0 .. Horizon /\ excess \in Nat /\ peakExcess \in Nat
        /\ Horizon \in Nat
    BY TokenBucketAssumption DEF TypeOK
  <2>2. \A e, r \in Nat : Greatest(e - 2 * r, 0) \in Nat
    BY ONLY DEF Greatest
  <2>3. elapsed' = Least(elapsed + 1, Horizon)
        /\ excess' = Greatest(excess - 2 * BytesPerSecond(Rate), 0)
        /\ peakExcess' = Greatest(peakExcess - 2 * BytesPerSecond(PeakRate), 0)
    BY <1>5 DEF TimePasses
  <2>4. excess' \in Nat /\ peakExcess' \in Nat
    BY ONLY <2>1, <2>2, <2>3, ByteRates
  <2>5. elapsed' \in 0 .. Horizon
    BY ONLY <2>1, <2>3 DEF Least
  <2> QED BY <1>5, <2>4, <2>5 DEF TimePasses, TypeOK
<1>6. CASE UNCHANGED vars
  BY <1>6 DEF TypeOK
<1> QED BY <1>1, <1>2, <1>3, <1>4, <1>5, <1>6 DEF Next

\* Packets stay packets, and each bucket stays between empty and full.
THEOREM TypeCorrect == Spec => []TypeOK
<1>1. Init => TypeOK
  <2>1. <<>> \in Seq(Packets) /\ 0 \in 0 .. Horizon /\ 0 \in 0 .. MaxArrivals
        /\ Burst \in 0 .. Burst /\ Mtu \in 0 .. Mtu
    BY TokenBucketAssumption
  <2> QED BY <2>1, TokenBucketAssumption DEF Init, TypeOK
<1>2. TypeOK /\ [Next]_vars => TypeOK'
  BY TypeOKStep
<1> QED BY <1>1, <1>2, PTL DEF Spec
-----------------------------------------------------------------------------
\* The tokens a bucket would hold if none were rounded, in units of one in
\* 2 * Second.
Exact(rate, size, tokens, ticks) ==
  Least(2 * Second * size, 2 * Second * tokens + 2 * ticks * BytesPerSecond(rate))

\* What was released too much is missing in the bucket.
BucketInv ==
  /\ excess + Exact(Rate, Burst, btokens, elapsed) <= 2 * Second * Burst
  /\ PeakRate > 0 =>
       peakExcess + Exact(PeakRate, Mtu, ptokens, elapsed) <= 2 * Second * Mtu

\* A tick brings what the rate allows, or nothing.
LEMMA TokensOfATick ==
  ASSUME NEW rate, BytesPerSecond(rate) \in Nat, NEW size \in Nat,
         NEW tokens \in Nat, NEW ticks \in Nat, NEW later \in Nat, later <= ticks + 1
  PROVE  /\ Exact(rate, size, tokens, ticks) \in Nat
         /\ Exact(rate, size, tokens, later) \in Nat
         /\ Exact(rate, size, tokens, later)
              <= Exact(rate, size, tokens, ticks) + 2 * BytesPerSecond(rate)
         /\ Exact(rate, size, tokens, later) <= 2 * Second * size
<1>1. PICK r \in Nat : r = BytesPerSecond(rate)
  OBVIOUS
<1>2. PICK x, y, full, have :
        /\ x = 2 * ticks * r /\ y = 2 * later * r
        /\ full = 2 * Second * size /\ have = 2 * Second * tokens
  OBVIOUS
<1>3. x \in Nat /\ y \in Nat /\ full \in Nat /\ have \in Nat
  BY <1>2, ByteRates
<1>4. y <= x + 2 * r
  <2>1. later * r <= (ticks + 1) * r
    <3>1. \A a, b, c \in Nat : a <= b => a * c <= b * c
      OBVIOUS
    <3> QED BY <3>1
  <2>2. (ticks + 1) * r = ticks * r + r
    OBVIOUS
  <2>3. x = 2 * (ticks * r) /\ y = 2 * (later * r)
    BY <1>2
  <2>4. ticks * r \in Nat /\ later * r \in Nat
    OBVIOUS
  <2> QED BY <2>1, <2>2, <2>3, <2>4
<1>5. /\ Exact(rate, size, tokens, ticks) = Least(full, have + x)
      /\ Exact(rate, size, tokens, later) = Least(full, have + y)
  BY <1>1, <1>2 DEF Exact
<1> QED BY <1>1, <1>2, <1>3, <1>4, <1>5 DEF Least

\* A release takes the packet, less at most half a token, from what a bucket
\* holds.
LEMMA TokensOfARelease ==
  ASSUME NEW rate, BytesPerSecond(rate) \in Nat, NEW size \in Nat,
         NEW tokens \in Nat, NEW ticks \in Nat, NEW bytes \in Nat \ {0},
         NEW left \in 0 .. size,
         left = Least(size, tokens + Credit(rate, ticks)) - bytes
  PROVE  /\ Exact(rate, size, left, 0) \in Nat
         /\ Exact(rate, size, left, 0) + Excess(bytes)
              <= Exact(rate, size, tokens, ticks)
<1>1. PICK c, x : c = Credit(rate, ticks) /\ x = 2 * ticks * BytesPerSecond(rate)
  OBVIOUS
<1>2. c \in Nat /\ x \in Nat /\ 2 * Second * c <= x + Second
  BY <1>1, CreditBound
<1>3. PICK full, have, gain, cost, rest :
        /\ full = 2 * Second * size /\ have = 2 * Second * tokens
        /\ gain = 2 * Second * c /\ cost = 2 * Second * bytes
        /\ rest = 2 * Second * left
  OBVIOUS
<1>4. /\ full \in Nat /\ have \in Nat /\ gain \in Nat /\ cost \in Nat /\ rest \in Nat
      /\ Second \in Nat \ {0}
  BY <1>2, <1>3, ByteRates
<1>5. rest <= full /\ rest <= full - cost /\ rest <= have + gain - cost
  <2>1. left <= size /\ left <= size - bytes /\ left <= tokens + c - bytes
    BY <1>1, <1>2 DEF Least
  <2>2. \A a, b \in Int : a <= b => 2 * Second * a <= 2 * Second * b
    BY ByteRates
  <2>3. /\ 2 * Second * (size - bytes) = full - cost
        /\ 2 * Second * (tokens + c - bytes) = have + gain - cost
    BY <1>2, <1>3, ByteRates
  <2>4. /\ 2 * Second * left <= 2 * Second * size
        /\ 2 * Second * left <= 2 * Second * (size - bytes)
        /\ 2 * Second * left <= 2 * Second * (tokens + c - bytes)
    BY <1>2, <2>1, <2>2
  <2> QED BY <1>3, <2>3, <2>4
<1>6. Excess(bytes) = cost - Second
  BY <1>3, ByteRates DEF Excess
<1>7. Exact(rate, size, left, 0) = rest
  <2>1. 2 * 0 * BytesPerSecond(rate) = 0
    OBVIOUS
  <2> QED BY <1>3, <1>4, <1>5, <2>1 DEF Exact, Least
<1>8. Exact(rate, size, tokens, ticks) = Least(full, have + x)
  BY <1>1, <1>3 DEF Exact
<1>9. gain <= x + Second
  BY <1>2, <1>3
<1> HIDE DEF Exact
<1> QED BY <1>2, <1>4, <1>5, <1>6, <1>7, <1>8, <1>9 DEF Least

LEMMA BucketInvStep ==
  ASSUME TypeOK, BucketInv, [Next]_vars
  PROVE  BucketInv'
<1>0. /\ elapsed \in Nat /\ btokens \in Nat /\ ptokens \in Nat
      /\ excess \in Nat /\ peakExcess \in Nat
  BY TokenBucketAssumption DEF TypeOK
<1>a. ASSUME StillBuckets \/ UNCHANGED <<bucketVars, rateVars>>
      PROVE  BucketInv'
  BY <1>a DEF BucketInv, StillBuckets
<1>1. CASE \E size \in Sizes, txq \in Queues : Send(size, txq)
  BY <1>1, <1>a DEF Send
<1>2. CASE RunStep
  <2>1. ASSUME NEW size \in Sizes, Conforms(size), Consume(size),
               excess' = excess + Excess(size), peakExcess' = peakExcess + Excess(size)
        PROVE  BucketInv'
    <3>1. /\ btokens' = BTokens - size /\ btokens' \in 0 .. Burst
          /\ PeakRate > 0 => ptokens' = PTokens - size
          /\ ptokens' \in 0 .. Mtu /\ elapsed' = 0 /\ size \in Nat \ {0}
      BY <2>1, ConsumeTokens
    <3>2. /\ Exact(Rate, Burst, btokens', 0) \in Nat
          /\ Exact(Rate, Burst, btokens', 0) + Excess(size)
               <= Exact(Rate, Burst, btokens, elapsed)
      BY <1>0, <3>1, ByteRates, TokensOfARelease DEF BTokens
    <3>3. PeakRate > 0 =>
            /\ Exact(PeakRate, Mtu, ptokens', 0) \in Nat
            /\ Exact(PeakRate, Mtu, ptokens', 0) + Excess(size)
                 <= Exact(PeakRate, Mtu, ptokens, elapsed)
      BY <1>0, <3>1, ByteRates, TokensOfARelease DEF PTokens
    <3>4. /\ Exact(Rate, Burst, btokens, elapsed) \in Nat
          /\ Exact(PeakRate, Mtu, ptokens, elapsed) \in Nat
          /\ Excess(size) \in Nat
      <4>1. elapsed <= elapsed + 1
        BY <1>0
      <4> QED BY <1>0, <3>1, <4>1, ByteRates, ExcessType, TokensOfATick
    <3>5. PICK full, peakFull : full = 2 * Second * Burst /\ peakFull = 2 * Second * Mtu
      OBVIOUS
    <3>6. full \in Nat /\ peakFull \in Nat
      BY <3>5, ByteRates
    <3>7. excess' + Exact(Rate, Burst, btokens', 0) <= full
      BY <1>0, <2>1, <3>2, <3>4, <3>5, <3>6 DEF BucketInv
    <3>8. PeakRate > 0 => peakExcess' + Exact(PeakRate, Mtu, ptokens', 0) <= peakFull
      BY <1>0, <2>1, <3>3, <3>4, <3>5, <3>6 DEF BucketInv
    <3> QED BY <3>1, <3>5, <3>7, <3>8 DEF BucketInv
  <2> QED BY <1>2, <1>a, <2>1, RunIterations
<1>3. CASE \E q \in Queues : DeviceDequeue(q) \/ WakeCallback(q)
  BY <1>3, <1>a DEF DeviceDequeue, WakeCallback
<1>4. CASE Watchdog
  BY <1>4, <1>a DEF Watchdog
<1>5. CASE TimePasses
  <2>1. elapsed' \in Nat /\ elapsed' <= elapsed + 1 /\ UNCHANGED <<btokens, ptokens>>
    BY <1>0, <1>5, TokenBucketAssumption DEF TimePasses, Least
  <2>2. PICK b, c, p, q :
          /\ b = Exact(Rate, Burst, btokens, elapsed)
          /\ c = Exact(Rate, Burst, btokens, elapsed')
          /\ p = Exact(PeakRate, Mtu, ptokens, elapsed)
          /\ q = Exact(PeakRate, Mtu, ptokens, elapsed')
    OBVIOUS
  <2>3. PICK r, s, full, peakFull :
          /\ r = 2 * BytesPerSecond(Rate) /\ s = 2 * BytesPerSecond(PeakRate)
          /\ full = 2 * Second * Burst /\ peakFull = 2 * Second * Mtu
    OBVIOUS
  <2>4. r \in Nat /\ s \in Nat /\ full \in Nat /\ peakFull \in Nat
    BY <2>3, ByteRates
  <2>5. b \in Nat /\ c \in Nat /\ c <= b + r /\ c <= full
    BY <1>0, <2>1, <2>2, <2>3, ByteRates, TokensOfATick
  <2>6. p \in Nat /\ q \in Nat /\ q <= p + s /\ q <= peakFull
    BY <1>0, <2>1, <2>2, <2>3, ByteRates, TokensOfATick
  <2>7. excess' = Greatest(excess - r, 0) /\ peakExcess' = Greatest(peakExcess - s, 0)
    BY <1>5, <2>3 DEF TimePasses
  <2>8. excess + b <= full /\ (PeakRate > 0 => peakExcess + p <= peakFull)
    BY <2>2, <2>3 DEF BucketInv
  <2>9. excess' + c <= full
    BY <1>0, <2>4, <2>5, <2>7, <2>8 DEF Greatest
  <2>10. PeakRate > 0 => peakExcess' + q <= peakFull
    BY <1>0, <2>4, <2>6, <2>7, <2>8 DEF Greatest
  <2> QED BY <2>1, <2>2, <2>3, <2>9, <2>10 DEF BucketInv
<1>6. CASE UNCHANGED vars
  BY <1>6, <1>a
<1> QED BY <1>1, <1>2, <1>3, <1>4, <1>5, <1>6 DEF Next

\* In no interval does the disc release more than a bucket, and half a byte for
\* each packet released, beyond its rate; nor beyond the peak rate more than the
\* second bucket and as much.
THEOREM RateIsKeptCorrect == Spec => []RateIsKept
<1>1. Init => BucketInv
  <2> SUFFICES ASSUME Init PROVE BucketInv
    OBVIOUS
  <2>1. /\ 2 * 0 * BytesPerSecond(Rate) = 0 /\ 2 * 0 * BytesPerSecond(PeakRate) = 0
        /\ 2 * Second * Burst \in Nat /\ 2 * Second * Mtu \in Nat
    BY ByteRates
  <2> QED BY <2>1 DEF Init, BucketInv, Exact, Least
<1>2. TypeOK /\ BucketInv /\ [Next]_vars => BucketInv'
  BY BucketInvStep
<1>3. TypeOK /\ BucketInv => RateIsKept
  <2> SUFFICES ASSUME TypeOK, BucketInv PROVE RateIsKept
    OBVIOUS
  <2>1. /\ elapsed \in Nat /\ btokens \in Nat /\ ptokens \in Nat
        /\ excess \in Nat /\ peakExcess \in Nat /\ elapsed <= elapsed + 1
    BY TokenBucketAssumption DEF TypeOK
  <2>2. /\ Exact(Rate, Burst, btokens, elapsed) \in Nat
        /\ Exact(PeakRate, Mtu, ptokens, elapsed) \in Nat
    BY <2>1, ByteRates, TokensOfATick
  <2>3. PICK full, peakFull : full = 2 * Second * Burst /\ peakFull = 2 * Second * Mtu
    OBVIOUS
  <2>4. full \in Nat /\ peakFull \in Nat
    BY <2>3, ByteRates
  <2>5. excess <= full /\ (PeakRate > 0 => peakExcess <= peakFull)
    BY <2>1, <2>2, <2>3, <2>4 DEF BucketInv
  <2> QED BY <2>3, <2>5 DEF RateIsKept
<1> QED BY <1>1, <1>2, <1>3, TypeCorrect, PTL DEF Spec
-----------------------------------------------------------------------------
\* A tick brings at most a byte, by either rate.
SlowRates == Rate <= 8 * Second /\ PeakRate <= 8 * Second

\* Then a byte takes at least a tick, even with the fraction dropped.
LEMMA DelayIsPositive ==
  ASSUME NEW rate \in Nat \ {0}, rate <= 8 * Second, NEW bytes \in Int, bytes > 0
  PROVE  TxTime(rate, bytes) \in Nat \ {0}
<1>1. PICK n : n = 8 * bytes * Second
  OBVIOUS
<1>2. n \in Nat /\ rate <= n
  <2>1. \A b, s \in Nat : b > 0 => b * s \in Nat /\ s <= b * s
    OBVIOUS
  <2>2. bytes * Second \in Nat /\ Second <= bytes * Second
    BY <2>1, ByteRates
  <2>3. n = 8 * (bytes * Second)
    BY <1>1, ByteRates
  <2> QED BY <2>2, <2>3, ByteRates
<1>3. n \div rate \in Nat /\ n < rate * (n \div rate) + rate
  BY <1>2, Quotient
<1>4. n \div rate # 0
  BY <1>2, <1>3
<1> QED BY <1>1, <1>3, <1>4 DEF TxTime

\* A packet short of tokens wakes the disc later than now, in either bucket.
LEMMA ShortWaits ==
  ASSUME SlowRates, TypeOK, NEW size \in Sizes, ~Conforms(size)
  PROVE  RequiredDelay(size) > 0
<1>1. /\ size \in Nat \ {0} /\ elapsed \in Nat /\ btokens \in Nat /\ ptokens \in Nat
      /\ Rate \in Nat \ {0} /\ PeakRate \in Nat
  BY TokenBucketAssumption DEF TypeOK
<1>2. Credit(Rate, elapsed) \in Nat /\ Credit(PeakRate, elapsed) \in Nat
  BY <1>1, ByteRates, CreditBound
<1>3. Btoks(size) \in Int /\ Ptoks(size) \in Int
  BY <1>1, <1>2, ByteRates DEF Btoks, Ptoks, BTokens, PTokens, Least
<1>4. \A t \in Int : -t \in Int /\ (t < 0 <=> -t > 0)
  OBVIOUS
<1>5. CASE Btoks(size) < 0
  <2>1. TxTime(Rate, -Btoks(size)) \in Nat \ {0}
    BY <1>1, <1>3, <1>4, <1>5, DelayIsPositive DEF SlowRates
  <2>2. PeakRate > 0 => TxTime(PeakRate, -Ptoks(size)) \in Nat
    <3>1. -Ptoks(size) > 0 /\ PeakRate > 0 => TxTime(PeakRate, -Ptoks(size)) \in Nat
      BY <1>1, <1>3, <1>4, DelayIsPositive DEF SlowRates
    <3>2. ~(-Ptoks(size) > 0) => TxTime(PeakRate, -Ptoks(size)) = 0
      BY DEF TxTime
    <3> QED BY <3>1, <3>2
  <2> QED BY <2>1, <2>2 DEF RequiredDelay, Greatest
<1>6. CASE ~(Btoks(size) < 0)
  <2>1. PeakRate > 0 /\ Ptoks(size) < 0
    BY <1>3, <1>6 DEF Conforms, Ptoks
  <2>2. TxTime(PeakRate, -Ptoks(size)) \in Nat \ {0}
    BY <1>1, <1>3, <1>4, <2>1, DelayIsPositive DEF SlowRates
  <2>3. TxTime(Rate, -Btoks(size)) = 0
    BY <1>3, <1>4, <1>6 DEF TxTime
  <2> QED BY <2>1, <2>2, <2>3 DEF RequiredDelay, Greatest
<1> QED BY <1>5, <1>6

\* While a tick brings at most a byte, Run never schedules itself for the instant
\* at which it runs: a packet that is short waits, although the delay is
\* truncated.  At higher rates it may do so without end (FindBusyWakeUp.cfg).
THEOREM WakesUpLater ==
  SlowRates => (Spec => [][RunStep /\ watchdog' # watchdog => watchdog' > 0]_vars)
<1> DEFINE Later == RunStep /\ watchdog' # watchdog => watchdog' > 0
<1>1. SlowRates /\ TypeOK /\ [Next]_vars => [Later]_vars
  <2> SUFFICES ASSUME SlowRates, TypeOK, RunStep, watchdog' # watchdog
               PROVE  watchdog' > 0
    OBVIOUS
  <2>1. PICK k \in 0 .. Len(items) : RunShort(k)
    BY DEF RunStep, RunBlocked, RunRequeued, RunNothing, RunDequeue
  <2>2. /\ MayDrop(k) /\ ~Conforms(Peeked(k).size)
        /\ watchdog' = RequiredDelay(Peeked(k).size)
    BY <2>1 DEF RunShort, PeekFrom
  <2>3. Peeked(k).size \in Sizes
    BY <2>2, PeekType DEF Packets
  <2> QED BY <2>2, <2>3, ShortWaits
<1>2. CASE SlowRates
  <2>1. TypeOK /\ [Next]_vars => [Later]_vars
    BY <1>1, <1>2
  <2> QED BY <2>1, TypeCorrect, PTL DEF Spec
<1> QED BY <1>2

-----------------------------------------------------------------------------
\* The packets of the child: one it may have kept, in front, and the others
\* behind it, in the order they arrived and without a header.
Line(p, s) ==
  /\ p # None => p.headers = 0 /\ p.uid <= nArrived
  /\ \A i \in 1 .. Len(s) :
       /\ s[i].headers = 0 /\ s[i].uid <= nArrived
       /\ p # None => p.uid < s[i].uid
       /\ \A j \in 1 .. i - 1 : s[j].uid < s[i].uid

\* A packet with the identity u came before them.
Ahead(u, p, s) == /\ p # None => u < p.uid
                  /\ \A i \in 1 .. Len(s) : u < s[i].uid

\* So that the packets sent, the one requeued, and those of the child stand in
\* the order they arrived.
OrderInv ==
  /\ sent \in Seq(Packets)
  /\ Line(kept, items)
  /\ requeued # None => /\ requeued.headers = 1 /\ requeued.uid <= nArrived
                        /\ Ahead(requeued.uid, kept, items)
  /\ \A i \in 1 .. Len(sent) :
       /\ sent[i].headers = 1 /\ sent[i].uid <= nArrived
       /\ requeued # None => sent[i].uid < requeued.uid
       /\ Ahead(sent[i].uid, kept, items)
       /\ \A j \in 1 .. i - 1 : sent[j].uid < sent[i].uid

\* A peek keeps the order, whatever it drops.
LEMMA PeekOrder ==
  ASSUME TypeOK, OrderInv, NEW k \in 0 .. Len(items), MayDrop(k)
  PROVE  /\ Line(Peeked(k), Behind(k))
         /\ \A u \in Nat : Ahead(u, kept, items) => Ahead(u, Peeked(k), Behind(k))
<1>0. Len(items) \in Nat /\ k \in Nat /\ \A i \in 1 .. Len(items) : items[i] \in Packets
  BY DEF TypeOK
<1>1. CASE kept # None
  BY <1>1 DEF OrderInv, Peeked, Behind, MayDrop
<1>2. CASE kept = None /\ k < Len(items)
  <2> DEFINE s == SubSeq(items, k + 2, Len(items))
  <2>1. Peeked(k) = items[k + 1] /\ Behind(k) = s
    BY <1>2 DEF Peeked, Behind
  <2>2. /\ Len(s) = Len(items) - (k + 1)
        /\ \A i \in 1 .. Len(s) : s[i] = items[k + 1 + i]
    <3>1. \A i \in k + 2 .. Len(items) : items[i] \in Packets
      BY <1>0
    <3>2. /\ Len(s) = IF k + 2 <= Len(items) THEN Len(items) - (k + 2) + 1 ELSE 0
          /\ \A i \in 1 .. Len(items) - (k + 2) + 1 : s[i] = items[k + 2 + i - 1]
      BY <1>0, <3>1, SubSeqProperties
    <3> QED BY <1>0, <1>2, <3>2
  <2> HIDE DEF s
  <2>3. Line(items[k + 1], s)
    <3>1. \A i \in 1 .. Len(items) :
            /\ items[i].headers = 0 /\ items[i].uid <= nArrived
            /\ \A j \in 1 .. i - 1 : items[j].uid < items[i].uid
      BY DEF OrderInv, Line
    <3>2. k + 1 \in 1 .. Len(items) /\ items[k + 1] # None
      BY <1>0, <1>2, NoneIsNoPacket
    <3>3. ASSUME NEW i \in 1 .. Len(s)
          PROVE  /\ s[i].headers = 0 /\ s[i].uid <= nArrived
                 /\ items[k + 1].uid < s[i].uid
                 /\ \A j \in 1 .. i - 1 : s[j].uid < s[i].uid
      <4>1. k + 1 + i \in 1 .. Len(items) /\ s[i] = items[k + 1 + i]
            /\ k + 1 \in 1 .. (k + 1 + i) - 1
        BY <1>0, <1>2, <2>2
      <4>2. ASSUME NEW j \in 1 .. i - 1 PROVE s[j].uid < s[i].uid
        <5>1. s[j] = items[k + 1 + j] /\ k + 1 + j \in 1 .. (k + 1 + i) - 1
          BY <1>0, <1>2, <2>2
        <5> QED BY <3>1, <4>1, <5>1
      <4> QED BY <3>1, <4>1, <4>2
    <3> QED BY <3>1, <3>2, <3>3 DEF Line
  <2>4. \A u \in Nat : Ahead(u, kept, items) => Ahead(u, items[k + 1], s)
    BY <1>0, <1>2, <2>2 DEF Ahead
  <2> QED BY <2>1, <2>3, <2>4
<1> QED BY <1>0, <1>1, <1>2 DEF MayDrop

\* A packet appended to those sent, when it is ahead of all that wait and behind
\* all that went.
LEMMA SendOrder ==
  ASSUME TypeOK, OrderInv, NEW item \in Packets, NEW p, NEW s,
         item.headers = 1, item.uid <= nArrived, Ahead(item.uid, p, s),
         \A i \in 1 .. Len(sent) : sent[i].uid < item.uid /\ Ahead(sent[i].uid, p, s),
         sent' = Append(sent, item)
  PROVE  /\ sent' \in Seq(Packets)
         /\ \A i \in 1 .. Len(sent') :
              /\ sent'[i].headers = 1 /\ sent'[i].uid <= nArrived
              /\ Ahead(sent'[i].uid, p, s)
              /\ \A j \in 1 .. i - 1 : sent'[j].uid < sent'[i].uid
<1>1. sent \in Seq(Packets) /\ Len(sent) \in Nat
  BY DEF OrderInv
<1>2. sent' \in Seq(Packets) /\ Len(sent') = Len(sent) + 1
  BY <1>1
<1>3. sent'[Len(sent')] = item /\ \A i \in 1 .. Len(sent) : sent'[i] = sent[i]
  BY <1>1, <1>2
<1>4. ASSUME NEW i \in 1 .. Len(sent')
      PROVE  /\ sent'[i].headers = 1 /\ sent'[i].uid <= nArrived
             /\ Ahead(sent'[i].uid, p, s)
             /\ \A j \in 1 .. i - 1 : sent'[j].uid < sent'[i].uid
  <2>1. CASE i = Len(sent')
    BY <1>1, <1>2, <1>3, <2>1
  <2>2. CASE i # Len(sent')
    BY <1>1, <1>2, <1>3, <2>2 DEF OrderInv
  <2> QED BY <2>1, <2>2
<1> QED BY <1>2, <1>4

\* What a push at the tail does, whatever is pushed.
LEMMA AppendFacts ==
  ASSUME NEW S, NEW seq \in Seq(S), NEW elt
  PROVE  /\ Len(Append(seq, elt)) = Len(seq) + 1
         /\ Append(seq, elt)[Len(seq) + 1] = elt
         /\ \A i \in 1 .. Len(seq) : Append(seq, elt)[i] = seq[i]
<1>1. seq \in Seq(S \cup {elt}) /\ elt \in S \cup {elt}
  BY SeqMonotonic
<1> QED BY <1>1, AppendProperties

LEMMA OrderInvStep ==
  ASSUME TypeOK, TypeOK', OrderInv, [Next]_vars
  PROVE  OrderInv'
<1>0. /\ nArrived \in Nat /\ Len(items) \in Nat /\ Len(sent) \in Nat
      /\ \A i \in 1 .. Len(sent) : sent[i] \in Packets /\ sent[i].uid \in Nat
      /\ \A q \in Packets : q.uid \in Nat /\ q # None
  <2>1. nArrived \in Nat
    BY TokenBucketAssumption DEF TypeOK
  <2>2. \A q \in Packets : q.uid \in Nat /\ q # None
    BY NoneIsNoPacket DEF Packets
  <2>3. items \in Seq(Packets) /\ sent \in Seq(Packets)
    BY DEF TypeOK, OrderInv
  <2>4. Len(items) \in Nat /\ Len(sent) \in Nat
        /\ \A i \in 1 .. Len(sent) : sent[i] \in Packets
    BY <2>3
  <2> QED BY <2>1, <2>2, <2>4
<1>a. ASSUME UNCHANGED <<childVars, requeued, nArrived, sent>>
      PROVE  OrderInv'
  BY <1>a DEF OrderInv, Line, Ahead
<1>1. CASE \E size \in Sizes, txq \in Queues : Send(size, txq)
  <2>1. PICK size \in Sizes, txq \in Queues : Send(size, txq)
    BY <1>1
  <2> DEFINE item == [uid |-> nArrived + 1, size |-> size, txq |-> txq, headers |-> 0]
  <2>2. /\ nArrived' = nArrived + 1
        /\ items' = Append(items, item) \/ items' = items
        /\ UNCHANGED <<kept, requeued, sent>>
    BY <2>1 DEF Send
  <2>3. item.uid = nArrived + 1 /\ item.headers = 0
    OBVIOUS
  <2> HIDE DEF item
  <2>4. /\ items \in Seq(Packets)
        /\ items' = Append(items, item) =>
             /\ Len(items') = Len(items) + 1 /\ items'[Len(items) + 1] = item
             /\ \A i \in 1 .. Len(items) : items'[i] = items[i]
    <3>1. items \in Seq(Packets)
      BY DEF TypeOK
    <3>2. /\ Len(Append(items, item)) = Len(items) + 1
          /\ Append(items, item)[Len(items) + 1] = item
          /\ \A i \in 1 .. Len(items) : Append(items, item)[i] = items[i]
      BY ONLY <3>1, AppendFacts
    <3> QED BY ONLY <3>1, <3>2
  <2>5. /\ \A i \in 1 .. Len(items) : items[i].uid <= nArrived /\ items[i].uid \in Nat
        /\ kept # None => kept.uid <= nArrived /\ kept.uid \in Nat
        /\ requeued # None => requeued.uid <= nArrived /\ requeued.uid \in Nat
    <3>1. \A i \in 1 .. Len(items) : items[i] \in Packets
      BY <2>4
    <3>2. \A i \in 1 .. Len(items) : items[i].uid <= nArrived
      BY DEF OrderInv, Line
    <3>3. kept # None => kept.uid <= nArrived /\ kept \in Packets
      BY DEF OrderInv, Line, TypeOK
    <3>4. requeued # None => requeued.uid <= nArrived /\ requeued \in Packets
      BY DEF OrderInv, TypeOK
    <3> QED BY <1>0, <3>1, <3>2, <3>3, <3>4
  <2>6. Line(kept, items)'
    <3>1. CASE items' = items
      BY <1>0, <2>2, <2>5, <3>1 DEF OrderInv, Line
    <3>2. CASE items' = Append(items, item)
      <4>1. ASSUME NEW i \in 1 .. Len(items')
            PROVE  /\ items'[i].headers = 0 /\ items'[i].uid <= nArrived + 1
                   /\ kept # None => kept.uid < items'[i].uid
                   /\ \A j \in 1 .. i - 1 : items'[j].uid < items'[i].uid
        <5>1. CASE i \in 1 .. Len(items)
          BY <1>0, <2>4, <2>5, <3>2, <5>1 DEF OrderInv, Line
        <5>2. CASE i = Len(items) + 1
          BY <1>0, <2>3, <2>4, <2>5, <3>2, <5>2 DEF OrderInv, Line
        <5>3. i \in 1 .. Len(items) \/ i = Len(items) + 1
          <6>1. Len(items') = Len(items) + 1
            BY <2>4, <3>2
          <6> QED BY <1>0, <6>1
        <5> QED BY <5>1, <5>2, <5>3
      <4> QED BY <1>0, <2>2, <2>5, <4>1 DEF OrderInv, Line
    <3> QED BY <2>2, <3>1, <3>2
  <2>7. ASSUME NEW u \in Nat, u <= nArrived, Ahead(u, kept, items)
        PROVE  Ahead(u, kept', items')
    BY <1>0, <2>2, <2>3, <2>4, <2>7 DEF Ahead
  <2>8. requeued' # None => /\ requeued'.headers = 1 /\ requeued'.uid <= nArrived'
                            /\ Ahead(requeued'.uid, kept', items')
    BY <1>0, <2>2, <2>5, <2>7 DEF OrderInv
  <2>9. ASSUME NEW i \in 1 .. Len(sent)
        PROVE  /\ sent[i].headers = 1 /\ sent[i].uid <= nArrived'
               /\ Ahead(sent[i].uid, kept', items')
    BY <1>0, <2>2, <2>7 DEF OrderInv
  <2> QED BY <2>2, <2>6, <2>8, <2>9 DEF OrderInv, Line, Ahead
<1>2. CASE RunStep
  <2>1. CASE RunBlocked
    BY <1>a, <2>1 DEF RunBlocked
  <2>2. CASE RunRequeued
    <3>1. /\ requeued \in Packets /\ requeued # None /\ sent' = Append(sent, requeued)
          /\ requeued' = None /\ UNCHANGED <<items, kept, nArrived>>
      BY <2>2 DEF RunRequeued, Transmit, TypeOK
    <3>2. /\ requeued.headers = 1 /\ requeued.uid <= nArrived
          /\ Ahead(requeued.uid, kept, items)
          /\ \A i \in 1 .. Len(sent) :
               sent[i].uid < requeued.uid /\ Ahead(sent[i].uid, kept, items)
      BY <3>1 DEF OrderInv
    <3>3. /\ sent' \in Seq(Packets)
          /\ \A i \in 1 .. Len(sent') :
               /\ sent'[i].headers = 1 /\ sent'[i].uid <= nArrived
               /\ Ahead(sent'[i].uid, kept, items)
               /\ \A j \in 1 .. i - 1 : sent'[j].uid < sent'[i].uid
      BY <3>1, <3>2, SendOrder
    <3> QED BY <3>1, <3>3 DEF OrderInv, Line, Ahead
  <2>5. CASE RunNothing
    BY <1>a, <2>5 DEF RunNothing
  <2>3. ASSUME NEW k \in 0 .. Len(items), RunShort(k)
        PROVE  OrderInv'
    <3>1. /\ MayDrop(k) /\ items' = Behind(k) /\ kept' = Peeked(k)
          /\ UNCHANGED <<requeued, nArrived, sent>>
      BY <2>3 DEF RunShort, PeekFrom
    <3>2. /\ Line(Peeked(k), Behind(k))
          /\ \A u \in Nat : Ahead(u, kept, items) => Ahead(u, Peeked(k), Behind(k))
      BY <3>1, PeekOrder
    <3>3. requeued # None => requeued.uid \in Nat
      BY <1>0 DEF TypeOK
    <3>4. Line(kept, items)'
      BY <3>1, <3>2 DEF Line
    <3>5. /\ requeued # None => Ahead(requeued.uid, kept', items')
          /\ \A i \in 1 .. Len(sent) : Ahead(sent[i].uid, kept', items')
      BY <1>0, <3>1, <3>2, <3>3 DEF OrderInv
    <3> QED BY <3>1, <3>4, <3>5 DEF OrderInv, Ahead
  <2>4. ASSUME NEW k \in 0 .. Len(items), RunDequeue(k)
        PROVE  OrderInv'
    <3> DEFINE item == [Peeked(k) EXCEPT !.headers = @ + 1]
    <3>1. /\ requeued = None /\ MayDrop(k) /\ items' = Behind(k)
          /\ kept' = None /\ nArrived' = nArrived
          /\ \/ requeued' = item /\ sent' = sent
             \/ requeued' = requeued /\ sent' = Append(sent, item)
      BY <2>4 DEF RunDequeue, PeekFrom, Transmit
    <3>2. /\ Line(Peeked(k), Behind(k))
          /\ \A u \in Nat : Ahead(u, kept, items) => Ahead(u, Peeked(k), Behind(k))
      BY <3>1, PeekOrder
    <3>3. Peeked(k) \in Packets /\ Peeked(k) # None
      BY <3>1, PeekType
    <3>4. item \in Packets /\ item.headers = 1 /\ item.uid = Peeked(k).uid
          /\ item.uid \in Nat
      <4>1. Peeked(k).headers = 0 /\ 1 \in Nat
        BY <3>2, <3>3 DEF Line
      <4>2. item \in Packets /\ item.headers = 1 /\ item.uid = Peeked(k).uid
        BY <3>3, <4>1 DEF Packets
      <4> QED BY <1>0, <4>2
    <3> HIDE DEF item
    <3>5. item.uid <= nArrived /\ Ahead(item.uid, None, Behind(k))
      BY <3>2, <3>3, <3>4 DEF Line, Ahead
    <3>6. \A i \in 1 .. Len(sent) :
            sent[i].uid < item.uid /\ Ahead(sent[i].uid, None, Behind(k))
      <4>1. \A i \in 1 .. Len(sent) : Ahead(sent[i].uid, Peeked(k), Behind(k))
        BY <1>0, <3>2 DEF OrderInv
      <4> QED BY <3>3, <3>4, <4>1 DEF Ahead
    <3>7. Line(kept, items)'
      BY <3>1, <3>2 DEF Line
    <3>8. CASE requeued' = item /\ sent' = sent
      BY <3>1, <3>4, <3>5, <3>6, <3>7, <3>8 DEF OrderInv, Ahead
    <3>9. CASE requeued' = requeued /\ sent' = Append(sent, item)
      <4>1. /\ sent' \in Seq(Packets)
            /\ \A i \in 1 .. Len(sent') :
                 /\ sent'[i].headers = 1 /\ sent'[i].uid <= nArrived
                 /\ Ahead(sent'[i].uid, None, Behind(k))
                 /\ \A j \in 1 .. i - 1 : sent'[j].uid < sent'[i].uid
        BY <3>4, <3>5, <3>6, <3>9, SendOrder
      <4> QED BY <3>1, <3>7, <3>9, <4>1 DEF OrderInv, Ahead
    <3> QED BY <3>1, <3>8, <3>9
  <2> QED BY <1>2, <2>1, <2>2, <2>3, <2>4, <2>5 DEF RunStep
<1>3. CASE \E q \in Queues : DeviceDequeue(q) \/ WakeCallback(q)
  BY <1>3, <1>a DEF DeviceDequeue, WakeCallback
<1>4. CASE Watchdog
  BY <1>4, <1>a DEF Watchdog
<1>5. CASE TimePasses
  BY <1>5, <1>a DEF TimePasses
<1>6. CASE UNCHANGED vars
  BY <1>6, <1>a
<1> QED BY <1>1, <1>2, <1>3, <1>4, <1>5, <1>6 DEF Next

\* The device gets packets in the order they arrived and each with one header,
\* whatever was peeked, blocked, dropped or requeued.
THEOREM SentInOrderCorrect == Spec => []SentInOrderWithHeader
<1>1. Init => OrderInv
  BY DEF Init, OrderInv, Line
<1>2. TypeOK /\ TypeOK' /\ OrderInv /\ [Next]_vars => OrderInv'
  BY OrderInvStep
<1>3. OrderInv => SentInOrderWithHeader
  BY DEF OrderInv, SentInOrderWithHeader
<1> QED BY <1>1, <1>2, <1>3, TypeCorrect, PTL DEF Spec
-----------------------------------------------------------------------------
(* Each packet in one place *)

\* The identities of a packet, if there is one, and of those behind it.
Child(p, s) == Ids(s) \cup (IF p = None THEN {} ELSE {p.uid})
One(p)      == IF p = None THEN 0 ELSE 1

\* What is held, what was sent and what was dropped are all that arrived, and
\* nothing was dropped and kept.  That no packet is both held and sent, or twice
\* in either, is the order of OrderInv.
PlaceInv ==
  /\ nPackets = Len(items) + One(kept)
  /\ Held \cup Ids(sent) \cup dropped = 1 .. nArrived
  /\ dropped \cap (Held \cup Ids(sent)) = {}

LEMMA HeldIsChild ==
  ASSUME NEW p \in Packets \cup {None}, NEW r \in Packets \cup {None},
         NEW s \in Seq(Packets)
  PROVE  (Ids(s) \cup {p.uid, r.uid}) \ {0} = Child(p, s) \cup Child(r, <<>>)
<1>1. \A q \in Packets : q.uid # 0 /\ q # None
  BY NoneIsNoPacket DEF Packets
<1>2. None.uid = 0
  BY DEF None
<1>3. 0 \notin Ids(s) /\ Ids(<<>>) = {}
  BY <1>1 DEF Ids
<1>4. {p.uid} \ {0} = IF p = None THEN {} ELSE {p.uid}
  BY <1>1, <1>2
<1>5. {r.uid} \ {0} = IF r = None THEN {} ELSE {r.uid}
  BY <1>1, <1>2
<1> QED BY <1>3, <1>4, <1>5 DEF Child

LEMMA IdsOfAppend ==
  ASSUME NEW S, NEW s \in Seq(S), NEW e
  PROVE  Ids(Append(s, e)) = Ids(s) \cup {e.uid}
<1>1. PICK t : t = Append(s, e)
  OBVIOUS
<1>2. /\ Len(t) = Len(s) + 1 /\ t[Len(s) + 1] = e
      /\ \A i \in 1 .. Len(s) : t[i] = s[i]
  BY <1>1, AppendFacts
<1>3. /\ Len(s) \in Nat /\ DOMAIN s = 1 .. Len(s) /\ DOMAIN t = 1 .. Len(s) + 1
  BY <1>1, <1>2
<1>4. Ids(t) \subseteq Ids(s) \cup {e.uid}
  BY <1>2, <1>3 DEF Ids
<1>5. Ids(s) \subseteq Ids(t) /\ e.uid \in Ids(t)
  BY <1>2, <1>3 DEF Ids
<1> QED BY <1>1, <1>4, <1>5

\* Identities in order are as many as the packets.
LEMMA IdsInOrder ==
  ASSUME NEW S, \A e \in S : e.uid \in Nat, NEW s \in Seq(S),
         \A i \in 1 .. Len(s) : \A j \in 1 .. i - 1 : s[j].uid < s[i].uid
  PROVE  IsFiniteSet(Ids(s)) /\ Cardinality(Ids(s)) = Len(s)
<1>1. PICK n \in Nat : n = Len(s)
  OBVIOUS
<1>2. DOMAIN s = 1 .. n /\ \A i \in 1 .. n : s[i].uid \in Nat
  BY <1>1
<1> DEFINE f == [i \in 1 .. n |-> s[i].uid]
<1>3. f \in Surjection(1 .. n, Ids(s))
  BY <1>2 DEF Surjection, Ids
<1>4. \A i, j \in 1 .. n : i # j => f[i] # f[j]
  <2> SUFFICES ASSUME NEW i \in 1 .. n, NEW j \in 1 .. n, i # j
               PROVE  s[i].uid # s[j].uid
    OBVIOUS
  <2>1. i \in 1 .. j - 1 \/ j \in 1 .. i - 1
    OBVIOUS
  <2> QED BY <1>1, <1>2, <2>1
<1>5. f \in Injection(1 .. n, Ids(s))
  <2>1. f \in [1 .. n -> Ids(s)]
    BY <1>3 DEF Surjection
  <2> HIDE DEF f
  <2> QED BY <1>4, <2>1 DEF Injection, IsInjective
<1>6. IsFiniteSet(1 .. n) /\ Cardinality(1 .. n) = n
  BY FS_Interval
<1> HIDE DEF f
<1> QED BY <1>1, <1>3, <1>5, <1>6, FS_Surjection

\* What the child drops in a peek was in it and is not any more; the rest is.
LEMMA PeekPlaces ==
  ASSUME TypeOK, OrderInv, NEW k \in 0 .. Len(items), MayDrop(k),
         NEW D, D = {items[i].uid : i \in 1 .. k}
  PROVE  /\ Child(kept, items) = D \cup Child(Peeked(k), Behind(k))
         /\ D \cap Child(Peeked(k), Behind(k)) = {}
         /\ D \cap Ids(sent) = {}
         /\ Len(items) + One(kept) - k = Len(Behind(k)) + One(Peeked(k))
<1>1. PICK n \in Nat : n = Len(items)
  BY DEF TypeOK
<1>2. /\ items \in Seq(Packets) /\ DOMAIN items = 1 .. n
      /\ \A i \in 1 .. n : items[i] \in Packets /\ items[i].uid \in Nat
  <2>1. items \in Seq(Packets)
    BY DEF TypeOK
  <2>2. \A q \in Packets : q.uid \in Nat
    BY DEF Packets
  <2> QED BY <1>1, <2>1, <2>2
<1>3. \A i \in 1 .. n : \A j \in 1 .. i - 1 : items[j].uid < items[i].uid
  BY <1>1 DEF OrderInv, Line
<1>4. D \cap Ids(sent) = {}
  <2>1. sent \in Seq(Packets) /\ DOMAIN sent = 1 .. Len(sent)
        /\ \A i \in 1 .. Len(sent) : sent[i].uid \in Nat
    <3>1. sent \in Seq(Packets)
      BY DEF OrderInv
    <3>2. \A q \in Packets : q.uid \in Nat
      BY DEF Packets
    <3> QED BY <3>1, <3>2
  <2>2. \A i \in 1 .. Len(sent) : \A j \in 1 .. n : sent[i].uid < items[j].uid
    BY <1>1 DEF OrderInv, Ahead
  <2>3. ASSUME NEW i \in 1 .. Len(sent), NEW j \in 1 .. k
        PROVE  sent[i].uid # items[j].uid
    <3>1. j \in 1 .. n
      BY <1>1
    <3> QED BY <1>2, <2>1, <2>2, <3>1
  <2> QED BY <2>1, <2>3 DEF Ids
<1>5. CASE kept # None
  <2>1. k = 0 /\ Peeked(k) = kept /\ Behind(k) = items
    BY <1>5 DEF Peeked, Behind, MayDrop
  <2>2. D = {}
    BY <2>1
  <2> QED BY <1>1, <1>4, <2>1, <2>2 DEF One
<1>6. CASE kept = None /\ k < n
  <2>1. PICK t : t = SubSeq(items, k + 2, n)
    OBVIOUS
  <2>2. Peeked(k) = items[k + 1] /\ Behind(k) = t /\ k + 1 \in 1 .. n
    BY <1>1, <1>6, <2>1 DEF Peeked, Behind
  <2>3. /\ t \in Seq(Packets) /\ Len(t) = n - (k + 1)
        /\ \A i \in 1 .. Len(t) : t[i] = items[k + 1 + i]
    <3>1. \A i \in k + 2 .. n : items[i] \in Packets
      BY <1>1, <1>2
    <3>2. k + 2 \in Int /\ n \in Int
      BY <1>1
    <3>3. /\ t \in Seq(Packets)
          /\ Len(t) = IF k + 2 <= n THEN n - (k + 2) + 1 ELSE 0
          /\ \A i \in 1 .. n - (k + 2) + 1 : t[i] = items[k + 2 + i - 1]
      BY ONLY <2>1, <3>1, <3>2, SubSeqProperties
    <3> QED BY <1>1, <1>6, <3>3
  <2>4. DOMAIN t = 1 .. Len(t) /\ Peeked(k) # None
    BY <1>2, <2>2, <2>3, NoneIsNoPacket
  <2>5. Child(Peeked(k), Behind(k)) = Ids(t) \cup {items[k + 1].uid}
    BY <2>2, <2>4 DEF Child
  <2>6. Ids(t) = {items[i].uid : i \in k + 2 .. n}
    <3>1. ASSUME NEW i \in DOMAIN t PROVE t[i].uid \in {items[j].uid : j \in k + 2 .. n}
      <4>1. PICK j : j = k + 1 + i
        OBVIOUS
      <4>2. j \in k + 2 .. n /\ t[i] = items[j]
        BY <1>1, <2>3, <2>4, <4>1
      <4> QED BY <4>2
    <3>2. ASSUME NEW j \in k + 2 .. n PROVE items[j].uid \in Ids(t)
      <4>1. j - (k + 1) \in 1 .. Len(t) /\ k + 1 + (j - (k + 1)) = j
        BY <1>1, <2>3
      <4>2. t[j - (k + 1)] = items[j]
        BY <2>3, <4>1
      <4> QED BY <2>4, <4>1, <4>2 DEF Ids
    <3> QED BY <3>1, <3>2 DEF Ids
  <2>7. Child(kept, items) = {items[i].uid : i \in 1 .. n}
    BY <1>2, <1>6 DEF Child, Ids
  <2>8. \A i \in 1 .. n : i \in 1 .. k \/ i = k + 1 \/ i \in k + 2 .. n
    BY <1>1
  <2>9. /\ 1 .. k \subseteq 1 .. n /\ k + 2 .. n \subseteq 1 .. n
    BY <1>1
  <2>10. Child(kept, items) = D \cup Child(Peeked(k), Behind(k))
    BY <2>2, <2>5, <2>6, <2>7, <2>8, <2>9
  <2>11. ASSUME NEW i \in 1 .. k, NEW j \in k + 1 .. n
         PROVE  items[i].uid # items[j].uid
    <3>1. j \in 1 .. n /\ i \in 1 .. j - 1 /\ i \in 1 .. n
      BY <1>1
    <3> QED BY <1>2, <1>3, <3>1
  <2>12. k + 1 \in k + 1 .. n /\ k + 2 .. n \subseteq k + 1 .. n
    BY <1>1, <1>6
  <2>13. D \cap Child(Peeked(k), Behind(k)) = {}
    BY <2>5, <2>6, <2>11, <2>12
  <2>14. Len(items) + One(kept) - k = Len(Behind(k)) + One(Peeked(k))
    BY <1>1, <1>6, <2>2, <2>3, <2>4 DEF One
  <2> QED BY <1>4, <2>10, <2>13, <2>14
<1> QED BY <1>1, <1>5, <1>6 DEF MayDrop

\* A peek only moves packets from the child to those dropped; what it leaves in
\* front may then be requeued or sent.
LEMMA PeekKeepsPlaces ==
  ASSUME TypeOK, OrderInv, PlaceInv, NEW k \in 0 .. Len(items), PeekFrom(k),
         requeued = None, UNCHANGED nArrived,
         (Held \cup Ids(sent))' = Child(Peeked(k), Behind(k)) \cup Ids(sent)
  PROVE  /\ (Held \cup Ids(sent) \cup dropped)' = 1 .. nArrived'
         /\ (dropped \cap (Held \cup Ids(sent)))' = {}
         /\ nPackets - k = Len(Behind(k)) + One(Peeked(k))
<1>1. PICK D : D = {items[i].uid : i \in 1 .. k}
  OBVIOUS
<1>2. dropped' = dropped \cup D /\ MayDrop(k)
  BY <1>1 DEF PeekFrom
<1>3. /\ Child(kept, items) = D \cup Child(Peeked(k), Behind(k))
      /\ D \cap Child(Peeked(k), Behind(k)) = {}
      /\ D \cap Ids(sent) = {}
      /\ Len(items) + One(kept) - k = Len(Behind(k)) + One(Peeked(k))
  BY ONLY TypeOK, OrderInv, k \in 0 .. Len(items), <1>1, <1>2, PeekPlaces
<1>4. Held = Child(kept, items)
  <2>1. Held = (Ids(items) \cup {kept.uid, requeued.uid}) \ {0}
    BY DEF Held
  <2>2. Held = Child(kept, items) \cup Child(None, <<>>)
    BY <2>1, HeldIsChild DEF TypeOK
  <2>3. Child(None, <<>>) = {}
    BY DEF Child, Ids
  <2> QED BY <2>2, <2>3
<1>5. PICK C : C = Child(Peeked(k), Behind(k))
  OBVIOUS
<1>6. PICK S : S = Ids(sent)
  OBVIOUS
<1>7. /\ (D \cup C \cup S) \cup dropped = 1 .. nArrived
      /\ dropped \cap (D \cup C \cup S) = {}
  BY <1>3, <1>4, <1>5, <1>6 DEF PlaceInv
<1>8. /\ (Held \cup Ids(sent) \cup dropped)' = (C \cup S) \cup (dropped \cup D)
      /\ (dropped \cap (Held \cup Ids(sent)))' = (dropped \cup D) \cap (C \cup S)
  BY <1>2, <1>5, <1>6
<1>9. D \cap C = {} /\ D \cap S = {}
  BY <1>3, <1>5, <1>6
<1>10. nPackets - k = Len(Behind(k)) + One(Peeked(k))
  <2>1. nPackets = Len(items) + One(kept)
    BY DEF PlaceInv
  <2>2. nPackets - k = Len(items) + One(kept) - k
    <3>1. Len(items) \in Nat /\ One(kept) \in Nat /\ k \in Nat
      BY DEF TypeOK, One
    <3> QED BY ONLY <2>1, <3>1
  <2>3. Len(items) + One(kept) - k = Len(Behind(k)) + One(Peeked(k))
    BY ONLY <1>3
  <2> QED BY ONLY <2>2, <2>3
<1>11. (C \cup S) \cup (dropped \cup D) = 1 .. nArrived'
  BY <1>7
<1>12. (dropped \cup D) \cap (C \cup S) = {}
  BY <1>7, <1>9
<1> QED BY <1>8, <1>10, <1>11, <1>12

LEMMA PlaceInvStep ==
  ASSUME TypeOK, TypeOK', OrderInv, PlaceInv, [Next]_vars
  PROVE  PlaceInv'
<1>0. /\ nArrived \in Nat /\ Len(items) \in Nat /\ nPackets \in Int
      /\ items \in Seq(Packets) /\ sent \in Seq(Packets)
  BY TokenBucketAssumption DEF TypeOK, OrderInv
<1>H. /\ Held = Child(kept, items) \cup Child(requeued, <<>>)
      /\ Held' = Child(kept', items') \cup Child(requeued', <<>>)
  <2>1. /\ kept \in Packets \cup {None} /\ requeued \in Packets \cup {None}
        /\ kept' \in Packets \cup {None} /\ requeued' \in Packets \cup {None}
        /\ items \in Seq(Packets) /\ items' \in Seq(Packets)
    BY DEF TypeOK
  <2>2. /\ Held = (Ids(items) \cup {kept.uid, requeued.uid}) \ {0}
        /\ Held' = (Ids(items') \cup {kept'.uid, requeued'.uid}) \ {0}
    BY DEF Held
  <2>3. Held = Child(kept, items) \cup Child(requeued, <<>>)
    BY ONLY <2>1, <2>2, HeldIsChild
  <2>4. Held' = Child(kept', items') \cup Child(requeued', <<>>)
    BY ONLY <2>1, <2>2, HeldIsChild
  <2> QED BY <2>3, <2>4
<1>N. Ids(<<>>) = {}
  BY DEF Ids
<1>a. ASSUME UNCHANGED <<childVars, requeued, nArrived, dropped, sent>>
      PROVE  PlaceInv'
  BY <1>a DEF PlaceInv, Held, One
<1>1. CASE \E size \in Sizes, txq \in Queues : Send(size, txq)
  <2>1. PICK size \in Sizes, txq \in Queues : Send(size, txq)
    BY <1>1
  <2> DEFINE item == [uid |-> nArrived + 1, size |-> size, txq |-> txq, headers |-> 0]
  <2>2. /\ nArrived' = nArrived + 1 /\ UNCHANGED <<kept, requeued, sent>>
        /\ \/ /\ items' = Append(items, item) /\ nPackets' = nPackets + 1
              /\ dropped' = dropped
           \/ /\ dropped' = dropped \cup {nArrived + 1}
              /\ items' = items /\ nPackets' = nPackets
    BY <2>1 DEF Send
  <2>3. item.uid = nArrived + 1
    OBVIOUS
  <2> HIDE DEF item
  <2>4. 1 .. nArrived' = (1 .. nArrived) \cup {nArrived + 1}
        /\ nArrived + 1 \notin 1 .. nArrived
    BY <1>0, <2>2
  <2>5. CASE /\ items' = Append(items, item) /\ nPackets' = nPackets + 1
             /\ dropped' = dropped
    <3>1. Ids(items') = Ids(items) \cup {nArrived + 1} /\ Len(items') = Len(items) + 1
      BY <1>0, <2>3, <2>5, IdsOfAppend, AppendFacts
    <3>2. Held' = Held \cup {nArrived + 1}
      BY <1>H, <2>2, <3>1 DEF Child
    <3>3. nPackets' = Len(items') + One(kept')
      BY <1>0, <2>2, <2>5, <3>1 DEF PlaceInv, One
    <3> QED BY <2>2, <2>4, <2>5, <3>2, <3>3 DEF PlaceInv
  <2>6. CASE /\ dropped' = dropped \cup {nArrived + 1}
             /\ items' = items /\ nPackets' = nPackets
    <3>1. Held' = Held
      BY <1>H, <2>2, <2>6
    <3>2. nPackets' = Len(items') + One(kept')
      BY <2>2, <2>6 DEF PlaceInv, One
    <3> QED BY <2>2, <2>4, <2>6, <3>1, <3>2 DEF PlaceInv
  <2> QED BY <2>2, <2>5, <2>6
<1>2. CASE RunStep
  <2>1. CASE RunBlocked
    BY <1>a, <2>1 DEF RunBlocked
  <2>2. CASE RunRequeued
    <3>1. /\ requeued # None /\ sent' = Append(sent, requeued) /\ requeued' = None
          /\ UNCHANGED <<childVars, nArrived, dropped>>
      BY <2>2 DEF RunRequeued, Transmit
    <3>2. Ids(sent') = Ids(sent) \cup {requeued.uid}
      BY <1>0, <3>1, IdsOfAppend
    <3>3. Held' \cup Ids(sent') = Held \cup Ids(sent)
      BY <1>H, <1>N, <3>1, <3>2 DEF Child
    <3>4. nPackets' = Len(items') + One(kept')
      BY <3>1 DEF PlaceInv, One
    <3> QED BY <3>1, <3>3, <3>4 DEF PlaceInv
  <2>5. CASE RunNothing
    BY <1>a, <2>5 DEF RunNothing
  <2>3. ASSUME NEW k \in 0 .. Len(items), RunShort(k)
        PROVE  PlaceInv'
    <3>1. /\ PeekFrom(k) /\ requeued = None
          /\ items' = Behind(k) /\ kept' = Peeked(k) /\ nPackets' = nPackets - k
          /\ UNCHANGED <<requeued, nArrived, sent>>
      BY <2>3 DEF RunShort, DropAfterDequeue
    <3>2. (Held \cup Ids(sent))' = Child(Peeked(k), Behind(k)) \cup Ids(sent)
      BY <1>H, <1>N, <3>1 DEF Child
    <3> QED BY <3>1, <3>2, PeekKeepsPlaces DEF PlaceInv
  <2>4. ASSUME NEW k \in 0 .. Len(items), RunDequeue(k)
        PROVE  PlaceInv'
    <3> DEFINE item == [Peeked(k) EXCEPT !.headers = @ + 1]
    <3>1. /\ PeekFrom(k) /\ requeued = None
          /\ items' = Behind(k) /\ kept' = None /\ nPackets' = nPackets - k - 1
          /\ UNCHANGED nArrived
          /\ \/ requeued' = item /\ sent' = sent
             \/ requeued' = None /\ sent' = Append(sent, item)
      BY <2>4 DEF RunDequeue, DropAfterDequeue, Transmit
    <3>2. /\ Peeked(k) \in Packets /\ Peeked(k) # None
          /\ Behind(k) \in Seq(Packets)
      BY <3>1, PeekType DEF PeekFrom
    <3>3. item.uid = Peeked(k).uid /\ item # None
      <4>1. item.headers = Peeked(k).headers + 1 /\ item.uid = Peeked(k).uid
        BY <3>2 DEF Packets
      <4>2. item.uid # 0
        BY <3>2, <4>1 DEF Packets
      <4>3. None.uid = 0
        BY DEF None
      <4> QED BY <4>1, <4>2, <4>3
    <3> HIDE DEF item
    <3>4. Ids(Append(sent, item)) = Ids(sent) \cup {item.uid}
      BY <1>0, IdsOfAppend
    <3>5. (Held \cup Ids(sent))' = Child(Peeked(k), Behind(k)) \cup Ids(sent)
      BY <1>H, <1>N, <3>1, <3>2, <3>3, <3>4 DEF Child
    <3>6. /\ (Held \cup Ids(sent) \cup dropped)' = 1 .. nArrived'
          /\ (dropped \cap (Held \cup Ids(sent)))' = {}
          /\ nPackets - k = Len(Behind(k)) + One(Peeked(k))
      BY <3>1, <3>5, PeekKeepsPlaces
    <3>7. nPackets' = Len(items') + One(kept')
      <4>1. k \in Int /\ Len(Behind(k)) \in Nat
        BY <1>0, <3>2
      <4> QED BY <1>0, <3>1, <3>2, <3>6, <4>1 DEF One
    <3> QED BY <3>6, <3>7 DEF PlaceInv
  <2> QED BY <1>2, <2>1, <2>2, <2>3, <2>4, <2>5 DEF RunStep
<1>3. CASE \E q \in Queues : DeviceDequeue(q) \/ WakeCallback(q)
  BY <1>3, <1>a DEF DeviceDequeue, WakeCallback
<1>4. CASE Watchdog
  BY <1>4, <1>a DEF Watchdog
<1>5. CASE TimePasses
  BY <1>5, <1>a DEF TimePasses
<1>6. CASE UNCHANGED vars
  BY <1>6, <1>a
<1> QED BY <1>1, <1>2, <1>3, <1>4, <1>5, <1>6 DEF Next

\* Three sets that share nothing.
LEMMA DisjointUnion ==
  ASSUME NEW A, IsFiniteSet(A), NEW B, IsFiniteSet(B), NEW C, IsFiniteSet(C),
         A \cap B = {}, C \cap (A \cup B) = {}
  PROVE  Cardinality(A \cup B \cup C) = Cardinality(A) + Cardinality(B) + Cardinality(C)
<1>1. IsFiniteSet(A \cup B)
      /\ Cardinality(A \cup B) = Cardinality(A) + Cardinality(B) - Cardinality(A \cap B)
  BY FS_Union
<1>2. Cardinality((A \cup B) \cup C)
        = Cardinality(A \cup B) + Cardinality(C) - Cardinality((A \cup B) \cap C)
  BY <1>1, FS_Union
<1>3. Cardinality(A \cap B) = 0 /\ Cardinality((A \cup B) \cap C) = 0
  BY FS_EmptySet
<1>4. /\ Cardinality(A) \in Nat /\ Cardinality(B) \in Nat /\ Cardinality(C) \in Nat
      /\ Cardinality(A \cup B) \in Nat
  BY <1>1, FS_CardinalityType
<1> QED BY <1>1, <1>2, <1>3, <1>4

\* As many identities are held as there are packets, and none of them was sent.
LEMMA HeldCounts ==
  ASSUME TypeOK, OrderInv
  PROVE  /\ IsFiniteSet(Held)
         /\ Cardinality(Held) = Len(items) + One(kept) + One(requeued)
         /\ Held \cap Ids(sent) = {}
         /\ IsFiniteSet(Ids(sent)) /\ Cardinality(Ids(sent)) = Len(sent)
<1>1. /\ items \in Seq(Packets) /\ sent \in Seq(Packets) /\ Len(items) \in Nat
      /\ DOMAIN items = 1 .. Len(items) /\ DOMAIN sent = 1 .. Len(sent)
  BY DEF TypeOK, OrderInv
<1>2. \A q \in Packets : q.uid \in Nat /\ q # None
  BY NoneIsNoPacket DEF Packets
<1>3. /\ \A i \in 1 .. Len(items) : items[i].uid \in Nat
      /\ \A i \in 1 .. Len(sent) : sent[i].uid \in Nat
      /\ kept # None => kept.uid \in Nat
      /\ requeued # None => requeued.uid \in Nat
  <2>1. /\ \A i \in 1 .. Len(items) : items[i] \in Packets
        /\ \A i \in 1 .. Len(sent) : sent[i] \in Packets
    BY <1>1
  <2>2. kept # None => kept \in Packets
    BY DEF TypeOK
  <2>3. requeued # None => requeued \in Packets
    BY DEF TypeOK
  <2> QED BY <1>2, <2>1, <2>2, <2>3
<1>4. IsFiniteSet(Ids(items)) /\ Cardinality(Ids(items)) = Len(items)
  BY <1>1, <1>2, IdsInOrder DEF OrderInv, Line
<1>5. IsFiniteSet(Ids(sent)) /\ Cardinality(Ids(sent)) = Len(sent)
  BY <1>1, <1>2, IdsInOrder DEF OrderInv
<1>6. PICK K : K = IF kept = None THEN {} ELSE {kept.uid}
  OBVIOUS
<1>7. PICK R : R = IF requeued = None THEN {} ELSE {requeued.uid}
  OBVIOUS
<1>8. Held = Ids(items) \cup K \cup R
  <2>1. /\ kept \in Packets \cup {None} /\ requeued \in Packets \cup {None}
        /\ Held = (Ids(items) \cup {kept.uid, requeued.uid}) \ {0}
    BY DEF TypeOK, Held
  <2>2. Held = Child(kept, items) \cup Child(requeued, <<>>)
    <3>1. items \in Seq(Packets)
      BY <1>1
    <3>2. (Ids(items) \cup {kept.uid, requeued.uid}) \ {0}
            = Child(kept, items) \cup Child(requeued, <<>>)
      BY ONLY <2>1, <3>1, HeldIsChild
    <3> QED BY ONLY <2>1, <3>2
  <2>3. Ids(<<>>) = {}
    BY DEF Ids
  <2> QED BY <1>6, <1>7, <2>2, <2>3 DEF Child
<1>9. /\ IsFiniteSet(K) /\ Cardinality(K) = One(kept)
      /\ IsFiniteSet(R) /\ Cardinality(R) = One(requeued)
  BY <1>6, <1>7, FS_EmptySet, FS_Singleton DEF One
<1>10. Ids(items) \cap K = {}
  <2>1. kept # None => \A i \in 1 .. Len(items) : kept.uid < items[i].uid
    BY DEF OrderInv, Line
  <2> QED BY <1>1, <1>3, <1>6, <2>1 DEF Ids
<1>11. R \cap (Ids(items) \cup K) = {}
  <2>1. requeued # None => Ahead(requeued.uid, kept, items)
    BY DEF OrderInv
  <2> QED BY <1>1, <1>3, <1>6, <1>7, <2>1 DEF Ids, Ahead
<1>12. Held \cap Ids(sent) = {}
  <2>1. \A i \in 1 .. Len(sent) : /\ requeued # None => sent[i].uid < requeued.uid
                                  /\ Ahead(sent[i].uid, kept, items)
    BY DEF OrderInv
  <2>2. Ids(sent) \cap R = {}
    BY <1>1, <1>3, <1>7, <2>1 DEF Ids
  <2>3. Ids(sent) \cap K = {}
    BY <1>1, <1>3, <1>6, <2>1 DEF Ids, Ahead
  <2>4. Ids(sent) \cap Ids(items) = {}
    BY <1>1, <1>3, <2>1 DEF Ids, Ahead
  <2> QED BY <1>8, <2>2, <2>3, <2>4
<1>13. IsFiniteSet(Held)
  BY <1>4, <1>8, <1>9, FS_Union
<1>14. Cardinality(Held) = Cardinality(Ids(items)) + Cardinality(K) + Cardinality(R)
  BY <1>4, <1>8, <1>9, <1>10, <1>11, DisjointUnion
<1> QED BY <1>4, <1>5, <1>9, <1>12, <1>13, <1>14

\* Each packet that arrived is held, requeued, sent or was dropped, and nowhere
\* else; and the counter Run relies on is the number of packets in the disc, though
\* a peek takes packets from the internal queue behind its back.
THEOREM EveryPacketInOnePlaceCorrect == Spec => []EveryPacketInOnePlace
<1>1. Init => PlaceInv
  <2> SUFFICES ASSUME Init PROVE PlaceInv
    OBVIOUS
  <2>1. /\ items = <<>> /\ kept = None /\ requeued = None /\ nPackets = 0
        /\ nArrived = 0 /\ dropped = {} /\ sent = <<>>
    BY DEF Init
  <2>2. Ids(<<>>) = {} /\ None.uid = 0 /\ 1 .. 0 = {}
    BY DEF Ids, None
  <2>3. Held = {}
    BY <2>1, <2>2 DEF Held
  <2> QED BY <2>1, <2>2, <2>3 DEF PlaceInv, One
<1>2. TypeOK /\ TypeOK' /\ OrderInv /\ PlaceInv /\ [Next]_vars => PlaceInv'
  BY PlaceInvStep
<1>3. TypeOK /\ OrderInv /\ PlaceInv => EveryPacketInOnePlace
  <2> SUFFICES ASSUME TypeOK, OrderInv, PlaceInv PROVE EveryPacketInOnePlace
    OBVIOUS
  <2>1. /\ IsFiniteSet(Held)
        /\ Cardinality(Held) = Len(items) + One(kept) + One(requeued)
        /\ Held \cap Ids(sent) = {}
        /\ IsFiniteSet(Ids(sent)) /\ Cardinality(Ids(sent)) = Len(sent)
    BY HeldCounts
  <2>2. /\ nPackets = Len(items) + One(kept)
        /\ Held \cup Ids(sent) \cup dropped = 1 .. nArrived
        /\ dropped \cap (Held \cup Ids(sent)) = {}
    BY DEF PlaceInv
  <2>3. nArrived \in Nat
    BY TokenBucketAssumption DEF TypeOK
  <2>4. IsFiniteSet(1 .. nArrived) /\ Cardinality(1 .. nArrived) = nArrived
    BY <2>3, FS_Interval
  <2>5. IsFiniteSet(dropped)
    BY <2>2, <2>4, FS_Subset
  <2>6. Cardinality(Held) + Cardinality(Ids(sent)) + Cardinality(dropped) = nArrived
    <3>1. Cardinality(Held \cup Ids(sent) \cup dropped)
            = Cardinality(Held) + Cardinality(Ids(sent)) + Cardinality(dropped)
      BY <2>1, <2>2, <2>5, DisjointUnion
    <3>2. Cardinality(Held \cup Ids(sent) \cup dropped) = nArrived
      BY ONLY <2>2, <2>4
    <3> QED BY ONLY <3>1, <3>2
  <2>7. Cardinality(Held) = nPackets + (IF requeued = None THEN 0 ELSE 1)
    BY <2>1, <2>2 DEF One
  <2>8. nPackets = Len(items) + (IF kept = None THEN 0 ELSE 1)
    BY <2>2 DEF One
  <2>9. Cardinality(Held) + Len(sent) + Cardinality(dropped) = nArrived
    BY <2>1, <2>6
  <2> QED BY <2>2, <2>7, <2>8, <2>9 DEF EveryPacketInOnePlace
<1>4. Init => OrderInv
  BY DEF Init, OrderInv, Line
<1>5. TypeOK /\ TypeOK' /\ OrderInv /\ [Next]_vars => OrderInv'
  BY OrderInvStep
<1> QED BY <1>1, <1>2, <1>3, <1>4, <1>5, TypeCorrect, PTL DEF Spec

=============================================================================
