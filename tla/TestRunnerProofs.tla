-------------------------- MODULE TestRunnerProofs --------------------------
(***************************************************************************)
(* Theorems about TestRunner, for any number of worker threads, of jobs    *)
(* and of launches that fail.                                              *)
(***************************************************************************)
EXTENDS TestRunner, Integers, FiniteSetTheorems, TLAPS

-----------------------------------------------------------------------------
(* Counting the places of a job *)

\* How often a value occurs in a sequence is a number; none means nowhere.
LEMMA CountType ==
  ASSUME NEW S, NEW s \in Seq(S), NEW x
  PROVE  /\ IsFiniteSet({i \in DOMAIN s : s[i] = x})
         /\ Count(s, x) \in Nat
         /\ Count(s, x) = 0 <=> \A i \in DOMAIN s : s[i] # x
<1> DEFINE A == {i \in DOMAIN s : s[i] = x}
<1>1. IsFiniteSet(1 .. Len(s)) /\ DOMAIN s = 1 .. Len(s)
  <2>1. Len(s) \in Nat /\ DOMAIN s = 1 .. Len(s)
    OBVIOUS
  <2> QED BY <2>1, FS_Interval
<1>2. IsFiniteSet(A)
  <2>1. A \subseteq 1 .. Len(s)
    BY <1>1
  <2> HIDE DEF A
  <2> QED BY <1>1, <2>1, FS_Subset
<1>3. A = {} <=> \A i \in DOMAIN s : s[i] # x
  OBVIOUS
<1>4. Count(s, x) = Cardinality(A)
  BY DEF Count
<1> HIDE DEF A
<1>5. Cardinality(A) \in Nat /\ (Cardinality(A) = 0 <=> A = {})
  BY <1>2, FS_CardinalityType, FS_EmptySet
<1> QED BY <1>2, <1>3, <1>4, <1>5 DEF A

LEMMA CountAppend ==
  ASSUME NEW S, NEW s \in Seq(S), NEW e \in S, NEW x
  PROVE  Count(Append(s, e), x) = Count(s, x) + (IF e = x THEN 1 ELSE 0)
<1> DEFINE n == Len(s)
           A == {i \in DOMAIN s : s[i] = x}
           t == Append(s, e)
           B == {i \in DOMAIN t : t[i] = x}
<1>1. /\ n \in Nat /\ DOMAIN s = 1 .. n /\ DOMAIN t = 1 .. n + 1
      /\ t[n + 1] = e /\ \A i \in 1 .. n : t[i] = s[i]
  OBVIOUS
<1>2. IsFiniteSet(A) /\ Count(s, x) \in Nat
  BY CountType
<1>3. Count(s, x) = Cardinality(A) /\ Count(t, x) = Cardinality(B)
  BY DEF Count
<1>4. CASE e = x
  <2>1. B = A \cup {n + 1} /\ n + 1 \notin A
    BY <1>1, <1>4
  <2> HIDE DEF A, B, n, t
  <2>2. Cardinality(B) = Cardinality(A) + 1
    BY <1>2, <2>1, FS_AddElement
  <2> QED BY <1>3, <1>4, <2>2 DEF t
<1>5. CASE e # x
  <2>1. B = A
    BY <1>1, <1>5
  <2> HIDE DEF A, B, t
  <2> QED BY <1>2, <1>3, <1>5, <2>1 DEF t
<1> QED BY <1>4, <1>5

LEMMA CountTail ==
  ASSUME NEW S, NEW s \in Seq(S), s # <<>>, NEW x
  PROVE  Count(Tail(s), x) = Count(s, x) - (IF Head(s) = x THEN 1 ELSE 0)
<1> DEFINE n == Len(s)
           A == {i \in DOMAIN s : s[i] = x}
           t == Tail(s)
           B == {i \in DOMAIN t : t[i] = x}
           f == [i \in A \ {1} |-> i - 1]
<1>1. /\ n \in Nat /\ n > 0 /\ DOMAIN s = 1 .. n /\ DOMAIN t = 1 .. n - 1
      /\ Head(s) = s[1] /\ \A i \in 1 .. n - 1 : t[i] = s[i + 1]
  OBVIOUS
<1>2. IsFiniteSet(A) /\ Count(s, x) \in Nat
  BY CountType
<1>3. Count(s, x) = Cardinality(A) /\ Count(t, x) = Cardinality(B)
  BY DEF Count
<1>4. f \in Bijection(A \ {1}, B)
  <2>1. \A i \in A \ {1} : i \in 2 .. n /\ i - 1 \in B
    BY <1>1
  <2>2. f \in [A \ {1} -> B]
    BY <2>1
  <2>3. \A i, j \in A \ {1} : f[i] = f[j] => i = j
    BY <2>1
  <2>4. \A k \in B : \E i \in A \ {1} : f[i] = k
    <3> SUFFICES ASSUME NEW k \in B PROVE \E i \in A \ {1} : f[i] = k
      OBVIOUS
    <3>1. k + 1 \in A \ {1} /\ f[k + 1] = k
      BY <1>1
    <3> QED BY <3>1
  <2> HIDE DEF f, A, B
  <2> QED BY <2>2, <2>3, <2>4 DEF Bijection, Injection, Surjection, IsInjective
<1>5. 1 \in A <=> Head(s) = x
  BY <1>1
<1> HIDE DEF A, B, f
<1>6. /\ IsFiniteSet(A \ {1})
      /\ Cardinality(A \ {1}) =
           Cardinality(A) - (IF Head(s) = x THEN 1 ELSE 0)
  BY <1>2, <1>3, <1>5, FS_RemoveElement
<1>7. Cardinality(B) = Cardinality(A \ {1})
  BY <1>4, <1>6, FS_Bijection DEF ExistsBijection
<1> QED BY <1>3, <1>6, <1>7

-----------------------------------------------------------------------------
(* Types *)

\* A worker that is past Get and not yet at Put, or died there, has a job in its
\* hand; a break job is put for each worker and no more.
HandsInv ==
  /\ main = "dispatch" => breaks < Cardinality(Workers)
  /\ \A w \in Workers :
       phase[w] \in {"check", "launch", "run", "dead"} => hand[w] \in Jobs

TypeInv == TypeOK /\ HandsInv

\* The constants are numbers, and 0, the break job, is no test.
LEMMA ConstantTypes ==
  /\ total \in Nat /\ Jobs = 1 .. total /\ Jobs \subseteq Nat
  /\ Break \notin Jobs
  /\ Cardinality(Workers) \in Nat /\ Cardinality(Workers) > 0
<1>1. /\ IsFiniteSet(Workers) /\ Workers # {} /\ IsFiniteSet(Jobs)
      /\ Jobs = 1 .. total
  BY JobsAssumption DEF total
<1>2. total \in Nat /\ Cardinality(Workers) \in Nat
  BY <1>1, FS_CardinalityType DEF total
<1>3. Cardinality(Workers) # 0
  BY <1>1, FS_EmptySet
<1> QED BY <1>1, <1>2, <1>3 DEF Break

LEMMA InitTypeInv == Init => TypeInv
<1> SUFFICES ASSUME Init PROVE TypeInv
  OBVIOUS
<1>1. TypeOK
  <2>1. /\ input \in Seq(Jobs \cup {Break}) /\ output \in Seq(Jobs)
        /\ phase \in [Workers -> {"get", "check", "launch", "run", "gone", "dead"}]
        /\ hand \in [Workers -> Jobs \cup {Break}]
    <3>1. input = <<>> /\ output = <<>>
      BY DEF Init
    <3>2. phase = [w \in Workers |-> "get"] /\ hand = [w \in Workers |-> Break]
      BY DEF Init
    <3> QED BY <3>1, <3>2
  <2>2. /\ process \in [Jobs -> [rc : {0, 1, 2, Crashed}, text : BOOLEAN,
                                 file : {"complete", "partial", "missing"}]]
        /\ returncode \in [Jobs -> {0, 1, 2, Crashed}]
        /\ status \in [Jobs -> {"PASS", "FAIL", "VALGR", "CRASH", "SKIP", "CUT",
                                Unknown}]
    <3>1. NotRun \in [rc : {0, 1, 2, Crashed}, text : BOOLEAN,
                     file : {"complete", "partial", "missing"}]
      BY DEF NotRun
    <3> QED BY <3>1 DEF Init
  <2>3. /\ dispatched \in 0 .. total /\ collected \in 0 .. total
        /\ breaks \in 0 .. Cardinality(Workers)
        /\ passed \in Nat /\ skipped \in Nat
        /\ failures \in 0 .. MaxLaunchFailures
    BY ConstantTypes, JobsAssumption DEF Init
  <2>4. main \in {"dispatch", "collect", "done", "died"}
        /\ exitCode \in {0, 1, Running}
    BY DEF Init
  <2>5. /\ threadExit \in BOOLEAN
        /\ cut \subseteq Jobs /\ launched \subseteq Jobs
    BY DEF Init
  <2> QED BY <2>1, <2>2, <2>3, <2>4, <2>5 DEF TypeOK
<1>2. HandsInv
  BY ConstantTypes DEF Init, HandsInv
<1> QED BY <1>1, <1>2 DEF TypeInv

LEMMA NextTypeInv == TypeInv /\ [Next]_vars => TypeInv'
<1> SUFFICES ASSUME TypeInv, [Next]_vars PROVE TypeInv'
  OBVIOUS
<1> USE DEF TypeInv, TypeOK, HandsInv, queues, workers, reports, history
<1>1. CASE Dispatch
  BY <1>1, ConstantTypes DEF Dispatch
<1>2. CASE DispatchBreak
  BY <1>2, ConstantTypes DEF DispatchBreak
<1>3. CASE Collect
  <2>1. PICK j \in Jobs : /\ j = Head(output) /\ output' = Tail(output)
                         /\ status' = [status EXCEPT ![j] = Verdict(j)]
    <3>1. output \in Seq(Jobs) /\ output # <<>>
      BY <1>3 DEF Collect
    <3>2. Head(output) \in Jobs
      BY <3>1
    <3>3. /\ output' = Tail(output)
          /\ status' = [status EXCEPT ![Head(output)] = Verdict(Head(output))]
      BY <1>3 DEF Collect
    <3> QED BY <3>2, <3>3
  <2>2. status' \in [Jobs -> {"PASS", "FAIL", "VALGR", "CRASH", "SKIP", "CUT",
                             Unknown}]
    <3>1. Verdict(j) \in {"PASS", "FAIL", "VALGR", "CRASH", "SKIP", "CUT"}
      BY DEF Verdict
    <3> QED BY <2>1, <3>1
  <2>3. collected' \in 0 .. total /\ passed' \in Nat /\ skipped' \in Nat
        /\ output' \in Seq(Jobs)
    <3>1. collected' \in 0 .. total /\ output' \in Seq(Jobs)
      BY <1>3, ConstantTypes DEF Collect
    <3>2. /\ passed' = passed + 1 \/ passed' = passed + 0
          /\ skipped' = skipped + 1 \/ skipped' = skipped + 0
      BY <1>3 DEF Collect
    <3> QED BY <3>1, <3>2
  <2>4. main' \in {"collect", "died"} /\ exitCode' \in {0, 1, Running}
    BY <1>3 DEF Collect
  <2>5. UNCHANGED <<dispatched, breaks, input, workers, threadExit, cut, process,
                    returncode, history>>
    BY <1>3 DEF Collect
  <2> QED BY <2>2, <2>3, <2>4, <2>5
<1>4. CASE Join
  BY <1>4 DEF Join, ExitStatus
<1>5. CASE Interrupt
  BY <1>5 DEF Interrupt
<1>6. ASSUME NEW w \in Workers, Get(w) PROVE TypeInv'
  BY <1>6, ConstantTypes DEF Get
<1>7. ASSUME NEW w \in Workers, ReturnCut(w) PROVE TypeInv'
  BY <1>7 DEF ReturnCut, Put
<1>8. ASSUME NEW w \in Workers, ReturnSkipped(w) PROVE TypeInv'
  BY <1>8 DEF ReturnSkipped, Put
<1>9. ASSUME NEW w \in Workers, DecideToRun(w) PROVE TypeInv'
  BY <1>9 DEF DecideToRun
<1>10. ASSUME NEW w \in Workers, Launch(w) PROVE TypeInv'
  BY <1>10 DEF Launch
<1>11. ASSUME NEW w \in Workers, LaunchFails(w) PROVE TypeInv'
  BY <1>11, JobsAssumption DEF LaunchFails
<1>12. ASSUME NEW w \in Workers, Finish(w) PROVE TypeInv'
  BY <1>12 DEF Finish, Put, Outcomes, Returncode
<1>13. CASE UNCHANGED vars
  BY <1>13 DEF vars
<1> QED
  BY <1>1, <1>2, <1>3, <1>4, <1>5, <1>6, <1>7, <1>8, <1>9, <1>10, <1>11, <1>12,
     <1>13 DEF Next, MainStep, WorkerStep

-----------------------------------------------------------------------------
(* One place for each job *)

Holders(j) == {w \in Workers : Holds(w, j)}
Told(j)    == IF status[j] = Unknown THEN 0 ELSE 1

\* The four numbers that Places adds up are numbers.
LEMMA PlacesType ==
  ASSUME TypeInv, NEW j
  PROVE  /\ Count(input, j) \in Nat /\ Count(output, j) \in Nat
         /\ IsFiniteSet(Holders(j)) /\ Cardinality(Holders(j)) \in Nat
         /\ Told(j) \in {0, 1}
         /\ Places(j) = Count(input, j) + Count(output, j)
                        + Cardinality(Holders(j)) + Told(j)
<1>1. Count(input, j) \in Nat /\ Count(output, j) \in Nat
  BY CountType DEF TypeInv, TypeOK
<1>2. IsFiniteSet(Holders(j))
  <2>1. Holders(j) \subseteq Workers
    BY DEF Holders
  <2> QED BY <2>1, JobsAssumption, FS_Subset
<1>3. Cardinality(Holders(j)) \in Nat
  BY <1>2, FS_CardinalityType
<1>4. Told(j) \in {0, 1}
  BY DEF Told
<1> QED BY <1>1, <1>2, <1>3, <1>4 DEF Places, Told, Holders

\* A job that is in the hands of a worker is nowhere else: it has been
\* dispatched, is in neither queue, is not reported, and no other worker has it.
LEMMA HeldIsNowhereElse ==
  ASSUME TypeInv, JobsInOnePlace, NEW w \in Workers, Holds(w, hand[w])
  PROVE  /\ hand[w] \in Jobs
         /\ hand[w] <= dispatched
         /\ status[hand[w]] = Unknown
         /\ \A i \in DOMAIN input : input[i] # hand[w]
         /\ \A i \in DOMAIN output : output[i] # hand[w]
         /\ \A u \in Workers : Holds(u, hand[w]) => u = w
<1> DEFINE j == hand[w]
<1>1. j \in Jobs
  BY DEF Holds, TypeInv, HandsInv
<1>2. /\ w \in Holders(j) /\ IsFiniteSet(Holders(j))
      /\ Cardinality(Holders(j)) \in Nat
      /\ Count(input, j) \in Nat /\ Count(output, j) \in Nat
      /\ Told(j) \in {0, 1}
      /\ Places(j) = Count(input, j) + Count(output, j)
                     + Cardinality(Holders(j)) + Told(j)
  BY PlacesType DEF Holders
<1>3. Cardinality(Holders(j)) > 0
  <2>1. Holders(j) # {}
    BY <1>2
  <2> QED BY <1>2, <2>1, FS_EmptySet
<1>4. Places(j) = IF j <= dispatched THEN 1 ELSE 0
  BY <1>1 DEF JobsInOnePlace
<1> HIDE DEF j
<1>5. /\ j <= dispatched /\ Count(input, j) = 0 /\ Count(output, j) = 0
      /\ Cardinality(Holders(j)) = 1 /\ Told(j) = 0
  BY <1>2, <1>3, <1>4
<1>6. /\ \A i \in DOMAIN input : input[i] # j
      /\ \A i \in DOMAIN output : output[i] # j
  BY <1>5, CountType DEF TypeInv, TypeOK
<1>7. \A u \in Holders(j) : u = w
  BY <1>2, <1>5, FS_Singleton
<1> QED BY <1>1, <1>5, <1>6, <1>7 DEF j, Holders, Told

\* A job that comes out of the output queue has not been reported yet.
LEMMA ReturnedIsUnreported ==
  ASSUME TypeInv, JobsInOnePlace, output # <<>>
  PROVE  /\ Head(output) \in Jobs /\ status[Head(output)] = Unknown
         /\ Head(output) <= dispatched
<1> DEFINE j == Head(output)
<1>1. /\ output \in Seq(Jobs) /\ j \in Jobs /\ 1 \in DOMAIN output
      /\ output[1] = j
  BY DEF TypeInv, TypeOK
<1>2. Count(output, j) # 0
  BY <1>1, CountType
<1>3. /\ Count(input, j) \in Nat /\ Count(output, j) \in Nat
      /\ Cardinality(Holders(j)) \in Nat /\ Told(j) \in {0, 1}
      /\ Places(j) = Count(input, j) + Count(output, j)
                     + Cardinality(Holders(j)) + Told(j)
  BY PlacesType
<1>4. Places(j) = IF j <= dispatched THEN 1 ELSE 0
  BY <1>1 DEF JobsInOnePlace
<1>5. j <= dispatched /\ Told(j) = 0
  BY <1>2, <1>3, <1>4
<1> QED BY <1>1, <1>5 DEF Told

\* The job a worker takes is in its hands, and in those of no other.
LEMMA TakesOneJob ==
  ASSUME TypeInv, NEW w \in Workers, Get(w), NEW j \in Jobs
  PROVE  /\ Head(input) # j => Holders(j)' = Holders(j)
         /\ Head(input) = j => Holders(j)' = Holders(j) \cup {w}
                              /\ w \notin Holders(j)
<1>1. /\ phase[w] = "get" /\ hand' = [hand EXCEPT ![w] = Head(input)]
      /\ phase' = [phase EXCEPT ![w] =
                     IF Head(input) = Break THEN "gone" ELSE "check"]
      /\ phase \in [Workers -> {"get", "check", "launch", "run", "gone", "dead"}]
      /\ hand \in [Workers -> Jobs \cup {Break}]
  BY DEF Get, TypeInv, TypeOK
<1>2. w \notin Holders(j)
  BY <1>1 DEF Holders, Holds
<1>3. \A u \in Workers : u # w => (Holds(u, j)' <=> Holds(u, j))
  BY <1>1 DEF Holds
<1>4. Holds(w, j)' <=> Head(input) = j
  BY <1>1, ConstantTypes DEF Holds
<1> QED BY <1>2, <1>3, <1>4 DEF Holders

\* The job it hands back leaves its hands, and no other job does.
LEMMA PutsOneJob ==
  ASSUME TypeInv, NEW w \in Workers, phase[w] \in {"check", "run"},
         phase' = [phase EXCEPT ![w] = "get"], UNCHANGED hand, NEW j \in Jobs
  PROVE  /\ hand[w] # j => Holders(j)' = Holders(j)
         /\ hand[w] = j => Holders(j)' = Holders(j) \ {w} /\ w \in Holders(j)
<1>1. phase \in [Workers -> {"get", "check", "launch", "run", "gone", "dead"}]
  BY DEF TypeInv, TypeOK
<1>2. \A u \in Workers : u # w => (Holds(u, j)' <=> Holds(u, j))
  BY <1>1 DEF Holds
<1>3. ~Holds(w, j)' /\ (Holds(w, j) <=> hand[w] = j)
  BY <1>1 DEF Holds
<1> QED BY <1>2, <1>3 DEF Holders

\* Each step moves a job from one place to the next, or leaves all of them where
\* they are.
LEMMA NextJobsInOnePlace ==
  TypeInv /\ JobsInOnePlace /\ [Next]_vars => JobsInOnePlace'
<1> SUFFICES ASSUME TypeInv, JobsInOnePlace, [Next]_vars, NEW j \in Jobs
             PROVE  Places(j)' = IF j <= dispatched' THEN 1 ELSE 0
  BY DEF JobsInOnePlace
<1> DEFINE inn == Count(input, j)
           out == Count(output, j)
           held == Cardinality(Holders(j))
<1>1. /\ inn \in Nat /\ out \in Nat /\ held \in Nat /\ Told(j) \in {0, 1}
      /\ IsFiniteSet(Holders(j))
      /\ Places(j) = inn + out + held + Told(j)
      /\ Places(j) = IF j <= dispatched THEN 1 ELSE 0
      /\ dispatched \in Nat /\ j \in Nat /\ j > 0
  BY PlacesType, ConstantTypes DEF JobsInOnePlace, TypeInv, TypeOK
<1>2. TypeInv'
  BY NextTypeInv
<1>3. Places(j)' = inn' + out' + held' + Told(j)'
  BY DEF Places, Told, Holders
<1>4. /\ input \in Seq(Jobs \cup {Break}) /\ output \in Seq(Jobs)
      /\ hand \in [Workers -> Jobs \cup {Break}]
  BY DEF TypeInv, TypeOK
<1> USE DEF queues, workers, reports, history
<1>5. ASSUME UNCHANGED <<workers, output, status>>, NEW e \in Jobs \cup {Break},
             input' = Append(input, e),
             dispatched' = dispatched + (IF e = Break THEN 0 ELSE 1),
             e # Break => e = dispatched + 1
      PROVE  Places(j)' = IF j <= dispatched' THEN 1 ELSE 0
  <2>1. inn' = inn + (IF e = j THEN 1 ELSE 0)
    BY <1>4, <1>5, CountAppend
  <2>2. out' = out /\ held' = held /\ Told(j)' = Told(j)
    BY <1>5 DEF Holders, Holds, Told
  <2>3. e = j => e # Break
    BY ConstantTypes
  <2> HIDE DEF inn, out, held
  <2>4. CASE e = Break
    <3>1. inn' = inn /\ dispatched' = dispatched
      BY <1>1, <1>5, <2>1, <2>3, <2>4
    <3> QED BY <1>1, <1>3, <2>2, <3>1
  <2>5. CASE e # Break
    <3>1. dispatched' = dispatched + 1 /\ e = dispatched + 1
      BY <1>5, <2>5
    <3>2. CASE e = j
      BY <1>1, <1>3, <2>1, <2>2, <3>1, <3>2
    <3>3. CASE e # j
      BY <1>1, <1>3, <2>1, <2>2, <3>1, <3>3
    <3> QED BY <3>2, <3>3
  <2> QED BY <2>4, <2>5
<1>6. CASE Dispatch
  <2>1. dispatched + 1 \in Jobs
    BY <1>1, <1>6, ConstantTypes DEF Dispatch, TypeInv, TypeOK
  <2> QED BY <1>5, <1>6, <2>1, ConstantTypes DEF Dispatch
<1>7. CASE DispatchBreak
  <2>1. /\ input' = Append(input, Break) /\ dispatched' = dispatched + 0
        /\ UNCHANGED <<workers, output, status>>
    BY <1>1, <1>7 DEF DispatchBreak
  <2> QED BY <1>5, <2>1
<1>8. CASE Collect
  <2> DEFINE k == Head(output)
  <2>1. /\ output # <<>> /\ output' = Tail(output)
        /\ status' = [status EXCEPT ![k] = Verdict(k)]
        /\ UNCHANGED <<workers, input, dispatched>>
    BY <1>8 DEF Collect
  <2>2. k \in Jobs /\ status[k] = Unknown
    BY <2>1, ReturnedIsUnreported
  <2>3. out' = out - (IF k = j THEN 1 ELSE 0)
    BY <1>4, <2>1, CountTail
  <2>4. inn' = inn /\ held' = held /\ dispatched' = dispatched
    BY <2>1 DEF Holders, Holds
  <2>5. Told(j)' = Told(j) + (IF k = j THEN 1 ELSE 0)
    <3>1. Verdict(k) # Unknown
      BY DEF Verdict, Unknown
    <3>2. status'[j] = IF k = j THEN Verdict(k) ELSE status[j]
      BY <2>1, <2>2 DEF TypeInv, TypeOK
    <3> HIDE DEF k
    <3> QED BY <2>2, <3>1, <3>2 DEF Told
  <2> HIDE DEF inn, out, held, k
  <2> QED BY <1>1, <1>3, <2>3, <2>4, <2>5
<1>9. ASSUME NEW w \in Workers, Get(w)
      PROVE  Places(j)' = IF j <= dispatched' THEN 1 ELSE 0
  <2> DEFINE k == Head(input)
  <2>1. input # <<>> /\ input' = Tail(input)
        /\ UNCHANGED <<output, status, dispatched>>
    BY <1>9 DEF Get
  <2>2. inn' = inn - (IF k = j THEN 1 ELSE 0)
    BY <1>4, <2>1, CountTail
  <2>3. out' = out /\ Told(j)' = Told(j) /\ dispatched' = dispatched
    BY <2>1 DEF Told
  <2>4. held' = held + (IF k = j THEN 1 ELSE 0)
    <3>1. CASE k # j
      BY <1>1, <1>9, <3>1, TakesOneJob
    <3>2. CASE k = j
      <4>1. Holders(j)' = Holders(j) \cup {w} /\ w \notin Holders(j)
        BY <1>9, <3>2, TakesOneJob
      <4>2. Cardinality(Holders(j) \cup {w}) = Cardinality(Holders(j)) + 1
        BY ONLY <1>1, <4>1, FS_AddElement
      <4> QED BY <3>2, <4>1, <4>2
    <3> QED BY <3>1, <3>2
  <2> HIDE DEF inn, out, held, k
  <2> QED BY <1>1, <1>3, <2>2, <2>3, <2>4
<1>10. ASSUME NEW w \in Workers, phase[w] \in {"check", "run"}, Put(w),
              UNCHANGED <<hand, input, status, dispatched>>
       PROVE  Places(j)' = IF j <= dispatched' THEN 1 ELSE 0
  <2> DEFINE k == hand[w]
  <2>1. k \in Jobs
    BY <1>10 DEF TypeInv, HandsInv
  <2>2. output' = Append(output, k) /\ phase' = [phase EXCEPT ![w] = "get"]
    BY <1>10 DEF Put
  <2>3. out' = out + (IF k = j THEN 1 ELSE 0)
    BY <1>4, <2>1, <2>2, CountAppend
  <2>4. inn' = inn /\ Told(j)' = Told(j) /\ dispatched' = dispatched
    BY <1>10 DEF Told
  <2>5. held' = held - (IF k = j THEN 1 ELSE 0)
    <3>1. CASE k # j
      <4>1. Holders(j)' = Holders(j)
        BY <1>10, <2>2, <3>1, PutsOneJob
      <4> QED BY <1>1, <3>1, <4>1
    <3>2. CASE k = j
      <4>1. Holders(j)' = Holders(j) \ {w} /\ w \in Holders(j)
        BY <1>10, <2>2, <3>2, PutsOneJob
      <4>2. Cardinality(Holders(j) \ {w}) = Cardinality(Holders(j)) - 1
        BY ONLY <1>1, <4>1, FS_RemoveElement
      <4> QED BY <3>2, <4>1, <4>2
    <3> QED BY <3>1, <3>2
  <2> HIDE DEF inn, out, held, k
  <2> QED BY <1>1, <1>3, <2>3, <2>4, <2>5
<1>11. ASSUME NEW w \in Workers, ReturnCut(w) \/ ReturnSkipped(w) \/ Finish(w)
       PROVE  Places(j)' = IF j <= dispatched' THEN 1 ELSE 0
  BY <1>10, <1>11 DEF ReturnCut, ReturnSkipped, Finish
<1>12. ASSUME UNCHANGED <<input, output, status, dispatched, hand>>,
              \A w \in Workers :
                phase'[w] \in {"check", "launch", "run", "dead"} <=>
                  phase[w] \in {"check", "launch", "run", "dead"}
       PROVE  Places(j)' = IF j <= dispatched' THEN 1 ELSE 0
  <2>1. Holders(j)' = Holders(j)
    BY <1>12 DEF Holders, Holds
  <2> QED BY <1>1, <1>3, <1>12, <2>1 DEF Told
<1>13. ASSUME NEW w \in Workers, DecideToRun(w) \/ Launch(w) \/ LaunchFails(w)
       PROVE  Places(j)' = IF j <= dispatched' THEN 1 ELSE 0
  <2>1. UNCHANGED <<input, output, status, dispatched, hand>>
    BY <1>13 DEF DecideToRun, Launch, LaunchFails
  <2>2. phase[w] \in {"check", "launch"}
        /\ \E p \in {"launch", "run", "dead"} : phase' = [phase EXCEPT ![w] = p]
    BY <1>13 DEF DecideToRun, Launch, LaunchFails
  <2>3. \A u \in Workers :
          phase'[u] \in {"check", "launch", "run", "dead"} <=>
            phase[u] \in {"check", "launch", "run", "dead"}
    BY <2>2 DEF TypeInv, TypeOK
  <2> QED BY <1>12, <2>1, <2>3
<1>14. CASE Join \/ Interrupt \/ UNCHANGED vars
  <2>1. UNCHANGED <<input, output, status, dispatched, hand, phase>>
    BY <1>14 DEF Join, Interrupt, vars
  <2> QED BY <1>12, <2>1
<1> QED
  BY <1>6, <1>7, <1>8, <1>9, <1>11, <1>13, <1>14 DEF Next, MainStep, WorkerStep

LEMMA InitJobsInOnePlace == Init => JobsInOnePlace
<1> SUFFICES ASSUME Init, NEW j \in Jobs
             PROVE  Places(j) = IF j <= dispatched THEN 1 ELSE 0
  BY DEF JobsInOnePlace
<1>1. ~(j <= dispatched)
  BY ConstantTypes DEF Init
<1>2. Count(input, j) = 0 /\ Count(output, j) = 0
  <2>1. /\ input \in Seq(Jobs) /\ \A i \in DOMAIN input : input[i] # j
        /\ output \in Seq(Jobs) /\ \A i \in DOMAIN output : output[i] # j
    BY DEF Init
  <2>2. Count(input, j) = 0
    BY <2>1, CountType
  <2>3. Count(output, j) = 0
    BY <2>1, CountType
  <2> QED BY <2>2, <2>3
<1>3. Holders(j) = {} /\ Told(j) = 0
  BY DEF Init, Holders, Holds, Told
<1>4. Cardinality(Holders(j)) = 0
  BY <1>3, FS_EmptySet
<1> QED BY <1>1, <1>2, <1>3, <1>4 DEF Places, Holders, Told

-----------------------------------------------------------------------------
(* The stages of a job *)

\* Nothing has been done with the job.
Fresh(j) == j \notin launched /\ j \notin cut

\* The job has been handed back: cut short, skipped, or run to the end, and then
\* with the returncode of its process.
Returned(j) ==
  \/ j \in cut /\ j \notin launched /\ threadExit
  \/ j \in Skips /\ Fresh(j)
  \/ /\ j \in launched /\ j \notin cut /\ j \notin Skips
     /\ process[j] \in Outcomes /\ returncode[j] = Returncode(process[j])

InHand(w) ==
  /\ phase[w] = "check" => Fresh(hand[w])
  /\ phase[w] = "launch" => Fresh(hand[w]) /\ hand[w] \notin Skips
  /\ phase[w] = "run" => hand[w] \in launched \ (cut \cup Skips)

Reported(j) == status[j] # Unknown => Returned(j) /\ status[j] = Verdict(j)

\* What was done with a job follows from where it is.
StagesInv ==
  /\ \A i \in DOMAIN input : input[i] \in Jobs => Fresh(input[i])
  /\ \A j \in Jobs : j > dispatched => Fresh(j)
  /\ \A w \in Workers : InHand(w)
  /\ \A i \in DOMAIN output : Returned(output[i])
  /\ \A j \in Jobs : Reported(j)

\* A job that a step does not touch stays at its stage.
LEMMA UntouchedJob ==
  ASSUME NEW j,
         j \in launched' <=> j \in launched, j \in cut' <=> j \in cut,
         process'[j] = process[j], returncode'[j] = returncode[j],
         threadExit => threadExit'
  PROVE  /\ Fresh(j) => Fresh(j)'
         /\ Returned(j) => Returned(j)'
         /\ Verdict(j)' = Verdict(j)
BY DEF Fresh, Returned, Verdict

\* What a worker does with the job in its hands touches no other job, and that
\* job is nowhere else, so that all that is said of the others stays true.
LEMMA WorkersDoNotMeddle ==
  ASSUME TypeInv, JobsInOnePlace, StagesInv,
         NEW w \in Workers, NEW k, hand[w] = k, Holds(w, k),
         UNCHANGED <<input, dispatched, status, hand, threadExit>>,
         \A u \in Workers \ {w} : phase'[u] = phase[u],
         \A j \in Jobs \ {k} :
           /\ j \in launched' <=> j \in launched
           /\ j \in cut' <=> j \in cut
           /\ process'[j] = process[j] /\ returncode'[j] = returncode[j],
         InHand(w)',
         \/ output' = output
         \/ output' = Append(output, k) /\ Returned(k)'
  PROVE  StagesInv'
<1>1. /\ k \in Jobs /\ k <= dispatched /\ status[k] = Unknown
      /\ \A i \in DOMAIN input : input[i] # k
      /\ \A i \in DOMAIN output : output[i] # k
      /\ \A u \in Workers : Holds(u, k) => u = w
  BY HeldIsNowhereElse
<1>2. /\ output \in Seq(Jobs) /\ dispatched \in Nat /\ Jobs \subseteq Nat
  BY ConstantTypes DEF TypeInv, TypeOK
<1>3. ASSUME NEW j \in Jobs \ {k}
      PROVE  /\ Fresh(j) => Fresh(j)'
             /\ Returned(j) => Returned(j)'
             /\ Verdict(j)' = Verdict(j)
  BY <1>3, UntouchedJob
<1>4. ASSUME NEW i \in DOMAIN input, NEW j \in Jobs, input[i] = j
      PROVE  Fresh(j)'
  BY <1>1, <1>3, <1>4 DEF StagesInv
<1>5. ASSUME NEW j \in Jobs, j > dispatched
      PROVE  Fresh(j)'
  BY <1>1, <1>2, <1>3, <1>5 DEF StagesInv
<1>6. ASSUME NEW u \in Workers
      PROVE  InHand(u)'
  <2>1. CASE u # w /\ phase[u] \in {"check", "launch", "run"}
    <3>1. hand[u] \in Jobs \ {k}
      BY <1>1, <2>1 DEF Holds, TypeInv, HandsInv
    <3>2. /\ hand[u] \in launched' <=> hand[u] \in launched
          /\ hand[u] \in cut' <=> hand[u] \in cut
      BY <3>1
    <3>3. InHand(u) /\ hand'[u] = hand[u] /\ phase'[u] = phase[u]
      BY <2>1 DEF StagesInv
    <3> QED BY <3>2, <3>3 DEF InHand, Fresh
  <2>2. CASE u # w /\ phase[u] \notin {"check", "launch", "run"}
    BY <2>2 DEF InHand
  <2>3. CASE u = w
    BY <2>3
  <2> QED BY <2>1, <2>2, <2>3
<1>7. ASSUME NEW i \in DOMAIN output', NEW j, output'[i] = j
      PROVE  Returned(j)'
  <2>1. ASSUME NEW h \in DOMAIN output, output[h] = j
        PROVE  Returned(j)'
    <3>1. j \in Jobs \ {k} /\ Returned(j)
      BY <1>1, <1>2, <2>1 DEF StagesInv
    <3> QED BY <1>3, <3>1
  <2>2. CASE output' = output
    BY <1>7, <2>1, <2>2
  <2>3. CASE output' = Append(output, k) /\ Returned(k)'
    <3>1. /\ DOMAIN output' = 1 .. Len(output) + 1
          /\ DOMAIN output = 1 .. Len(output)
          /\ Len(output) \in Nat /\ output'[Len(output) + 1] = k
          /\ \A h \in DOMAIN output : output'[h] = output[h]
      BY <1>1, <1>2, <2>3
    <3>2. i = Len(output) + 1 \/ i \in DOMAIN output
      BY <3>1
    <3> QED BY <1>7, <2>1, <2>3, <3>1, <3>2
  <2> QED BY <2>2, <2>3
<1>8. ASSUME NEW j \in Jobs
      PROVE  Reported(j)'
  BY <1>1, <1>3 DEF StagesInv, Reported
<1> QED
  <2>1. \A i \in DOMAIN input' : input'[i] \in Jobs =>
          input'[i] \notin launched' /\ input'[i] \notin cut'
    BY <1>4 DEF Fresh
  <2>2. \A i \in DOMAIN output' : Returned(output[i])'
    BY <1>7 DEF Returned, Fresh
  <2> QED BY <1>5, <1>6, <1>8, <2>1, <2>2 DEF StagesInv, Fresh

LEMMA InitStagesInv == Init => StagesInv
BY DEF Init, StagesInv, Fresh, InHand, Reported

LEMMA NextStagesInv ==
  TypeInv /\ JobsInOnePlace /\ StagesInv /\ [Next]_vars => StagesInv'
<1> SUFFICES ASSUME TypeInv, JobsInOnePlace, StagesInv, [Next]_vars
             PROVE  StagesInv'
  OBVIOUS
<1> USE DEF queues, workers, reports, history
<1>1. /\ input \in Seq(Jobs \cup {Break}) /\ output \in Seq(Jobs)
      /\ phase \in [Workers -> {"get", "check", "launch", "run", "gone", "dead"}]
      /\ hand \in [Workers -> Jobs \cup {Break}]
      /\ dispatched \in Nat /\ Jobs = 1 .. total /\ Break \notin Jobs
      /\ total \in Nat
  BY ConstantTypes DEF TypeInv, TypeOK
<1>2. ASSUME UNCHANGED <<launched, cut, process, returncode>>,
             threadExit => threadExit'
      PROVE  \A j : /\ Fresh(j) => Fresh(j)'
                   /\ Returned(j) => Returned(j)'
                   /\ Verdict(j)' = Verdict(j)
  BY <1>2, UntouchedJob
<1>3. ASSUME UNCHANGED <<launched, cut, process, returncode, output, status,
                         workers, threadExit>>,
             NEW e \in Jobs \cup {Break}, input' = Append(input, e),
             \/ e = Break /\ dispatched' = dispatched
             \/ e = dispatched + 1 /\ dispatched' = dispatched + 1
      PROVE  StagesInv'
  <2>1. /\ DOMAIN input' = 1 .. Len(input) + 1 /\ DOMAIN input = 1 .. Len(input)
        /\ Len(input) \in Nat /\ input'[Len(input) + 1] = e
        /\ \A i \in DOMAIN input : input'[i] = input[i]
    BY <1>1, <1>3
  <2>2. e \in Jobs => Fresh(e)
    BY <1>1, <1>3 DEF StagesInv
  <2>3. \A i \in DOMAIN input' : input'[i] \in Jobs => Fresh(input[i])'
    <3> SUFFICES ASSUME NEW i \in DOMAIN input', input'[i] \in Jobs
                 PROVE  input'[i] \notin launched' /\ input'[i] \notin cut'
      BY DEF Fresh
    <3>1. i = Len(input) + 1 \/ i \in DOMAIN input
      BY <2>1
    <3> QED BY <1>3, <2>1, <2>2, <3>1 DEF StagesInv, Fresh
  <2>4. \A j \in Jobs : j > dispatched' => Fresh(j)'
    BY <1>1, <1>3 DEF StagesInv, Fresh
  <2>5. /\ \A w \in Workers : InHand(w)'
        /\ \A i \in DOMAIN output' : Returned(output[i])'
        /\ \A j \in Jobs : Reported(j)'
    BY <1>3 DEF StagesInv, InHand, Returned, Reported, Verdict, Fresh
  <2> QED BY <2>3, <2>4, <2>5 DEF StagesInv
<1>4. CASE Dispatch
  <2>1. dispatched + 1 \in Jobs
    BY <1>1, <1>4 DEF Dispatch
  <2> QED BY <1>3, <1>4, <2>1 DEF Dispatch
<1>5. CASE DispatchBreak
  BY <1>3, <1>5 DEF DispatchBreak
<1>6. CASE Collect
  <2>1. PICK k : k = Head(output)
    OBVIOUS
  <2>2. /\ output # <<>> /\ output' = Tail(output)
        /\ status' = [status EXCEPT ![k] = Verdict(k)]
        /\ UNCHANGED <<dispatched, input, workers, threadExit, cut, process,
                       returncode, launched>>
    BY <1>6, <2>1 DEF Collect
  <2>3. k \in Jobs /\ Returned(k)
    BY <1>1, <2>1, <2>2 DEF StagesInv
  <2>4. \A i \in DOMAIN output' : Returned(output[i])'
    <3>1. \A i \in DOMAIN output' : i + 1 \in DOMAIN output
                                    /\ output'[i] = output[i + 1]
      BY <1>1, <2>2
    <3> QED BY <2>2, <3>1 DEF StagesInv, Returned, Fresh
  <2>5. \A j \in Jobs : Reported(j)'
    <3> SUFFICES ASSUME NEW j \in Jobs, status'[j] # Unknown
                 PROVE  Returned(j)' /\ status'[j] = Verdict(j)'
      BY DEF Reported
    <3>1. Verdict(j)' = Verdict(j) /\ (Returned(j) => Returned(j)')
      BY <2>2 DEF Verdict, Returned, Fresh
    <3>2. CASE j = k
      <4>1. status'[j] = Verdict(j)
        BY <2>2, <2>3, <3>2 DEF TypeInv, TypeOK
      <4> QED BY <2>3, <3>1, <3>2, <4>1
    <3>3. CASE j # k
      <4>1. status'[j] = status[j]
        BY <2>2, <2>3, <3>3 DEF TypeInv, TypeOK
      <4> QED BY <3>1, <4>1 DEF StagesInv, Reported
    <3> QED BY <3>2, <3>3
  <2>6. /\ \A i \in DOMAIN input' : input'[i] \in Jobs => Fresh(input[i])'
        /\ \A j \in Jobs : j > dispatched' => Fresh(j)'
        /\ \A w \in Workers : InHand(w)'
    BY <2>2 DEF StagesInv, InHand, Fresh
  <2> QED BY <2>4, <2>5, <2>6 DEF StagesInv
<1>7. CASE Join \/ Interrupt \/ UNCHANGED vars
  <2>1. UNCHANGED <<dispatched, input, output, workers, cut, process, returncode,
                    launched, status>>
        /\ (threadExit => threadExit')
    BY <1>7 DEF Join, Interrupt, vars
  <2> QED BY <2>1 DEF StagesInv, InHand, Reported, Returned, Verdict, Fresh
<1>8. ASSUME NEW w \in Workers, Get(w) PROVE StagesInv'
  <2>1. PICK k : k = Head(input)
    OBVIOUS
  <2>2. /\ input # <<>> /\ input' = Tail(input)
        /\ hand' = [hand EXCEPT ![w] = k]
        /\ phase' = [phase EXCEPT ![w] = IF k = Break THEN "gone" ELSE "check"]
        /\ UNCHANGED <<dispatched, output, threadExit, cut, process, returncode,
                       status, launched>>
    BY <1>8, <2>1 DEF Get
  <2>3. k \in Jobs \cup {Break} /\ (k \in Jobs => Fresh(k))
    BY <1>1, <2>1, <2>2 DEF StagesInv
  <2>4. \A i \in DOMAIN input' : input'[i] \in Jobs => Fresh(input[i])'
    <3>1. \A i \in DOMAIN input' : i + 1 \in DOMAIN input
                                   /\ input'[i] = input[i + 1]
      BY <1>1, <2>2
    <3> QED BY <2>2, <3>1 DEF StagesInv, Fresh
  <2>5. ASSUME NEW u \in Workers PROVE InHand(u)'
    <3>1. CASE u = w
      <4>1. /\ hand'[u] = k /\ phase'[u] \in {"gone", "check"}
            /\ phase'[u] = "check" => k \in Jobs
        BY <1>1, <2>2, <2>3, <3>1
      <4> QED BY <2>2, <2>3, <4>1 DEF InHand, Fresh
    <3>2. CASE u # w
      <4>1. hand'[u] = hand[u] /\ phase'[u] = phase[u]
        BY <1>1, <2>2, <3>2
      <4> QED BY <2>2, <4>1 DEF StagesInv, InHand, Fresh
    <3> QED BY <3>1, <3>2
  <2>6. /\ \A j \in Jobs : j > dispatched' => Fresh(j)'
        /\ \A i \in DOMAIN output' : Returned(output[i])'
        /\ \A j \in Jobs : Reported(j)'
    BY <2>2 DEF StagesInv, Returned, Reported, Verdict, Fresh
  <2> QED BY <2>4, <2>5, <2>6 DEF StagesInv
<1>9. ASSUME NEW w \in Workers,
             \/ ReturnCut(w) \/ ReturnSkipped(w) \/ DecideToRun(w)
             \/ Launch(w) \/ LaunchFails(w) \/ Finish(w)
      PROVE  StagesInv'
  <2>1. PICK k : k = hand[w]
    OBVIOUS
  <2>2. phase[w] \in {"check", "launch", "run"} /\ Holds(w, k)
    BY <1>9, <2>1 DEF ReturnCut, ReturnSkipped, DecideToRun, Launch, LaunchFails,
                      Finish, Holds
  <2>3. InHand(w) /\ k \in Jobs
    BY <2>1, <2>2 DEF StagesInv, TypeInv, HandsInv
  <2>4. UNCHANGED <<input, dispatched, status, hand, threadExit>>
    BY <1>9 DEF ReturnCut, ReturnSkipped, DecideToRun, Launch, LaunchFails, Finish,
                Put
  <2>5. \A u \in Workers \ {w} : phase'[u] = phase[u]
    BY <1>1, <1>9 DEF ReturnCut, ReturnSkipped, DecideToRun, Launch, LaunchFails,
                      Finish, Put
  <2>6. \A j \in Jobs \ {k} :
          /\ j \in launched' <=> j \in launched
          /\ j \in cut' <=> j \in cut
          /\ process'[j] = process[j] /\ returncode'[j] = returncode[j]
    BY <1>9, <2>1 DEF ReturnCut, ReturnSkipped, DecideToRun, Launch, LaunchFails,
                      Finish, Put, TypeInv, TypeOK
  <2>7. CASE ReturnCut(w) \/ ReturnSkipped(w) \/ Finish(w)
    <3>1. /\ output' = Append(output, k) /\ phase' = [phase EXCEPT ![w] = "get"]
      BY <2>1, <2>7 DEF ReturnCut, ReturnSkipped, Finish, Put
    <3>2. InHand(w)'
      BY <1>1, <3>1 DEF InHand
    <3>3. Returned(k)'
      <4>1. CASE ReturnCut(w)
        BY <2>1, <2>3, <4>1 DEF ReturnCut, InHand, Fresh, Returned
      <4>2. CASE ReturnSkipped(w)
        BY <2>1, <2>3, <4>2 DEF ReturnSkipped, InHand, Fresh, Returned
      <4>3. CASE Finish(w)
        <5>1. /\ k \in launched /\ k \notin cut /\ k \notin Skips
              /\ UNCHANGED <<launched, cut>>
          BY <2>1, <2>3, <4>3 DEF Finish, InHand
        <5>2. PICK o \in Outcomes :
                /\ process' = [process EXCEPT ![k] = o]
                /\ returncode' = [returncode EXCEPT ![k] = Returncode(o)]
          BY <2>1, <4>3 DEF Finish
        <5>3. process'[k] = o /\ returncode'[k] = Returncode(o)
          BY <2>3, <5>2 DEF TypeInv, TypeOK
        <5>4. Returncode(process[k])' = Returncode(o)
          BY <5>3 DEF Returncode
        <5> QED BY <5>1, <5>3, <5>4 DEF Returned
      <4> QED BY <2>7, <4>1, <4>2, <4>3
    <3> QED BY <2>1, <2>2, <2>4, <2>5, <2>6, <3>1, <3>2, <3>3, WorkersDoNotMeddle
  <2>8. CASE DecideToRun(w) \/ Launch(w) \/ LaunchFails(w)
    <3>1. output' = output /\ hand' = hand /\ cut' = cut
      BY <2>8 DEF DecideToRun, Launch, LaunchFails
    <3>2. InHand(w)'
      <4>1. CASE DecideToRun(w)
        <5>1. phase'[w] = "launch" /\ launched' = launched
          BY <1>1, <4>1 DEF DecideToRun
        <5> QED BY <2>3, <3>1, <4>1, <5>1 DEF DecideToRun, InHand, Fresh
      <4>2. CASE Launch(w)
        <5>1. phase'[w] = "run" /\ launched' = launched \cup {hand[w]}
          BY <1>1, <4>2 DEF Launch
        <5> QED BY <2>3, <3>1, <4>2, <5>1 DEF Launch, InHand, Fresh
      <4>3. CASE LaunchFails(w)
        <5>1. phase'[w] = "dead"
          BY <1>1, <4>3 DEF LaunchFails
        <5> QED BY <5>1 DEF InHand
      <4> QED BY <2>8, <4>1, <4>2, <4>3
    <3> QED BY <2>1, <2>2, <2>4, <2>5, <2>6, <3>1, <3>2, WorkersDoNotMeddle
  <2> QED BY <1>9, <2>7, <2>8
<1> QED BY <1>4, <1>5, <1>6, <1>7, <1>8, <1>9 DEF Next, MainStep, WorkerStep

-----------------------------------------------------------------------------
(* The tally and the exit status *)

With(v) == {j \in Jobs : status[j] = v}

\* The counters count the verdicts told, and the exit status is set once, by what
\* ended the main thread.
TallyInv ==
  /\ passed = Cardinality(With("PASS")) /\ skipped = Cardinality(With("SKIP"))
  /\ main \in {"dispatch", "collect"} => exitCode = Running
  /\ main = "done" => exitCode = ExitStatus
  /\ main = "died" => exitCode = 1

\* The counters add up to the number of jobs just when every job has a verdict
\* that counts.
LEMMA TallyIsComplete ==
  ASSUME TypeInv, TallyInv
  PROVE  passed + skipped = total <=> \A j \in Jobs : status[j] \in {"PASS", "SKIP"}
<1> DEFINE P == With("PASS")
           S == With("SKIP")
<1>1. /\ IsFiniteSet(Jobs) /\ P \subseteq Jobs /\ S \subseteq Jobs /\ P \cap S = {}
      /\ P \cup S = Jobs <=> \A j \in Jobs : status[j] \in {"PASS", "SKIP"}
  BY JobsAssumption DEF With
<1>2. passed = Cardinality(P) /\ skipped = Cardinality(S)
  BY DEF TallyInv
<1> HIDE DEF P, S
<1>3. IsFiniteSet(P) /\ IsFiniteSet(S)
  BY <1>1, FS_Subset
<1>4. /\ Cardinality(P) \in Nat /\ Cardinality(S) \in Nat
      /\ Cardinality(P \cap S) = 0
  BY <1>1, <1>3, FS_CardinalityType, FS_EmptySet
<1>5. Cardinality(P \cup S) = passed + skipped
  <2>1. Cardinality(P \cup S) =
          Cardinality(P) + Cardinality(S) - Cardinality(P \cap S)
    BY <1>3, FS_Union
  <2> QED BY <1>2, <1>4, <2>1
<1>6. P \cup S \subseteq Jobs
  BY <1>1
<1>7. Cardinality(P \cup S) = total <=> P \cup S = Jobs
  BY <1>1, <1>6, FS_Subset DEF total
<1> QED BY <1>1, <1>5, <1>7

\* A verdict told adds one to its own count and to no other.
LEMMA OneMoreVerdict ==
  ASSUME TypeInv, NEW k \in Jobs, status[k] = Unknown, NEW v,
         status' = [status EXCEPT ![k] = v], NEW x \in {"PASS", "SKIP"}
  PROVE  Cardinality(With(x)') = Cardinality(With(x)) + IF v = x THEN 1 ELSE 0
<1>1. /\ \A j \in Jobs : status'[j] = IF j = k THEN v ELSE status[j]
      /\ x # Unknown
  BY DEF TypeInv, TypeOK, Unknown
<1>2. IsFiniteSet(With(x)) /\ Cardinality(With(x)) \in Nat
  <2>1. With(x) \subseteq Jobs
    BY DEF With
  <2> QED BY <2>1, JobsAssumption, FS_Subset, FS_CardinalityType
<1>3. k \notin With(x)
  BY <1>1 DEF With
<1>4. CASE v = x
  <2>1. With(x)' = With(x) \cup {k}
    BY <1>1, <1>4 DEF With
  <2> QED BY <1>2, <1>3, <1>4, <2>1, FS_AddElement
<1>5. CASE v # x
  <2>1. With(x)' = With(x)
    BY <1>1, <1>3, <1>5 DEF With
  <2> QED BY <1>2, <1>5, <2>1
<1> QED BY <1>4, <1>5

LEMMA InitTallyInv == Init => TallyInv
<1> SUFFICES ASSUME Init PROVE TallyInv
  OBVIOUS
<1>1. With("PASS") = {} /\ With("SKIP") = {}
  BY DEF Init, With, Unknown
<1>2. Cardinality(With("PASS")) = 0 /\ Cardinality(With("SKIP")) = 0
  BY <1>1, FS_EmptySet
<1> QED BY <1>2 DEF Init, TallyInv

LEMMA NextTallyInv ==
  TypeInv /\ JobsInOnePlace /\ TallyInv /\ [Next]_vars => TallyInv'
<1> SUFFICES ASSUME TypeInv, JobsInOnePlace, TallyInv, [Next]_vars
             PROVE  TallyInv'
  OBVIOUS
<1> USE DEF queues, workers, reports, history
<1>1. ASSUME UNCHANGED reports,
             main' = main \/ (main' = "collect" /\ main = "dispatch")
      PROVE  TallyInv'
  BY <1>1 DEF TallyInv, With, ExitStatus
<1>2. CASE Dispatch \/ DispatchBreak \/ Interrupt \/ UNCHANGED vars
  BY <1>1, <1>2 DEF Dispatch, DispatchBreak, Interrupt, vars
<1>3. CASE Collect
  <2>1. PICK k : k = Head(output)
    OBVIOUS
  <2>2. PICK v : v = Verdict(k)
    OBVIOUS
  <2>3. /\ k \in Jobs /\ status[k] = Unknown
    BY <1>3, <2>1, ReturnedIsUnreported DEF Collect
  <2>4. /\ status' = [status EXCEPT ![k] = v]
        /\ passed' = passed + IF v = "PASS" THEN 1 ELSE 0
        /\ skipped' = skipped + IF v = "SKIP" THEN 1 ELSE 0
    BY <1>3, <2>1, <2>2 DEF Collect
  <2>5. /\ Cardinality(With("PASS")') =
             Cardinality(With("PASS")) + IF v = "PASS" THEN 1 ELSE 0
        /\ Cardinality(With("SKIP")') =
             Cardinality(With("SKIP")) + IF v = "SKIP" THEN 1 ELSE 0
    BY <2>3, <2>4, OneMoreVerdict
  <2>6. passed' = Cardinality(With("PASS")') /\ skipped' = Cardinality(With("SKIP")')
    BY <2>4, <2>5 DEF TallyInv
  <2>7. \/ main' = "collect" /\ exitCode' = Running
        \/ main' = "died" /\ exitCode' = 1
    BY <1>3 DEF Collect, TallyInv
  <2> QED BY <2>6, <2>7 DEF TallyInv
<1>4. CASE Join
  BY <1>4 DEF Join, TallyInv, With, ExitStatus
<1>5. ASSUME NEW w \in Workers, WorkerStep(w) PROVE TallyInv'
  BY <1>1, <1>5 DEF WorkerStep, Get, ReturnCut, ReturnSkipped, DecideToRun, Launch,
                    LaunchFails, Finish
<1> QED BY <1>2, <1>3, <1>4, <1>5 DEF Next, MainStep

-----------------------------------------------------------------------------
(* Theorems *)

\* The invariant that the steps of test.py preserve: the types, one place for each
\* job, what was done with a job at each place, and the tally of the verdicts.
IInv == TypeInv /\ JobsInOnePlace /\ StagesInv /\ TallyInv

THEOREM Invariance == Spec => []IInv
<1>1. Init => IInv
  BY InitTypeInv, InitJobsInOnePlace, InitStagesInv, InitTallyInv DEF IInv
<1>2. IInv /\ [Next]_vars => IInv'
  BY NextTypeInv, NextJobsInOnePlace, NextStagesInv, NextTallyInv DEF IInv
<1> QED BY <1>1, <1>2, PTL DEF Spec

\* Every variable keeps its type: no worker runs a break job, no more breaks are
\* put than there are workers.
THEOREM TypeCorrect == Spec => []TypeOK
<1>1. IInv => TypeOK
  BY DEF IInv, TypeInv
<1> QED BY <1>1, Invariance, PTL

\* No job is lost, run twice or reported twice, however many threads take jobs
\* from the queue and put them back, and whenever the interrupt comes.
THEOREM JobsInOnePlaceCorrect == Spec => []JobsInOnePlace
<1>1. IInv => JobsInOnePlace
  BY DEF IInv
<1> QED BY <1>1, Invariance, PTL

\* A returncode of 0 or 2 is that of a process whose output could be read.
LEMMA ReturncodeIsTrue ==
  ASSUME NEW o \in Outcomes
  PROVE  /\ Returncode(o) = 0 => o.rc = 0 /\ o.text
         /\ Returncode(o) = 2 => o.rc = 2
<1>1. o.rc \in {0, 1, 2, Crashed} /\ o.text \in BOOLEAN
  BY DEF Outcomes
<1>2. CASE o.text = TRUE
  BY <1>2 DEF Returncode
<1>3. CASE o.text = FALSE
  BY <1>3 DEF Returncode
<1> QED BY <1>1, <1>2, <1>3

\* A job that was told to have passed, or to have failed under valgrind, ran, and
\* its process did what is said of it.
LEMMA ReportedRan ==
  ASSUME NEW j \in Jobs, Reported(j), status[j] \in {"PASS", "VALGR"}
  PROVE  /\ j \in launched
         /\ status[j] = "PASS" => process[j].rc = 0 /\ process[j].text
         /\ status[j] = "VALGR" => process[j].rc = 2
<1>1. Returned(j) /\ status[j] = Verdict(j)
  BY DEF Reported, Unknown
<1>2. /\ j \notin cut /\ j \notin Skips
      /\ status[j] = "PASS" => returncode[j] = 0
      /\ status[j] = "VALGR" => returncode[j] = 2
  BY <1>1 DEF Verdict
<1>3. /\ j \in launched /\ process[j] \in Outcomes
      /\ returncode[j] = Returncode(process[j])
  BY <1>1, <1>2 DEF Returned
<1>4. /\ Returncode(process[j]) = 0 => process[j].rc = 0 /\ process[j].text
      /\ Returncode(process[j]) = 2 => process[j].rc = 2
  BY <1>3, ReturncodeIsTrue
<1> QED BY <1>2, <1>3, <1>4

\* The verdict the main thread tells is the one of the process that a worker ran.
THEOREM VerdictsAreTrueCorrect == Spec => []VerdictsAreTrue
<1>1. IInv => VerdictsAreTrue
  <2> SUFFICES ASSUME IInv, NEW j \in Jobs
               PROVE  /\ status[j] = "PASS" =>
                           j \in launched /\ process[j].rc = 0 /\ process[j].text
                      /\ status[j] \in {"SKIP", "CUT"} => j \notin launched
                      /\ status[j] = "CUT" => threadExit
                      /\ status[j] = "VALGR" => process[j].rc = 2
    BY DEF VerdictsAreTrue
  <2>1. Reported(j)
    BY DEF IInv, StagesInv
  <2>2. CASE status[j] \in {"PASS", "VALGR"}
    BY <2>1, <2>2, ReportedRan
  <2>3. CASE status[j] \in {"SKIP", "CUT"}
    BY <2>1, <2>3 DEF Reported, Returned, Fresh, Verdict, Unknown
  <2>4. CASE status[j] \notin {"PASS", "VALGR", "SKIP", "CUT"}
    BY <2>4
  <2> QED BY <2>2, <2>3, <2>4
<1> QED BY <1>1, Invariance, PTL

\* test.py succeeds just when every job was skipped or ran and passed.
THEOREM SuccessIsRealCorrect == Spec => []SuccessIsReal
<1>1. IInv => SuccessIsReal
  <2> SUFFICES ASSUME IInv PROVE SuccessIsReal
    OBVIOUS
  <2>1. passed + skipped = total <=> \A j \in Jobs : status[j] \in {"PASS", "SKIP"}
    BY TallyIsComplete DEF IInv
  <2>2. ASSUME exitCode = 0, NEW j \in Jobs
        PROVE  j \in Skips \/ (process[j].rc = 0 /\ process[j].text)
    <3>1. main = "done" /\ exitCode = ExitStatus
      BY <2>2 DEF IInv, TypeInv, TypeOK, TallyInv, Running
    <3>2. status[j] \in {"PASS", "SKIP"}
      BY <2>1, <2>2, <3>1 DEF ExitStatus
    <3>3. Reported(j)
      BY DEF IInv, StagesInv
    <3>4. CASE status[j] = "PASS"
      BY <3>3, <3>4, ReportedRan
    <3>5. CASE status[j] = "SKIP"
      BY <3>3, <3>5 DEF Reported, Verdict, Unknown
    <3> QED BY <3>2, <3>4, <3>5
  <2>3. ASSUME main = "done", exitCode = 1
        PROVE  \E j \in Jobs : status[j] \notin {"PASS", "SKIP"}
    BY <2>1, <2>3 DEF IInv, TallyInv, ExitStatus
  <2> QED BY <2>2, <2>3 DEF SuccessIsReal
<1> QED BY <1>1, Invariance, PTL

\* Each step is a report, the end, or a stutter of TestVerdicts.
LEMMA StepKeepsPromise ==
  ASSUME IInv, [Next]_vars
  PROVE  [Verdicts!Next]_Verdicts!reportVars
<1> USE DEF queues, workers, reports, history
<1>1. CASE Collect
  <2>1. PICK k : k = Head(output)
    OBVIOUS
  <2>2. k \in Jobs /\ status[k] = Unknown
    BY <1>1, <2>1, ReturnedIsUnreported DEF Collect, IInv
  <2>3. status' = [status EXCEPT ![k] = Verdict(k)]
    BY <1>1, <2>1 DEF Collect
  <2>4. Verdict(k) \in Verdicts!Verdicts
    BY DEF Verdict, Verdicts!Verdicts
  <2>5. exitCode = Running /\ (UNCHANGED exitCode \/ exitCode' = 1)
    BY <1>1 DEF Collect, IInv, TallyInv
  <2>6. Verdicts!Report(k)
    BY <2>2, <2>3, <2>4, <2>5
       DEF Verdicts!Report, Verdicts!Unknown, Verdicts!Running, Unknown, Running
  <2> QED BY <2>2, <2>5, <2>6 DEF Verdicts!Next
<1>2. CASE Join
  <2>1. exitCode = Running /\ exitCode' = ExitStatus /\ UNCHANGED status
    BY <1>2 DEF Join, IInv, TallyInv
  <2>2. passed + skipped = total <=> \A j \in Jobs : status[j] \in {"PASS", "SKIP"}
    BY TallyIsComplete DEF IInv
  <2>3. Verdicts!End
    BY <2>1, <2>2 DEF Verdicts!End, Verdicts!Good, Verdicts!Running, Running,
                      ExitStatus
  <2> QED BY <2>1, <2>3 DEF Verdicts!Next
<1>3. CASE Dispatch \/ DispatchBreak \/ Interrupt \/ UNCHANGED vars
  BY <1>3 DEF Dispatch, DispatchBreak, Interrupt, vars, Verdicts!reportVars
<1>4. ASSUME NEW w \in Workers, WorkerStep(w)
      PROVE  UNCHANGED Verdicts!reportVars
  BY <1>4 DEF WorkerStep, Get, ReturnCut, ReturnSkipped, DecideToRun, Launch,
              LaunchFails, Finish, Verdicts!reportVars
<1> QED BY <1>1, <1>2, <1>3, <1>4 DEF Next, MainStep

\* test.py implements TestVerdicts: a report is final, and success means that
\* every job was told to have passed or to have been skipped.
THEOREM KeepsItsPromiseCorrect == Spec => KeepsItsPromise
<1>1. Init => Verdicts!Init
  BY DEF Init, Verdicts!Init, Verdicts!Unknown, Verdicts!Running, Unknown, Running
<1>2. IInv /\ [Next]_vars => [Verdicts!Next]_Verdicts!reportVars
  BY StepKeepsPromise
<1> QED BY <1>1, <1>2, Invariance, PTL DEF Spec, KeepsItsPromise, Verdicts!Spec

=============================================================================
