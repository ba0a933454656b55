----------------------------- MODULE TestRunner -----------------------------
(***************************************************************************)
(* test.py: the main thread puts one job for each test into an input queue *)
(* and then one "break" job for each worker; the workers run the jobs as   *)
(* processes and put them into an output queue; the main thread takes as   *)
(* many jobs back as it dispatched, tells the verdict of each, joins the   *)
(* workers and returns the status of the program.  An interrupt may come   *)
(* at any moment: its handler only sets a flag.                            *)
(*                                                                         *)
(* A Job object is shared: the queues carry references, so its attributes  *)
(* are functions of the job and not contents of a message.                 *)
(***************************************************************************)
EXTENDS Naturals, Sequences, FiniteSets

CONSTANTS Workers,            \* the threads, one per processor or --jobs
          Suites, Examples,   \* the jobs, numbered in the order of dispatch
          Skips,              \* jobs dispatched with is_skip
          Undecodable,        \* may a process write output that is no text?
          MaxLaunchFailures   \* how often Popen may raise

Jobs == Suites \cup Examples

ASSUME JobsAssumption == /\ IsFiniteSet(Workers) /\ Workers # {}
                         /\ IsFiniteSet(Jobs) /\ Jobs = 1 .. Cardinality(Jobs)
                         /\ Suites \cap Examples = {}
                         /\ Skips \subseteq Jobs
                         /\ Undecodable \in BOOLEAN
                         /\ MaxLaunchFailures \in Nat

Break   == 0    \* the job that tells a worker to stop
Crashed == 139  \* any returncode but 0, 1 and 2
NotRun  == [rc |-> Crashed, text |-> TRUE, file |-> "missing"]
Running == 9    \* no exit status yet
Unknown == "unknown"

VARIABLES
  main,        \* where the main thread is
  dispatched,  \* jobs put into the input queue so far
  breaks,      \* break jobs put so far
  input,       \* input_queue
  output,      \* output_queue
  phase, hand, \* where each worker is, and the job it holds
  threadExit,  \* thread_exit
  cut,         \* jobs whose is_break a worker has set
  process,     \* what the process of each job did
  returncode,  \* Job.returncode
  collected,   \* jobs the collection loop has taken
  status,      \* the verdict printed for each job
  passed, skipped,  \* passed_tests, skipped_tests
  results,     \* the entries of results.xml
  exitCode,
  launched,    \* jobs started at all
  failures     \* launches that raised

queues   == <<input, output>>
workers  == <<phase, hand>>
reports  == <<status, passed, skipped, results, exitCode, collected>>
history  == <<launched, failures>>
vars     == <<main, dispatched, breaks, queues, workers, threadExit, cut,
              process, returncode, reports, history>>

total == Cardinality(Jobs)
-----------------------------------------------------------------------------
\* What a process may leave behind: a suite that ends by itself has written
\* its results file, one that crashes may have written a part of it.
Outcomes ==
  {o \in [rc : {0, 1, 2, Crashed}, text : BOOLEAN,
          file : {"complete", "partial", "missing"}] :
     /\ o.text \/ Undecodable
     /\ o.rc \in 0 .. 2 <=> o.file = "complete"}

\* run_job_synchronously: output that cannot be decoded counts as a failure.
Returncode(o) == IF o.text THEN o.rc ELSE 1

Init ==
  /\ main = "dispatch" /\ dispatched = 0 /\ breaks = 0
  /\ input = <<>> /\ output = <<>>
  /\ phase = [w \in Workers |-> "get"] /\ hand = [w \in Workers |-> Break]
  /\ threadExit = FALSE
  /\ cut = {}
  /\ process = [j \in Jobs |-> NotRun]
  /\ returncode = [j \in Jobs |-> 0]
  /\ collected = 0
  /\ status = [j \in Jobs |-> Unknown]
  /\ passed = 0 /\ skipped = 0
  /\ results = {}
  /\ exitCode = Running
  /\ launched = {} /\ failures = 0
-----------------------------------------------------------------------------
\* The main thread.

Dispatch ==
  /\ main = "dispatch" /\ dispatched < total
  /\ input' = Append(input, dispatched + 1)
  /\ dispatched' = dispatched + 1
  /\ UNCHANGED <<main, breaks, output, workers, threadExit, cut, process,
                 returncode, reports, history>>

\* Faulty forms of the definition below, which the properties must refute.
OneBreakTooMany ==
  /\ main = "dispatch" /\ dispatched = total
  /\ input' = Append(input, Break)
  /\ breaks' = breaks + 1
  /\ main' = IF breaks = Cardinality(Workers) THEN "collect" ELSE main
  /\ UNCHANGED <<dispatched, output, workers, threadExit, cut, process,
                 returncode, reports, history>>
OneBreakForAll ==
  /\ main = "dispatch" /\ dispatched = total
  /\ input' = Append(input, Break)
  /\ breaks' = breaks + 1
  /\ main' = "collect"
  /\ UNCHANGED <<dispatched, output, workers, threadExit, cut, process,
                 returncode, reports, history>>

DispatchBreak ==
  /\ main = "dispatch" /\ dispatched = total
  /\ input' = Append(input, Break)
  /\ breaks' = breaks + 1
  /\ main' = IF breaks' = Cardinality(Workers) THEN "collect" ELSE main
  /\ UNCHANGED <<dispatched, output, workers, threadExit, cut, process,
                 returncode, reports, history>>

\* Faulty forms of the definition below, which the properties must refute.
VerdictIgnoringBreak(j) ==
  IF j \in Skips THEN "SKIP" ELSE
  CASE returncode[j] = 0 -> "PASS"
    [] returncode[j] = 1 -> "FAIL"
    [] returncode[j] = 2 -> "VALGR"
    [] OTHER -> "CRASH"

\* What the collection loop says of a job; a break comes before a skip.
Verdict(j) ==
  IF j \in cut THEN "CUT" ELSE
  IF j \in Skips THEN "SKIP" ELSE
  CASE returncode[j] = 0 -> "PASS"
    [] returncode[j] = 1 -> "FAIL"
    [] returncode[j] = 2 -> "VALGR"
    [] OTHER -> "CRASH"

\* What it adds to results.xml: its own words for an example, a skipped suite
\* or a crash, and otherwise the file the suite wrote.
Entry(j, verdict) ==
  IF j \in Examples \/ verdict \in {"SKIP", "CRASH"} THEN verdict
  ELSE process[j].file

\* One round of the loop.  A missing file raises, which ends the main thread:
\* the interpreter then waits for the workers and returns 1.
Collect ==
  /\ main = "collect" /\ collected < total
  /\ output # <<>>
  /\ output' = Tail(output)
  /\ collected' = collected + 1
  /\ LET j == Head(output)
         v == Verdict(j)
         e == Entry(j, v)
     IN /\ status'  = [status EXCEPT ![j] = v]
        /\ passed'  = passed + IF v = "PASS" THEN 1 ELSE 0
        /\ skipped' = skipped + IF v = "SKIP" THEN 1 ELSE 0
        /\ \/ v = "CUT" /\ UNCHANGED <<results, main, exitCode>>
           \/ /\ v # "CUT" /\ e # "missing"
              /\ results' = results \cup {<<j, e>>}
              /\ UNCHANGED <<main, exitCode>>
           \/ /\ v # "CUT" /\ e = "missing"
              /\ main' = "died" /\ exitCode' = 1
              /\ UNCHANGED results
  /\ UNCHANGED <<dispatched, breaks, input, workers, threadExit, cut, process,
                 returncode, history>>

\* Faulty forms of the definition below, which the properties must refute.
ExitCountsCollected == IF collected = total THEN 0 ELSE 1
ExitByFailures == IF \E j \in Jobs : status[j] \in {"FAIL", "CRASH", "VALGR"}
                  THEN 1 ELSE 0

\* The status the program returns.
ExitStatus == IF passed + skipped = total THEN 0 ELSE 1

\* Every thread is joined, then the summary is printed.
Join ==
  /\ main = "collect" /\ collected = total
  /\ \A w \in Workers : phase[w] \in {"gone", "dead"}
  /\ main' = "done"
  /\ exitCode' = ExitStatus
  /\ UNCHANGED <<dispatched, breaks, queues, workers, threadExit, cut, process,
                 returncode, status, passed, skipped, results, collected, history>>

\* sigint_hook
Interrupt ==
  /\ ~threadExit /\ main # "done"
  /\ threadExit' = TRUE
  /\ UNCHANGED <<main, dispatched, breaks, queues, workers, cut, process,
                 returncode, reports, history>>
-----------------------------------------------------------------------------
\* worker_thread.run

\* input_queue.get(); a break job ends the thread.
Get(w) ==
  /\ phase[w] = "get" /\ input # <<>>
  /\ input' = Tail(input)
  /\ hand' = [hand EXCEPT ![w] = Head(input)]
  /\ phase' = [phase EXCEPT ![w] = IF Head(input) = Break THEN "gone" ELSE "check"]
  /\ UNCHANGED <<main, dispatched, breaks, output, threadExit, cut, process,
                 returncode, reports, history>>

\* The job goes back to the main thread.
Put(w) == /\ output' = Append(output, hand[w])
          /\ phase' = [phase EXCEPT ![w] = "get"]

\* Faulty forms of the definition below, which the properties must refute.
CutWithoutContinue(w) ==
  /\ phase[w] = "check" /\ threadExit
  /\ cut' = cut \cup {hand[w]}
  /\ output' = Append(output, hand[w])
  /\ phase' = [phase EXCEPT ![w] = "launch"]
  /\ UNCHANGED <<main, dispatched, breaks, input, hand, threadExit, process,
                 returncode, reports, history>>

\* thread_exit is set: the job is handed back as a break.
ReturnCut(w) ==
  /\ phase[w] = "check" /\ threadExit
  /\ cut' = cut \cup {hand[w]}
  /\ Put(w)
  /\ UNCHANGED <<main, dispatched, breaks, input, hand, threadExit, process,
                 returncode, reports, history>>

ReturnSkipped(w) ==
  /\ phase[w] = "check" /\ ~threadExit /\ hand[w] \in Skips
  /\ Put(w)
  /\ UNCHANGED <<main, dispatched, breaks, input, hand, threadExit, cut, process,
                 returncode, reports, history>>

\* The flag was read: an interrupt from here on comes too late for this job.
DecideToRun(w) ==
  /\ phase[w] = "check" /\ ~threadExit /\ hand[w] \notin Skips
  /\ phase' = [phase EXCEPT ![w] = "launch"]
  /\ UNCHANGED <<main, dispatched, breaks, queues, hand, threadExit, cut, process,
                 returncode, reports, history>>

\* Popen
Launch(w) ==
  /\ phase[w] = "launch"
  /\ phase' = [phase EXCEPT ![w] = "run"]
  /\ launched' = launched \cup {hand[w]}
  /\ UNCHANGED <<main, dispatched, breaks, queues, hand, threadExit, cut, process,
                 returncode, reports, failures>>

\* Popen raises: the exception ends the thread, and its job with it.
LaunchFails(w) ==
  /\ phase[w] = "launch" /\ failures < MaxLaunchFailures
  /\ phase' = [phase EXCEPT ![w] = "dead"]
  /\ failures' = failures + 1
  /\ UNCHANGED <<main, dispatched, breaks, queues, hand, threadExit, cut, process,
                 returncode, reports, launched>>

\* The process ends: its returncode is kept and the job handed back.
Finish(w) ==
  /\ phase[w] = "run"
  /\ \E o \in Outcomes :
       /\ process' = [process EXCEPT ![hand[w]] = o]
       /\ returncode' = [returncode EXCEPT ![hand[w]] = Returncode(o)]
  /\ Put(w)
  /\ UNCHANGED <<main, dispatched, breaks, input, hand, threadExit, cut, reports,
                 history>>
-----------------------------------------------------------------------------
MainStep == Dispatch \/ DispatchBreak \/ Collect \/ Join

WorkerStep(w) == \/ Get(w) \/ ReturnCut(w) \/ ReturnSkipped(w) \/ DecideToRun(w)
                 \/ Launch(w) \/ LaunchFails(w) \/ Finish(w)

Next == MainStep \/ Interrupt \/ \E w \in Workers : WorkerStep(w)

\* Every thread is scheduled and every process ends; nobody owes an interrupt.
Fairness == WF_vars(MainStep) /\ \A w \in Workers : WF_vars(WorkerStep(w))

Spec == Init /\ [][Next]_vars /\ Fairness
-----------------------------------------------------------------------------
\* Where a job can be: a worker has it in hand from Get until Put, and keeps it
\* if it dies.
Holds(w, j)  == phase[w] \in {"check", "launch", "run", "dead"} /\ hand[w] = j
Count(s, x)  == Cardinality({i \in DOMAIN s : s[i] = x})
Places(j)    == Count(input, j) + Count(output, j)
                + Cardinality({w \in Workers : Holds(w, j)})
                + IF status[j] = Unknown THEN 0 ELSE 1
Alive        == {w \in Workers : phase[w] \notin {"gone", "dead"}}

\* Every variable has its type.
TypeOK ==
  /\ main \in {"dispatch", "collect", "done", "died"}
  /\ dispatched \in 0 .. total /\ collected \in 0 .. total
  /\ breaks \in 0 .. Cardinality(Workers)
  /\ input \in Seq(Jobs \cup {Break}) /\ output \in Seq(Jobs)
  /\ phase \in [Workers -> {"get", "check", "launch", "run", "gone", "dead"}]
  /\ hand \in [Workers -> Jobs \cup {Break}]
  /\ threadExit \in BOOLEAN
  /\ cut \subseteq Jobs /\ launched \subseteq Jobs
  /\ process \in [Jobs -> [rc : {0, 1, 2, Crashed}, text : BOOLEAN,
                           file : {"complete", "partial", "missing"}]]
  /\ returncode \in [Jobs -> {0, 1, 2, Crashed}]
  /\ status \in [Jobs -> {"PASS", "FAIL", "VALGR", "CRASH", "SKIP", "CUT", Unknown}]
  /\ passed \in Nat /\ skipped \in Nat /\ failures \in 0 .. MaxLaunchFailures
  /\ exitCode \in {0, 1, Running}

\* A dispatched job is in one place: a queue, the hands of one worker, or
\* reported.  None is lost, run twice or reported twice, whatever the order of
\* the threads and the interrupt.
JobsInOnePlace == \A j \in Jobs : Places(j) = IF j <= dispatched THEN 1 ELSE 0

\* A verdict is that of the process which ran: PASS needs one that returned 0,
\* and a job that was skipped or cut never ran.  (Job.returncode is False,
\* which equals 0, before a process sets it.)
VerdictsAreTrue ==
  \A j \in Jobs :
    /\ status[j] = "PASS" => j \in launched /\ process[j].rc = 0 /\ process[j].text
    /\ status[j] \in {"SKIP", "CUT"} => j \notin launched
    /\ status[j] = "CUT" => threadExit
    /\ status[j] = "VALGR" => process[j].rc = 2

\* test.py returns 0 exactly when every job was skipped or ran and passed; an
\* interrupt that cut a job short makes it fail.
SuccessIsReal ==
  /\ exitCode = 0 => \A j \in Jobs : \/ j \in Skips
                                     \/ process[j].rc = 0 /\ process[j].text
  /\ main = "done" /\ exitCode = 1 => \E j \in Jobs : status[j] \notin {"PASS", "SKIP"}

\* Only results files of processes that ran to completion are copied.
CopiedFilesAreComplete == \A r \in results : r[2] # "partial"

\* The comment above the code that reports a suite: "in the case of a working
\* TestSuite that fails valgrind, we'll see the PASS entry for the working
\* TestSuite followed by a VALGR failing test suite of the same name."
ValgrindErrorsAreEntries ==
  \A j \in Jobs : status[j] = "VALGR" => <<j, "VALGR">> \in results

\* The program ends: all jobs come back, and every thread can be joined.
EveryRunEnds == <>(main \in {"done", "died"})

\* Where every process can be launched the program ends, whatever the processes
\* leave behind and whenever the interrupt comes; and in any case no worker
\* keeps the interpreter alive, even when the main thread or another worker died
\* of an exception: a break is left for each of them.
RunEnds ==
  /\ <>[](Alive = {})
  /\ <>(main \in {"done", "died"} \/ failures > 0)

\* test.py keeps the promise of TestVerdicts.
Verdicts == INSTANCE TestVerdicts
KeepsItsPromise == Verdicts!Spec
=============================================================================
