# Verification of SRED and ESRED on ns-3's traffic control

The repository adds two active queue management disciplines to ns-3: SRED
(`src/sred`, `StabilizedRedQueueDisc`) and its variant ESRED (`src/esred`,
`ESRedQueueDisc`). This directory models both in TLA+, together with the parts
of ns-3 they run on (the base class `QueueDisc` with its peeks, requeues and
child discs, the DropTail queue, the flow control between a queue disc and a
device), the token bucket disc, and the two programs of the tree with real
threads: the test runner `test.py` and the live visualizer. TLC checks the
models; TLAPS proves every safety property the runs check, and every
refinement, for every value of the constants (some under a hypothesis on the
configuration, which section 6 lists). Only liveness rests on TLC alone.

## 1. The system

| Component | State | Operations | Interacts with |
|---|---|---|---|
| `StabilizedRedQueueDisc` | zombie list, `p_hitFreq`, `alpha` | `InitializeParams`, `DoEnqueue`, `DoDequeue`, `DoPeek` | internal queue (calls), base class (drops), random variable, filters |
| `ESRedQueueDisc` | the same, a time stamp per zombie | the same | the same, and the simulator's clock |
| `QueueDisc` | `m_nPackets`, `m_nBytes`, `m_stats`, `m_running`, `m_requeued`, `m_quota` | `Enqueue`, `Dequeue`, `Run`, `Restart`, `DequeuePacket`, `Transmit`, `Requeue`, `PacketEnqueued`, `PacketDequeued`, `DropBeforeEnqueue` | called back by the internal queue through trace sources |
| `Queue`, `DropTailQueue` | the packets, `m_nPackets`, `m_nBytes`, drop totals | `Enqueue`, `Dequeue`, `Peek`, `Remove` | fires the traces of its owner |
| `PacketFilter` | none | `Classify` | called by `DoEnqueue` |
| `TrafficControlLayer` | discs per device | `Send`, `Receive` | `Enqueue` then `Run` of the root disc |
| `NetDeviceQueue` | `m_stoppedByDevice`, `m_stoppedByQueueLimits` | `Stop`, `Wake`, trace callbacks | schedules the wake callback (`Run`) |
| `PointToPointNetDevice` | `m_txMachineState`, `m_currentPkt`, its queue | `Send`, `TransmitStart`, `TransmitComplete` | its queue, its channel |
| `TbfQueueDisc` | two buckets, check point, watchdog | `DoEnqueue`, `DoDequeue` | peeks and dequeues its child; schedules `Run` |
| CoDel as its child | the packets, the one kept by a peek | `Enqueue`, `Peek`, `Dequeue` | counts by trace what it drops |
| `test.py` | two queues, `thread_exit`, one `Job` per test, counters | dispatch, `worker_thread.run`, collection, join, `sigint_hook` | threads, processes, result files |
| Live visualizer | `target_time`, `go`, `quit`, `pause_messages`, timers | `SimulationThread.run`, `update_view_timeout`, `update_model`, buttons | a simulation thread and the GTK loop, under one lock |
| RED and the other discs | averages, timers, lists | `DoEnqueue`, `DoDequeue` | not modelled, see section 9 |
| experiment programs, notebooks | none worth a model | set-up and plots | not modelled |

What is hard about it:

- `DoEnqueue` is two algorithms in one. While the zombie list fills up (up to
  `MAX_ZOMBIE_LIST_SIZE` packets) it compares nothing and has its own room
  test and drop reason; after that every packet draws a zombie, updates the
  frequency, may be dropped at random and meets another room test.
- Every packet is counted three times over: in the disc, in its internal queue
  and in the statistics, in packets and in bytes. The copies agree only because
  the internal queue calls back. All are unsigned.
- `DoEnqueue` tests the room itself, in one unit, and the internal queue tests
  it again, in another; a refusal by the second is known to the disc only by a
  trace.
- The probabilities divide by a frequency that may be zero, and are fed to
  comparisons that a NaN makes false.
- The disc is served by a loop (`Run`) that stops for four reasons: the disc is
  empty, the device queue is stopped, the quota is used up, a packet is
  requeued. If it stops for the wrong one, nobody calls it again: the lost
  wake-up of flow control. The wake itself is a separate event.
- The device measures its room with the MTU, and stores packets that are longer
  by the PPP header.

- A packet that a parent disc peeks has left the child's queue and not the
  child: counters, drops and headers must come out right whether it is then
  dequeued, requeued because its transmission queue is stopped, or waits for
  tokens while other events run the disc.
- The token bucket keeps three values that mean something only together (tokens
  in both buckets and the time they were counted), and one wake-up, for the
  packet that was short when it was scheduled.

In the simulator there is no concurrency in the sense of threads: one event runs
at a time to its end. The interleaving that matters is that of events: arrivals,
wake callbacks, watchdogs and ends of transmission. Two programs do have threads:

- `test.py` hands shared `Job` objects through two queues to as many threads as
  there are processors. It ends only if the number of jobs and of stop jobs it
  takes and gives is exactly right, with an interrupt at any moment, processes
  that crash, and exceptions that end a thread.
- In the visualizer the GTK thread polls the lock of the simulation, and while it
  is taken runs the GTK loop *inside* the redraw: any handler, and a second
  redraw, may run in the middle of one.

`PROJECT.json` lists the hazards one by one, at the line where each bites, with
the properties that watch it.

## 2. The modules

| Module | Code | Content |
|---|---|---|
| `PacketCounters` | `queue.h`, `queue-disc.cc` | a counter in packets and in bytes |
| `DropTailQueue` | `queue.h`, `drop-tail-queue.h` | operators on a queue record: room test, insert, discard, remove |
| `QueueDiscStats` | `queue-disc.cc` | operators on the statistics record |
| `SredBase` | code that `sred` and `esred` share word for word | constants, flow identifiers, probabilities, the two ends of `DoEnqueue`, `DoDequeue` |
| `StabilizedRed` | `stabilized-red-queue-disc.cc` | the zombie list, the three paths of `Enqueue`, `Dequeue` |
| `ESRed` | `es-red-queue-disc.cc` | the stamped list and the clock |
| `PointToPointDevice` | `point-to-point-net-device.cc`, `net-device-queue-interface.{h,cc}` | the device, its queue and flow control |
| `TrafficControl` | `traffic-control-layer.cc`, `queue-disc.cc` | `StabilizedRed` composed with `PointToPointDevice` by `Send`, `Run`, the wake callback |
| `LossyQueue` | none: the abstract specification | what a queue disc promises |
| `TokenBucketDisc` | `tbf-queue-disc.cc`, `queue-disc.cc`, `codel-queue-disc.cc` | the token bucket over a child disc, `Run` with requeues, a device with several queues, time |
| `TestRunner` | `test.py` | main thread, workers, processes, interrupt |
| `TestVerdicts` | none: the abstract specification | what the test runner promises |
| `Visualizer` | `visualizer/core.py`, `pyviz.cc` | the simulation thread, the GTK loop and its handlers |
| `StabilizedRedProofs`, `LossyQueueProofs`, `ZombieListProofs` | | theorems about `StabilizedRed` |
| `ESRedProofs` | | theorems about `ESRed`: its stamps, and that it implements `StabilizedRed` |
| `TrafficControlProofs` | | theorems about `TrafficControl`: the disc inside it, flow control, service, order from end to end |
| `TokenBucketProofs`, `TestRunnerProofs`, `VisualizerProofs` | | theorems about `TokenBucketDisc`, `TestRunner`, `Visualizer` |

    PacketCounters <- DropTailQueue, QueueDiscStats <- SredBase
    SredBase <- StabilizedRed, ESRed
    StabilizedRed, PointToPointDevice <- TrafficControl
    ESRed refines StabilizedRed refines LossyQueue
    TrafficControl refines LossyQueue
    TestRunner refines TestVerdicts

The queue and the statistics are operators on records, not state machines,
because the code runs them inside the handlers of their owners: a disc and a
device each instantiate `DropTailQueue` with their own unit and limit. Each
handler is one step. The only handler cut into steps is `Run`, one per
iteration of its loop; while `running` holds no other event happens, as in the
simulator. An operation that changes nothing (`Dequeue` of an empty disc) is a
stuttering step.

The operators headed "Faulty forms" are plausible mistakes in the definition
that follows them. No specification uses them; substituting one for the
definition must break a property, which is how each property is shown to depend
on the code.

### State against code

- `queue = [items, stored, discarded]` is `GetInternalQueue (0)`: `m_packets`,
  `<m_nPackets, m_nBytes>`, `m_nTotalDroppedPacketsBeforeEnqueue`.
- `stats` is `m_nPackets`/`m_nBytes` (`stored`) and `m_stats` of `QueueDisc`.
  Drops by reason are counted in packets; marks, requeues and drops after
  dequeue are left out, as both discs never cause them here.
- A packet is a record of its identity (its arrival number), its flow and its
  size. Its content, header and time stamp are left out.
- A flow hash is unsigned and `int32_t flowID = flowHash` reinterprets it:
  `AsInt32` does so modulo `HashModulus` (2^32 in the code, 8 in the runs, where
  hash 7 is therefore flow -1). The same value is both `PF_NO_MATCH` and the
  identifier the code calls invalid: the first only when filters are installed.
- `p_hitFreq` is an integer in units of 1/`HitScale` with
  `HitScale = 16 * HitUnit`, so that the threshold 1/16 of the simple formula is
  exact. The update's decay is rounded down to the unit, which keeps a positive
  frequency positive as the double does; all comparisons of probabilities are
  exact on fractions. A fraction with denominator 0 stands for the infinity or
  the NaN the code gets by dividing by `0.0`.
- A comparison with a draw of `m_uv->GetValue ()` in [0, 1) is a
  nondeterministic choice of the outcomes the probability allows:
  `MayBeBelow`, `MayBeAbove`.
- `arrivals`, `lost`, `delivered` and `sent` are history variables.

Of the token bucket (`TokenBucketDisc`):

- `items`, `kept`, `nPackets` are the child's internal queue, its `m_requeued` and
  its `m_nPackets`; the root's `m_nPackets` moves with the child's, because the
  root is called back by the same traces, so one variable stands for both.
  `requeued` is the root's `m_requeued`.
- CoDel decides by sojourn times when to drop at the head. The model lets a peek
  drop any number of packets before it keeps one, though not the last
  (`MayDrop`): with `MinBytes` positive, as by default, CoDel drops nothing when
  nothing is queued behind.
- A tick is one unit of the simulator's clock (a nanosecond by default), `Second`
  the number of them in a second; rates are in bits per second. `elapsed` is
  `Now - m_timeCheckPoint` in ticks; it stops at `Horizon`, where both buckets are
  full.
- `Credit` is the code's `round (delta * (rate / 8))`: the rate in whole bytes, by
  integer division, and the tokens rounded to the nearest, halves up. (The code
  computes in doubles, so an exact half may fall either way there.) A release
  moves the check point and forgets the error of the rounding, which therefore
  adds up: up to half a token per packet. `RateIsKept` says that it is no more.
- `TxTime` is `CalculateBytesTxTime`: the time of the missing bytes at the rate in
  bits, truncated to a tick. The wake-up may thus come before the tokens do, and
  is then repeated; it may even be due at once, see section 8.
- `txqs` are the device's queues: packets held, stopped or not, wake callbacks
  scheduled. What the device does with a packet is one step, `DeviceDequeue`.
- `sent`, `dropped`, `excess` and `peakExcess` are history variables. `excess`
  grows with each packet released, by its bytes less a half, and shrinks with each
  tick by what the rate brings, never below zero: it is the largest overshoot of
  any interval that ends now, in units of 1/(2 * `Second`) of a byte.
- The quota of `Run` is taken to be larger than the backlog; what a small quota
  does is the subject of `TrafficControl` and of finding 5.

Of the test runner (`TestRunner`):

- A step of a thread ends at each operation on a queue, on a `Job` or on
  `thread_exit` that another thread can see. `phase` is the place of a worker in
  `worker_thread.run`: waiting for a job, after it read `thread_exit`, starting a
  process, waiting for it, ended (`gone`) or ended by an exception (`dead`).
- Only references travel through the queues, so the attributes of a job are
  functions of the job. `returncode` starts as 0, since the code's `False` equals
  it.
- A process ends with any return code, with or without text that can be decoded,
  and leaves a results file that is complete exactly when it ended by itself.
- An exception of the main thread ends it with `exitCode = 1`; the workers are not
  daemons, so the interpreter still waits for them.

Of the visualizer (`Visualizer`):

- `mode` is what the GTK thread does, `frames` the redraws that wait for the lock,
  the innermost last. A section under the lock that nobody else can see or change
  is one step (`ViewUpdate`, `ModelUpdate`, `Query`), which is why `lock` has no
  owner "gtk".
- Simulated time is counted in the shortest sample period; `Periods` are the
  speeds. `idle` is the number of queued `update_model` calls. They have a higher
  priority than events and timers, hence `CanHandle`.
- Timer sources are numbered; `timeoutId` is the id the window keeps, which may be
  stale. A nested redraw belongs to another timer than those it interrupts (GLib
  does not enter a source twice).

## 3. Properties

Of SRED (`StabilizedRed`):

- `TypeOK`: shapes and ranges, in particular no unsigned counter below zero.
- `Accounting`: received + invalid = dropped + enqueued, and stored = enqueued -
  dequeued. The base class asserts the first without "invalid": see finding 1.
- `CountersInStep`, `BytesMatchItems`: the copies of the occupancy agree with
  each other, with the packets held and with the sizes of those packets, and
  respect the limit.
- `OneFatePerPacket`: each packet is enqueued or refused, once, and each refusal
  has its reason counted, those of the internal queue included.
- `ZombiesAreEvidence`: the list never credits a flow with more packets than it
  sent.
- `WarmUpIsClean`, `HitsLeaveATrace`: before the list is full there is no hit
  and no frequency; after a hit that is still in the list the frequency is
  positive.
- `ZapAtMostPMax` (simple mode), `ZapOnlyUnderLoad` (all modes),
  `OverflowOnlyWhenFull`, `InternalQueueNeverRefuses` (packet mode),
  `FullPressureAboveAThird`: when packets may be dropped.
- `ImplementsLossyQueue`: refinement of `LossyQueue`.

Of ESRED: `OverwritingOnlyGetsRarer` (the stamp is an absolute time, so the
overwrite probability of a zombie only falls), `StampFollowsRecord`, and
`ImplementsStabilizedRed`: stamps aside, whatever ESRED does SRED may do. It needs
`p_overwrite < 1`, since SRED with `p_overwrite = 1` always overwrites and ESRED
does not.

Of the disc on its device: `StoppedIffFull`, `DeviceNeverDiscards`,
`BacklogWillBeServed` (no lost wake-up), `WorkConserving`,
`ImplementsLossyQueueEndToEnd`, and the liveness property
`AcceptedPacketsAreSent`.

Of the token bucket:

- `EveryPacketInOnePlace`: the counter `Run` relies on is the number of packets in
  the disc, peeked or not; and each packet that arrived is queued, kept by a peek,
  requeued, sent or dropped, in exactly one of these places.
- `SentInOrderWithHeader`: the device gets the packets in order, each with one
  header, although a requeued packet passes `DequeuePacket` twice and a peeked one
  passes `Dequeue` with its counters already moved.
- `RateIsKept`: in no interval is more released than the rate brings in it, one
  bucket, and half a byte for each packet, for both rates. Without the half byte it
  is false of the code: see section 8.
- `AcceptedPacketsLeave`: each packet is sent or dropped in the end, with no help
  from later arrivals.

Of the test runner:

- `JobsInOnePlace`: a job is in a queue, in the hands of one worker or reported.
- `VerdictsAreTrue`: a PASS needs a process that returned 0; a job reported as
  skipped or cut never ran.
- `SuccessIsReal`: exit status 0 exactly if every job passed or was skipped.
- `RunEnds`: every worker leaves, whatever fails, and the main thread ends unless a
  process could not be started (see `FindLostJob` in section 8).
- `KeepsItsPromise`: the refinement of `TestVerdicts`.

Of the visualizer:

- `ViewNeverLags`: the simulation never passes its target, which is one period
  ahead of what is shown.
- `PauseStopsSoon`: after a pause the simulation runs for at most two periods. One
  would be a natural guess, and is wrong: a redraw may overtake the run it waits
  for, so that a second signal is outstanding when play is released.
- `MessagesAccounted`: each pause message waits, is held by one redraw, or was
  shown once.
- `OneModelUpdatePerRun`: no update of the model is lost or merged.
- `PlayingHasItsTimer`: while playing, the timer the window remembers is alive,
  although that id is kept after a pause and forgotten by a paused redraw.
- `QuitEnds`, `PlayAdvances`: a quit ends both threads wherever they are; while
  play is pressed simulated time advances.

## 4. Runs and bounds

| Run | Configuration | Shows |
|---|---|---|
| `StabilizedRedSimple` | bytes, limit 5, sizes 1 and 2, two flows (one is -1), list of 2, 5 arrivals | the properties of SRED in simple mode |
| `ESRed` | bytes, limit 4, list of 2, seconds 0 to 2 | ESRED and its refinement of SRED |
| `TrafficControlPackets` | SRED in full mode, limit 2 packets, filters, three flows (one unmatched), list of 1; device queue of 2 packets, quota 1, 6 arrivals | fates of packets, drops where the formula divides by zero, flow control and order with the smallest quota |
| `TrafficControlBytes` | device queue of 8 bytes, MTU 4, PPP header 1, sizes 1 and 3, quota 0, 7 arrivals | the same in bytes and liveness, with a quota that wraps around |
| `TokenBucketDisc` | two device queues of one packet, sizes 1 and 2, child limit 2, buckets 3 and 2; 4 ticks a second, rate 20 (2 bytes a second), peak rate 24 (3 bytes), horizon 5; 4 arrivals | peeks, requeues, rates with rounding, repeated wake-ups, order, liveness |
| `TestRunner` | two workers, two suites of which one is skipped, one example, one failure to start | the test runner under interrupts and failures |
| `Visualizer` | periods 1 and 2, no redraw from time 3 on, 3 timers, one query, one message | both threads of the visualizer, with play, pause, speed and quit |
| `FindInvalidFlow`, `FindBytesAsPackets`, `FindWarmUpOverflow`, `FindDeviceDiscards`, `FindQuotaStall` | | the findings of section 7 |

`MaxArrivals` bounds the packets that ever arrive, `MaxTime` the clock of
ESRED and of the visualizer, `UintMax` stands for 2^32 - 1 in `Run`'s quota and
`HashModulus` for 2^32 in a hash. Five arrivals fill a list of two and leave three
packets that are compared, enough for a hit, an overwrite and a hit of the
overwritten zombie; the limits are such that both room tests fail, by one and by
more. Sizes 1 and 2 (or 1 and 3) let a large packet be refused where a small one
fits. In `TrafficControl` the arrivals outnumber the places in the device queue by
enough for a stop, a wake and a second stop, and in the byte run one large packet
makes room for two small ones.

In `TokenBucketDisc` four packets fill the child and one is refused; while one is
requeued and one kept by a peek, two more are queued behind them. A bucket of 3
lets a packet of 2 go and not a second, and with the second bucket of 2 either
bucket may be the one that is short. With half a token a tick, and three quarters,
both are rounded up after one tick and the first is exact after two, so that released
packets do gain by the rounding; and as 20 bits are two bytes and a half, a wake-up
computed from bits comes before the tokens computed from bytes, and is repeated.
After 5 ticks both buckets are full, whatever they held (`FullBy`). Time has no
bound of its own: `elapsed` and the excesses saturate. Both rates are below a byte
per tick (32), which is what `AcceptedPacketsLeave` needs.

In `TestRunner` two workers and three jobs give a worker that gets two jobs, one
that gets none, and a stop job taken while another worker still runs. In
`Visualizer` three timers suffice for a redraw nested in a redraw and a third timer
started by a change of speed inside; `MaxTime` ends a run after it was granted
several periods, and stops redraws only.

Further configurations, for use by hand:

| Configuration | Module | Result |
|---|---|---|
| `StabilizedRedFull.cfg`, `StabilizedRedPackets.cfg` | `StabilizedRed` | pass: the disc without a device, in full mode with filters and `p_overwrite = 1`, and with a limit in packets and `p_overwrite = 0` |
| `TokenBucketOneQueue.cfg` | `TokenBucketDisc` | pass: a device with one queue, which is never asked for a packet while it is stopped, so that nothing is ever requeued |
| `FindBusyWakeUp.cfg` | `TokenBucketDisc` | violates `AcceptedPacketsLeave` with a rate of two bytes per tick, see section 8 |
| `FindFullModeZap.cfg` | `StabilizedRed` | violates `ZapAtMostPMax`, see section 8 |
| `FindValgrindEntry.cfg`, `FindPartialFile.cfg`, `FindLostJob.cfg` | `TestRunner` | violate `ValgrindErrorsAreEntries`, `CopiedFilesAreComplete`, `EveryRunEnds`, see section 8 |
| `FindPausedTimer.cfg`, `FindLateModel.cfg` | `Visualizer` | violate `PausedStopsTheTimer`, `UpdateBeforeNextRun`, see section 8 |

Deadlock is not checked: the models stop when the last packet has gone through,
the program has ended or the bounds are reached, as the programs do.

## 5. Fairness

`TrafficControl`: weak fairness of the wake callback, of both kinds of iteration
of `Run` and of the end of a transmission. The first and the last are events the
code schedules with `Simulator::ScheduleNow` and `Simulator::Schedule`, and the
simulator executes every event it holds; an iteration follows because a loop in a
handler runs on. Nothing is assumed of the upper layers: `Send` has no fairness,
so a stranded packet cannot be rescued by a later one. `EndOfTransmission`
requires that no wake callback is pending: a callback is scheduled without delay
before the transmission it precedes takes any time.

`TokenBucketDisc`: the same for iterations, wake callbacks, the watchdog, and each
queue of the device; and that time passes, which it does only when no event is
due, as `ProcessOneEvent` takes the earliest event. Again nothing of `Send`.

`TestRunner`: each thread is scheduled and each process ends. Nobody owes an
interrupt, and no outcome is assumed of a process. The fairness of a worker is that
of its next step, whichever it is: a launch may always fail.

`Visualizer`: both threads are scheduled, a run of one period ends, and a timer
fires in the end. The user is never obliged to do anything. `PlayAdvances` needs
only weak fairness although the main thread polls the lock: a redraw that finds it
taken goes back to it after the GTK loop, and the simulation thread, which has
nothing more to run, cannot take it again before a redraw sends it on.

## 6. Proofs

The theorems about `StabilizedRed` hold for every value of the constants that the
named assumptions of `SredBase` allow: `SizeAssumption` (limit, sizes and
bound are natural numbers, sizes positive), `HashAssumption` (only typing),
`ProbabilityAssumption` (both probabilities in [0, 1], as the attribute checkers
enforce) and `AlphaAssumption` (`alpha = p_overwrite / MAX_ZOMBIE_LIST_SIZE`, as
`InitializeParams` sets it).

`StabilizedRedProofs` proves `Spec => []IInv`, from which `TypeOK`,
`Accounting`, `CountersInStep` and `BytesMatchItems` follow. `TypeOK` is not
inductive: that `m_nBytes` stays non-negative when a packet leaves depends on it
being at least the size of the head, that is, on it being the sum of the sizes
held. The invariant carries that sum without a recursive definition, as `Ledger`:
there is a non-decreasing function `ends` from 0 .. Len(items) with `ends[0]` the
bytes dequeued, `ends[Len(items)]` the bytes enqueued, and differences the sizes
of the packets held. Storing a packet extends it, taking the head shifts it.
`IInv` is `TypeOK` with `Accounting`, `CountersInStep` and `Ledger`.

Where a property does state a sum (`SumUpTo`, a recursive function), its recursion
has to be earned first: `SumIs` shows that a function which obeys it is the sum, and
`SumRec` that the sum obeys it. Both take the least place at which something would
go wrong (`LeastNumber`: the natural numbers are well founded), which does for the
induction theorems of the library that no installed prover can instantiate.
`SumAppend` and `SumChange` then say what a push and the change of one element do.
`BytesMatchItemsCorrect` reads the partial sums off the ledger.

The step is proved operation by operation, not path by path: `OneShort` states
what is true of the statistics between the moment `Enqueue` counts a packet and
the moment it is stored or refused, and `RefuseKeepsBaseInv`,
`StoreKeepsBaseInv` and `TakeHeadKeepsBaseInv` show that each operation takes
that to the invariant. They only mention what SRED and ESRED share.
`HitFreqRange` is the arithmetic of the average.

`LossyQueueProofs` proves `ImplementsLossyQueue`: arrivals map to `Accept` or
`Reject`, `Dequeue` to `Deliver`.

`ZombieListProofs` proves `ZapOnlyUnderLoad` (in every mode: zero pressure gives
a numerator of zero, NaN included), `WarmUpIsClean` (inductive relative to
`IInv`) and `HitsLeaveATrace`. The last rests on `TotalDecay`: the frequency can
fall to zero in one miss only if `alpha = 1`, that is with a list of one zombie
and `p_overwrite = 1`, where the same miss erases the hit. It also proves
`OneFatePerPacket` (`OneMoreDrop`: an arrival raises one reason by one, or none)
and `ZombiesAreEvidence` (`EvidenceGrowsByOne`: the places of a flow in the list
and their hits go up by at most the one packet that arrived, whichever of push,
hit, overwrite or keep happens).

Its last section is about what depends on the configuration. Each hypothesis is
what the corresponding finding violates:

| Theorem | Hypothesis | Without it |
|---|---|---|
| `InternalQueueNeverRefusesCorrect` | limit in packets | a queue in bytes refuses a packet the warm-up let through, legitimately |
| `OverflowOnlyWhenFullCorrect` | limit in bytes | finding 3 |
| `FullPressureAboveAThirdCorrect` | limit in bytes | finding 2 |
| `ZapAtMostPMaxCorrect` | mode other than full | `FindFullModeZap` |
| `ReceivedIsDroppedPlusEnqueuedCorrect` | filters, or no hash that gives -1 | finding 1 |

The second, the third and the last thus state that the disagreement of the finding
is confined to the configuration it names.

`TrafficControlProofs` starts with `DiscInsideSystem`, `SystemSpec => Spec`: loops,
wake-ups and the device reach the disc only by `Enqueue` and `Dequeue`, so all the
theorems above hold of the disc on a device. `DeviceInv` then gives the device its
shape; it needs that an idle device has an empty queue and no outstanding wake-up,
because a packet handed to an idle device passes through its queue
(`PassesThrough`), and that the byte counter is a sum (`BytesLeft`, a ledger as
above). On it rest two invariants:

- `FlowControlInv` (`StoppedIffFull` and `DeviceNeverDiscards`, which need each
  other), under `PacketsFit`: a device queue in bytes holds at least an MTU and no
  packet with its PPP header is larger than one. Finding 4 is its second half
  violated; a queue smaller than the MTU violates the first. A queue in packets
  needs nothing.
- `ServiceInv`, for a device queue in packets, the default. A backlog that no
  stopped queue explains has a wake-up coming, and then the device has room for
  exactly one packet. That is why a quota of one packet is enough: with a queue in
  bytes one departure makes room for several packets, and finding 5 follows. From
  it `BacklogWillBeServed` and `WorkConserving`, for every quota, zero included.

`ImplementsLossyQueueEndToEnd` follows under `PacketsFit`: the two queues in a row
are the pending packets of `LossyQueue`. Handing a packet from one to the other
is a stutter (`HandOverKeepsOrder`), a transmission a `Deliver`.

`ESRedProofs` proves, under the same assumptions as `StabilizedRed`, `ZombiesOK`
and all that is checked of ESRED: `StampFollowsRecord`, `OverwritingOnlyGetsRarer`
and, for `p_overwrite < 1`, `ImplementsStabilizedRed`. `ListSteps` reduces every
step to one of four (a push, a hit, an overwrite, or the list left alone), and the
shape of the list with the clock (`ListOK`) is inductive by itself. For the
refinement, `Bar` is the list without its stamps; `BarSteps` shows that each of
the four steps is the corresponding one on `Bar`, and the `Same...` lemmas that
what the two discs share is the same seen from either. With
`ImplementsLossyQueueCorrect`, SRED's theorem, ESRED is a lossy queue too whenever
`p_overwrite < 1`.

`TokenBucketProofs` proves, under `TokenBucketAssumption` (each size fits in the
buckets; rates, limits and the number of queues are arbitrary):

- `RateIsKept`. It is not inductive: it must know what the buckets hold. The
  invariant (`BucketInv`) is `excess + tokens <= Burst`, in units of `excess`,
  where the tokens are those at the check point plus those that came since, up
  to the bucket and *not* rounded (`Exact`), and the same for the second bucket.
  `TokensOfATick` says that a tick adds no more to them than the rate brings;
  `TokensOfARelease` that a release, which does round (`CreditBound`: by half a
  token at most), takes at least as much from them as it adds to `excess`, which
  is where the half byte per packet comes from. `RunIterations` first reduces
  all iterations of `Run` to two kinds, those that leave the buckets alone and
  those that release one packet.
- `SentInOrderWithHeader`. The invariant `OrderInv` gives each place its rank:
  what was sent is ahead of the requeued packet, that of the kept one, that of
  the queue; packets in the child have no header and those beyond it one.
  `PeekOrder` shows that it survives a peek which drops any number of packets,
  `SendOrder` the append to what was sent.
- `TypeOK`, with both buckets between zero and full.
- `WakesUpLater`, for rates of at most a byte per tick (`SlowRates`): a wake-up that
  `Run` schedules for itself is never due at once, although its delay is truncated
  (`DelayIsPositive`). The liveness of `AcceptedPacketsLeave` rests on it, and
  `FindBusyWakeUp.cfg` shows what happens without.
- `EveryPacketInOnePlace`. `PlaceInv` says it as sets: what is held, sent or
  dropped is what arrived, and nothing dropped is anywhere else. That nothing is
  held twice or both held and sent is `OrderInv`, whose strict order makes
  identities distinct (`IdsInOrder`), from which `HeldCounts` gets the numbers.
  `PeekPlaces`: what a peek drops was in the child, was not sent, and is not in
  what the peek leaves.

`TestRunnerProofs` proves the type, the safety and the refinement of its run, for
any finite set of workers and any number of jobs, skipped ones and failing
launches (`JobsAssumption`). Four invariants build on each other. `TypeInv` adds to
`TypeOK` that a worker past the test for a break job has a job (`HandsInv`).
`JobsInOnePlace` is inductive on it: `TakesOneJob` and `PutsOneJob` show that a
hand-over moves a job from a count to a set and back. `StagesInv` says what has been
done with a job at each place: not started in the input queue, started and not
ended in the hands of a worker that waits, given a verdict only after it was handed
back with the return code of its process; that a step of one worker does not
disturb a job elsewhere (`WorkersDoNotMeddle`) needs `JobsInOnePlace`. `TallyInv`
makes the counters the cardinalities of the sets of verdicts, so that the sums the
main thread compares are equal just when every job has such a verdict
(`TallyIsComplete`).

`VisualizerProofs` proves all six invariants of its run, for any set of periods
with a largest one, any number of timers, queries and messages, and any depth of
nested redraws. `TypeOK` comes first. `MessagesAccounted` needs that a redraw holds
messages only between its lock and its end. `PauseStopsSoon` rests on a credit:
`now` plus one period for each run the simulation may still make with no further
signal (one that is under way, one that an uncleared signal stands for) is at most
two periods beyond the time of the pause, where a run never goes beyond the target
and the target is near `now`.

Only model-checked: the five properties under fairness (`AcceptedPacketsAreSent`,
`AcceptedPacketsLeave`, `RunEnds`, `QuitEnds` and `PlayAdvances`), which are
beyond this prover. The theorems say of them what safety can: no accepted packet is
reordered, duplicated or lost, and a backlog always has the event pending that will
serve it.

The proofs found one mistake of form in a model. `Verdict` of `TestRunner` was a
`CASE` whose first two guards could both hold (a job that is skipped and was cut
short); TLC takes the first, but TLA+ leaves the choice open, and the proof of
`VerdictsAreTrue` stopped there. It is now nested as in `test.py`, where the order
of the tests decides.

## 7. Findings

Each is the counterexample of one run, which states what the quoted
documentation says; `PROJECT.json` has the quotations.

1. `FindInvalidFlow`: a packet with flow identifier -1 is dropped in the
   statistics and then enqueued all the same (a `return false` is missing), so
   the assertion of `QueueDisc::Enqueue` fails.
2. `FindBytesAsPackets`: with a limit in packets (the default) `p_sred` compares
   bytes with packets and is zero for a queue well over a third full.
3. `FindWarmUpOverflow`: with a limit in packets the warm-up adds the bytes of a
   packet to a number of packets and refuses packets there is room for.
4. `FindDeviceDiscards`: a device queue in bytes is left open with room for one
   MTU, and then drops a packet of one MTU because of the PPP header.
5. `FindQuotaStall`: with a device queue in bytes, `Run` may use up its quota
   with the device queue open; it schedules nothing, and the rest of the disc
   waits until another packet arrives, perhaps for ever.

Consequently `OverflowOnlyWhenFull` is checked with a limit in bytes,
`ZapAtMostPMax` in simple mode, `DeviceNeverDiscards` in bytes with packets
whose header fits in the MTU, and `AcceptedPacketsAreSent` in bytes with no
limit on the quota.

## 8. Further divergences

These were met in the same way; the configuration named can be run by hand.

- `FindFullModeZap`: in full mode the drop probability is `p_sred` times
  1 + 1/`p_hitFreq` (`DoEnqueue` passes the literal 1 for hit, at
  `stabilized-red-queue-disc.cc:264`), so it exceeds the attribute
  `MaximumDropProbability`, "maximum probability of dropping a packet", and is
  certainty right after the warm-up.
- `FindValgrindEntry`: a suite that fails valgrind leaves the results file it
  wrote, and no entry VALGR after it; `test.py:1806-1810` says "we fake up an xml
  entry with a VALGR result". The reports made from `results.xml` show the suite
  as passed.
- `FindPartialFile`: output that cannot be decoded replaces any return code by 1
  (`test.py:809`), so that the file of a suite that crashed is copied, although
  `test.py:1779-1783` says of a crash that "the file should be considered corrupt
  and useless". If it is missing the main thread dies of the exception.
- `FindLostJob`: an exception in a worker (`Popen` may raise) takes its job with
  it, and the main thread, which counts jobs, waits for ever at `test.py:1696`.
- `FindPausedTimer`: a pause and a change of speed handled inside a redraw start a
  timer whose id the paused redraw then forgets; it stays alive and runs beside the
  one the next press of play starts ("if we're paused, stop the update timer",
  `core.py:1452`).
- `FindLateModel`: the next period may begin, and clear the samples, before
  `update_model` has read those of the last ("signal emitted after every simulation
  period", `core.py:709`).
- `FindBusyWakeUp`: the wake-up is scheduled "when enough tokens are available"
  (`tbf-queue-disc.cc:256-258`), but its delay is truncated to the clock
  (`data-rate.cc:278`). At a rate of more than a byte per tick (8 Gb/s with
  nanoseconds) the delay for one missing byte is zero, and the disc schedules `Run`
  for the same instant, finds the byte still missing, and so on for ever: simulated
  time stands still. `WakesUpLater` shows that lower rates are safe from it.
- The token bucket may exceed its rate: each release rounds its tokens to the
  nearest (`tbf-queue-disc.cc:216,226`) and moves the check point (`:246`). At half
  a byte per tick, packets of one byte in a queue that is run every tick leave one
  per tick, twice the rate, since `round (0.5)` is 1 each time. `RateIsKept` bounds
  this by half a byte per packet, which real packets, being far longer, hardly feel.
  In the other direction, rates count in whole bytes per second (integer division by
  8), and a rate below 8 b/s brings no token ever: `AcceptedPacketsLeave` needs 8.
- A packet larger than `Burst` (or than `Mtu`, with a peak rate) is never sent by
  the token bucket and holds up all behind it; `TokenBucketAssumption` excludes it.

## 9. What is not modelled, and the plan

Not modelled:

- RED, the baseline of the experiments: vendored, and its decisions rest on a
  real-valued average and on powers of it, of which a discrete model would keep
  little. The other discs, the wifi, lr-wpan and internet models, which are ns-3's
  and take no part in SRED.
- The experiment programs and notebooks: straight-line set-up and plots.
- The Python bindings and their generators (`bindings/`, `modulegen`): generated
  lists of declarations, without state or control flow, although they are most of
  the Python text of the tree. The build files (`wscript`): configuration of waf.
- Of the modelled components: byte queue limits, `TrafficControlLayer::Send`
  without a root disc, a device queue in bytes smaller than the MTU (stopped by
  its first packet), CoDel's control law and a `MinBytes` of zero; of `test.py`
  the options, the selection of tests and the translation of the results; of the
  visualizer what is drawn, the plugins and the shell, and an exception in
  `update_view` (`core.py:1437-1442`, which then gives back the lock, loses the
  messages taken and ends the timer). That the user does nothing more after a
  quit is GTK's doing: the default handler of "delete-event" destroys the window
  once `_quit` has returned.

Left of the plan: the flow control of a device queue in bytes as a theorem about
`BacklogWillBeServed` for quotas at least as large as the number of packets one
departure makes room for; byte queue limits as a module of their own.
