--------------------------- MODULE TrafficControl ---------------------------
(***************************************************************************)
(* A StabilizedRed root queue disc on a point-to-point device:             *)
(* TrafficControlLayer::Send, the loop of QueueDisc::Run, the wake         *)
(* callback the device schedules, and the device itself.                   *)
(*                                                                         *)
(* The simulator runs one event at a time.  Run is a loop inside an event: *)
(* its iterations are steps of their own, and while running is TRUE no     *)
(* other event happens.                                                    *)
(***************************************************************************)
EXTENDS StabilizedRed, PointToPointDevice

CONSTANTS Quota,    \* m_quota, an unsigned integer: zero is allowed
          UintMax   \* 2^32 - 1 in the code

ASSUME QuotaAssumption == UintMax \in Nat \ {0} /\ Quota \in 0 .. UintMax

VARIABLES running,  \* m_running
          quota     \* the local variable of Run

sysVars == <<vars, devVars, running, quota>>

-----------------------------------------------------------------------------
\* Run: RunBegin succeeds because m_running is never set between events.
RunBegin == /\ ~running
            /\ running' = TRUE
            /\ quota' = Quota

\* quota -= 1, as an unsigned integer.
Decremented(n) == IF n = 0 THEN UintMax ELSE n - 1

\* TrafficControlLayer::Send: Enqueue, then Run.
Send(item) == Enqueue(item) /\ RunBegin /\ UNCHANGED devVars

\* The event NetDeviceQueue::Wake scheduled: Run.
WakeCallback == /\ txq.wakes > 0
                /\ txq' = [txq EXCEPT !.wakes = @ - 1]
                /\ RunBegin
                /\ UNCHANGED <<vars, txMachineState, currentPkt, sent>>

\* An iteration in which DequeuePacket finds the device queue stopped or the
\* disc empty: Restart returns false and the loop ends.
RestartNothing == /\ running
                  /\ txq.stopped \/ queue.items = <<>>
                  /\ running' = FALSE
                  /\ UNCHANGED <<vars, devVars, quota>>

\* Faulty forms of the definition below, which the properties must refute.
OnePacketPerRun == FALSE

\* Restart returned a packet sent, and Transmit whether to go on: the disc still
\* holds packets and the device queue is not stopped.
LoopContinues ==
  /\ stats'.stored.packets # 0
  /\ ~txq'.stopped
  /\ Decremented(quota) # 0

\* An iteration that sends: DequeuePacket, then Transmit.  The device queue is
\* not stopped in between, so Transmit never requeues.
RestartSend == /\ running
               /\ ~txq.stopped
               /\ Dequeue
               /\ DeviceSend(Head(queue.items))
               /\ quota' = Decremented(quota)
               /\ running' = LoopContinues

\* The end of a transmission.  Every wake callback was scheduled, with no
\* delay, before the transmission in course started: it runs before this event.
EndOfTransmission == /\ ~running
                     /\ txq.wakes = 0
                     /\ TransmitComplete
                     /\ UNCHANGED <<vars, running, quota>>

SystemInit == Init /\ DeviceInit /\ running = FALSE /\ quota = Quota

SystemNext ==
  \/ \E hash \in Hashes, size \in Sizes : Send(Packet(hash, size))
  \/ WakeCallback
  \/ RestartNothing
  \/ RestartSend
  \/ EndOfTransmission

\* The simulator executes every event it has scheduled, and a loop goes on until
\* it ends.  Nothing obliges the upper layers to send.
Fairness == /\ WF_sysVars(WakeCallback)
            /\ WF_sysVars(RestartNothing)
            /\ WF_sysVars(RestartSend)
            /\ WF_sysVars(EndOfTransmission)

SystemSpec == SystemInit /\ [][SystemNext]_sysVars /\ Fairness

-----------------------------------------------------------------------------
(* Properties *)

\* The device part of the state keeps its shape; at most one wake callback is
\* ever outstanding.
DeviceTypeOK ==
  /\ txq.stopped \in BOOLEAN
  /\ txq.wakes \in 0 .. 1
  /\ txq.queue.stored \in Counters
  /\ txMachineState \in {"READY", "BUSY"}
  /\ currentPkt \in 0 .. MaxArrivals
  /\ txMachineState = "BUSY" <=> currentPkt # 0
  /\ running \in BOOLEAN
  /\ quota \in 0 .. UintMax

\* Flow control is exact: the transmission queue is stopped just when it could
\* not take a packet of MTU bytes.
StoppedIffFull == txq.stopped <=> D!WouldOverflow(txq.queue, Mtu)

\* "This should not happen if the device correctly stops the queue"
\* (PacketDiscarded): no packet the disc hands over is dropped by the device.
DeviceNeverDiscards == txq.queue.discarded = 0

\* No lost wake-up: between events, a backlog in the disc means that a wake
\* callback is scheduled, or that the device queue is stopped and a transmission
\* whose end will dequeue from it is in course.
BacklogWillBeServed ==
  ~running /\ queue.items # <<>> =>
    \/ txq.wakes > 0
    \/ txq.stopped /\ txMachineState = "BUSY" /\ txq.queue.items # <<>>

\* The link never idles while a packet waits in either queue.
WorkConserving ==
  ~running /\ txMachineState = "READY" =>
    txq.queue.items = <<>> /\ (queue.items = <<>> \/ txq.wakes > 0)

\* Disc and device together are still a lossy queue: packets go out on the
\* channel in the order they were accepted, none twice, and only the disc loses.
EndToEnd == INSTANCE LossyQueue WITH
              n <- nArrived,
              pending <- Uids(txq.queue.items \o queue.items),
              delivered <- sent

ImplementsLossyQueueEndToEnd == EndToEnd!Spec

\* Every packet the disc accepts is eventually transmitted, even if nothing else
\* ever arrives: stops, wakes and the quota of Run never strand a packet.
AcceptedPacketsAreSent ==
  \A i \in 1 .. MaxArrivals :
    (i <= nArrived /\ i \notin lost) ~> (\E k \in DOMAIN sent : sent[k] = i)

=============================================================================
