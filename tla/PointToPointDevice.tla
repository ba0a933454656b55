------------------------- MODULE PointToPointDevice -------------------------
(***************************************************************************)
(* PointToPointNetDevice with its DropTail transmission queue and the      *)
(* NetDeviceQueue that watches the queue through its trace sources: it     *)
(* stops when the queue could not take one more packet of MTU bytes, and   *)
(* wakes the queue disc when it can again.  BQL is off (the default) and   *)
(* the link is up.                                                         *)
(*                                                                         *)
(* txq is [queue, stopped, wakes]: the device queue, m_stoppedByDevice,    *)
(* and the number of wake callbacks scheduled and not yet run.             *)
(***************************************************************************)
EXTENDS Integers, Sequences, PacketCounters

CONSTANTS DevUnit, DevMaxSize,  \* limit of the device queue
          Mtu,                  \* GetMtu ()
          PppHeader             \* bytes AddHeader puts on a packet

ASSUME DeviceAssumption == /\ DevUnit \in {"packets", "bytes"}
                           /\ DevMaxSize \in Nat \ {0}
                           /\ Mtu \in Nat \ {0}
                           /\ PppHeader \in Nat

VARIABLES txq,
          txMachineState,  \* "READY" or "BUSY"
          currentPkt,      \* m_currentPkt: a packet's identity, 0 for none
          sent             \* history: packets put on the channel, in order

devVars == <<txq, txMachineState, currentPkt, sent>>

D == INSTANCE DropTailQueue WITH Unit <- DevUnit, MaxSize <- DevMaxSize

DeviceInit ==
  /\ txq = [queue |-> D!EmptyQueue, stopped |-> FALSE, wakes |-> 0]
  /\ txMachineState = "READY"
  /\ currentPkt = 0
  /\ sent = <<>>

\* Faulty forms of the definition below, which the properties must refute.
QueuedWrongMtu(t, p) ==
  LET q == D!Insert(t.queue, p)
  IN  [t EXCEPT !.queue = q, !.stopped = @ \/ D!WouldOverflow(q, 1)]

QueuedAtFront(t, p) ==
  LET q == [D!Insert(t.queue, p) EXCEPT !.items = <<p>> \o t.queue.items]
  IN  [t EXCEPT !.queue = q, !.stopped = @ \/ D!WouldOverflow(q, Mtu)]

\* m_queue->Enqueue with NetDeviceQueue::PacketEnqueued.
Queued(t, p) ==
  LET q == D!Insert(t.queue, p)
  IN  [t EXCEPT !.queue = q, !.stopped = @ \/ D!WouldOverflow(q, Mtu)]

\* m_queue->Enqueue with NetDeviceQueue::PacketDiscarded.
Discarded(t) == [t EXCEPT !.queue = D!Discard(@), !.stopped = TRUE]

\* Faulty forms of the definition below, which the properties must refute.
UnqueuedWithoutCallback(t) ==
  LET q == D!RemoveHead(t.queue)
  IN  [t EXCEPT !.queue = q, !.stopped = @ /\ D!WouldOverflow(q, Mtu)]

UnqueuedAlwaysWakes(t) ==
  [queue |-> D!RemoveHead(t.queue), stopped |-> FALSE,
   wakes |-> IF t.stopped THEN t.wakes + 1 ELSE t.wakes]

\* m_queue->Dequeue with NetDeviceQueue::PacketDequeued and Wake, which
\* schedules the callback only if the queue was stopped.
Unqueued(t) ==
  LET q == D!RemoveHead(t.queue)
  IN  IF D!WouldOverflow(q, Mtu) THEN [t EXCEPT !.queue = q]
      ELSE [queue |-> q, stopped |-> FALSE,
            wakes |-> IF t.stopped THEN t.wakes + 1 ELSE t.wakes]

\* The head of the queue goes out: Dequeue, then TransmitStart.
TransmitHead(t) ==
  /\ txq' = Unqueued(t)
  /\ txMachineState' = "BUSY"
  /\ currentPkt' = Head(t.queue.items).uid
  /\ sent' = Append(sent, Head(t.queue.items).uid)

\* PointToPointNetDevice::Send
DeviceSend(item) ==
  LET p == [item EXCEPT !.size = @ + PppHeader]
  IN  \/ /\ D!HasRoomFor(txq.queue, p)
         /\ txMachineState = "READY"
         /\ TransmitHead(Queued(txq, p))
      \/ /\ D!HasRoomFor(txq.queue, p)
         /\ txMachineState = "BUSY"
         /\ txq' = Queued(txq, p)
         /\ UNCHANGED <<txMachineState, currentPkt, sent>>
      \/ /\ ~D!HasRoomFor(txq.queue, p)
         /\ txq' = Discarded(txq)
         /\ UNCHANGED <<txMachineState, currentPkt, sent>>

\* Faulty forms of the definition below, which the properties must refute.
TransmitCompleteWithoutNext ==
  /\ txMachineState = "BUSY"
  /\ txMachineState' = "READY"
  /\ currentPkt' = 0
  /\ UNCHANGED <<txq, sent>>

\* PointToPointNetDevice::TransmitComplete
TransmitComplete ==
  /\ txMachineState = "BUSY"
  /\ \/ /\ txq.queue.items = <<>>
        /\ txMachineState' = "READY"
        /\ currentPkt' = 0
        /\ UNCHANGED <<txq, sent>>
     \/ /\ txq.queue.items # <<>>
        /\ TransmitHead(txq)

=============================================================================
