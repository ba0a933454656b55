--------------------------- MODULE QueueDiscStats ---------------------------
(***************************************************************************)
(* The accounting of the base class QueueDisc: what Enqueue, and the       *)
(* functions its internal queue calls back through the trace sources, do   *)
(* to m_nPackets, m_nBytes and m_stats.  Operators on a statistics record. *)
(*                                                                         *)
(* Every counter is kept in packets and in bytes.  nDropped... by reason   *)
(* is kept in packets only, and the counters of DropAfterDequeue, Mark and *)
(* Requeue are left out: the discs modelled never call the first two.      *)
(***************************************************************************)
EXTENDS Integers, PacketCounters

\* The reasons the two SRED discs pass to DropBeforeEnqueue, and the one the
\* internal queue's drop callback passes (INTERNAL_QUEUE_DROP).
Reasons == {"NoMatch", "InvalidFlowID", "QUEUE_OVERFLOW", "Zap", "Overflow",
            "InternalQueue"}

ZeroStats ==
  [stored |-> NoItems, received |-> NoItems, enqueued |-> NoItems,
   dequeued |-> NoItems, droppedBefore |-> NoItems,
   byReason |-> [r \in Reasons |-> 0]]

\* QueueDisc::Enqueue, before it calls DoEnqueue.
Received(s, item) == [s EXCEPT !.received = Plus(@, item)]

\* QueueDisc::PacketEnqueued
PacketEnqueued(s, item) ==
  [s EXCEPT !.stored = Plus(@, item), !.enqueued = Plus(@, item)]

\* Faulty forms of the definition below, which the properties must refute.
PacketDequeuedStillStored(s, item) == [s EXCEPT !.dequeued = Plus(@, item)]

\* QueueDisc::PacketDequeued (m_peeked is never set: both discs override
\* DoPeek with one that leaves the packet in the internal queue).
PacketDequeued(s, item) ==
  [s EXCEPT !.stored = Minus(@, item), !.dequeued = Plus(@, item)]

\* QueueDisc::DropBeforeEnqueue
DropBeforeEnqueue(s, item, reason) ==
  [s EXCEPT !.droppedBefore = Plus(@, item), !.byReason[reason] = @ + 1]

=============================================================================
