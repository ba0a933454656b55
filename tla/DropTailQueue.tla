--------------------------- MODULE DropTailQueue ---------------------------
(***************************************************************************)
(* Queue<Item> / DropTailQueue<Item> (network/utils): a FIFO bounded in    *)
(* packets or in bytes.  It is a module of operators on a queue record, so *)
(* that a queue disc and a device can each instantiate it with their own   *)
(* unit and limit.  An item is any record with a field "size".             *)
(***************************************************************************)
EXTENDS Integers, Sequences, PacketCounters

CONSTANTS Unit,      \* QueueSizeUnit: "packets" or "bytes"
          MaxSize    \* GetMaxSize ().GetValue ()

\* items is m_packets; stored is <<m_nPackets, m_nBytes>>; discarded is
\* m_nTotalDroppedPacketsBeforeEnqueue.
EmptyQueue == [items |-> <<>>, stored |-> NoItems, discarded |-> 0]

\* GetCurrentSize ().GetValue (): in the unit of the limit.
CurrentSize(q) == IF Unit = "packets" THEN q.stored.packets ELSE q.stored.bytes

\* Faulty forms of the definition below, which the properties must refute.
HasRoomForIgnoringItem(q, item) == CurrentSize(q) <= MaxSize

\* GetCurrentSize () + item <= GetMaxSize ()
HasRoomFor(q, item) ==
  CurrentSize(q) + (IF Unit = "packets" THEN 1 ELSE item.size) <= MaxSize

\* WouldOverflow (1, nBytes)
WouldOverflow(q, nBytes) ==
  CurrentSize(q) + (IF Unit = "packets" THEN 1 ELSE nBytes) > MaxSize

\* Faulty forms of the definition below, which the properties must refute.
InsertWithoutBytes(q, item) ==
  [q EXCEPT !.items = Append(@, item),
            !.stored = [@ EXCEPT !.packets = @ + 1]]

InsertAtFront(q, item) ==
  [q EXCEPT !.items = <<item>> \o @, !.stored = Plus(@, item)]

\* DropTailQueue::Enqueue, success and failure.
Insert(q, item) ==
  [q EXCEPT !.items = Append(@, item), !.stored = Plus(@, item)]

Discard(q) == [q EXCEPT !.discarded = @ + 1]

\* DropTailQueue::Dequeue on a queue that is not empty.
RemoveHead(q) ==
  [q EXCEPT !.items = Tail(@), !.stored = Minus(@, Head(q.items))]

=============================================================================
