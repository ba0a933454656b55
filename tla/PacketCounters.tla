--------------------------- MODULE PacketCounters ---------------------------
(***************************************************************************)
(* A pair of counters, one in packets and one in bytes: the queues and the *)
(* queue discs keep every occupancy and every statistic twice.  An item is *)
(* any record with a field "size".                                         *)
(***************************************************************************)
EXTENDS Integers

NoItems == [packets |-> 0, bytes |-> 0]

Plus(c, item) == [packets |-> c.packets + 1, bytes |-> c.bytes + item.size]

Minus(c, item) == [packets |-> c.packets - 1, bytes |-> c.bytes - item.size]

=============================================================================
