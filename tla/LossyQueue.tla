----------------------------- MODULE LossyQueue -----------------------------
(***************************************************************************)
(* What a queue disc promises to the layer above: packets are numbered as  *)
(* they arrive; each is accepted or rejected on the spot, once and for     *)
(* good; the accepted ones come out exactly once and in order.  Which ones *)
(* are rejected is left open.                                              *)
(***************************************************************************)
EXTENDS Integers, Sequences

VARIABLES n,         \* packets that have arrived
          pending,   \* accepted and still inside, oldest first
          lost,      \* rejected
          delivered  \* handed over, oldest first

lqVars == <<n, pending, lost, delivered>>

Init == n = 0 /\ pending = <<>> /\ lost = {} /\ delivered = <<>>

Accept == /\ n' = n + 1
          /\ pending' = Append(pending, n + 1)
          /\ UNCHANGED <<lost, delivered>>

Reject == /\ n' = n + 1
          /\ lost' = lost \cup {n + 1}
          /\ UNCHANGED <<pending, delivered>>

Deliver == /\ pending # <<>>
           /\ delivered' = Append(delivered, Head(pending))
           /\ pending' = Tail(pending)
           /\ UNCHANGED <<n, lost>>

Next == Accept \/ Reject \/ Deliver

Spec == Init /\ [][Next]_lqVars

=============================================================================
