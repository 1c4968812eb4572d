----------------------------- MODULE ByteStream -----------------------------
(* What one direction of a connection promises its user: the bytes that    *)
(* arrive are the bytes that were sent, in their order, without gaps and   *)
(* without repetitions.  How many arrive is not promised.                  *)
EXTENDS Naturals, Sequences

CONSTANT Byte

VARIABLES sent, delivered

Init == sent = <<>> /\ delivered = <<>>

Send ==
  /\ \E b \in Byte : sent' = Append(sent, b)
  /\ UNCHANGED delivered

Deliver ==
  /\ \E n \in (Len(delivered) + 1)..Len(sent) : delivered' = SubSeq(sent, 1, n)
  /\ UNCHANGED sent

Spec == Init /\ [][Send \/ Deliver]_<<sent, delivered>>
=============================================================================
