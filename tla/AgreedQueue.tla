---------------------------- MODULE AgreedQueue ----------------------------
(***************************************************************************)
(* What the fast path of the e1000 card promises: packets are numbered in  *)
(* the order in which they arrive; they are agreed on in this order, and   *)
(* the guest gets each one once, in this order, after it was agreed on.    *)
(* The promise ends when void becomes true.                                *)
(***************************************************************************)
EXTENDS Integers, Sequences

VARIABLES arrived,    \* how many packets have arrived
          agreed,     \* the packets in the order of the replicated log
          delivered,  \* the packets that the guest got
          void        \* a limit was met: nothing is promised any more

avars == <<arrived, agreed, delivered, void>>

\* The first n packets, in order.
FirstPackets(n) == [i \in 1 .. n |-> i]

Init == arrived = 0 /\ agreed = <<>> /\ delivered = <<>> /\ void = FALSE

Arrive == arrived' = arrived + 1 /\ UNCHANGED <<agreed, delivered, void>>

\* One packet or a batch becomes part of the log.
Agree ==
  /\ \E n \in Len(agreed) + 1 .. arrived : agreed' = FirstPackets(n)
  /\ UNCHANGED <<arrived, delivered, void>>

Deliver ==
  /\ Len(delivered) < Len(agreed)
  /\ delivered' = FirstPackets(Len(delivered) + 1)
  /\ UNCHANGED <<arrived, agreed, void>>

\* A limit is met, or was met before.
Void == void' = TRUE

Next == Arrive \/ Agree \/ Deliver \/ Void

Spec == Init /\ [][Next]_avars
=============================================================================
