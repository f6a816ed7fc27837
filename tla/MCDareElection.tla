--------------------------- MODULE MCDareElection ---------------------------
(* DareElection on a small group for TLC. *)
EXTENDS DareElectionInvariant

\* Bound: how many CTRL queue pairs have writes in flight at a time.
MaxBusy == 3

QueuePairs == {p \in Servers \X Servers : p[1] # p[2]}
FewBusy == Cardinality({p \in QueuePairs : wire[p[1]][p[2]] # << >>}) <= MaxBusy
=============================================================================
