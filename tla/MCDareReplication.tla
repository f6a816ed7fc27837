------------------------- MODULE MCDareReplication -------------------------
(* DareReplication on small logs for TLC. *)
EXTENDS DareReplication

\* Logs of up to two entries, of one or two earlier terms.
MCLogs == {<<0>>, <<0, 1>>}
MCEmptyLogs == {<< >>}

\* Bound: only a faulty follower may begin without a committed entry.  As
\* commit offsets never decrease, this only leaves out initial states.
FirstCommitted == \A s \in Servers \ Faulty : commit[s] >= 1
=============================================================================
