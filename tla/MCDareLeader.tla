--------------------------- MODULE MCDareLeader ---------------------------
(* DareLeader on small buffers for TLC. *)
EXTENDS DareLeader
=============================================================================
