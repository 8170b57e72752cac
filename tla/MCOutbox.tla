------------------------------ MODULE MCOutbox ------------------------------
(* Small instances of Outbox for TLC. *)
EXTENDS Outbox, TLC

\* Rows and dispatchers are only compared, so safety runs may permute them.
Symmetry == Permutations(Rows) \cup Permutations(Dispatchers)
=============================================================================
