----------------------------- MODULE MCTransport -----------------------------
(* Values for the constants of Transport. *)
EXTENDS Transport, TLC

Symmetry == Permutations(Conn)
=============================================================================
