----------------------------- MODULE MCPresence -----------------------------
(* Presence on small instances for TLC.                                      *)
EXTENDS Presence, TLC

Symmetry == Permutations(Users) \cup Permutations(Conns)
=============================================================================
