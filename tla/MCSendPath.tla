----------------------------- MODULE MCSendPath -----------------------------
(* SendPath on small instances for TLC.                                      *)
EXTENDS SendPath, TLC

Symmetry == Permutations(Users) \cup Permutations(Sessions)
                \cup Permutations(Attempts) \cup Permutations(Conns)
=============================================================================
