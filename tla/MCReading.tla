----------------------------- MODULE MCReading -----------------------------
(* Reading on a small instance for TLC.                                      *)
EXTENDS Reading

\* Every device is the same user's.
OneOwner == [d \in Devices |-> CHOOSE u \in Users : TRUE]

Symmetry == Permutations(Devices)
=============================================================================
