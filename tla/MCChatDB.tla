------------------------------ MODULE MCChatDB ------------------------------
(* ChatDB on small instances for TLC.                                        *)
EXTENDS ChatDB, TLC

\* Session ids, users and the slots of concurrent handlers are interchangeable
\* in every safety property, and none of them is named in a definition.
Symmetry == Permutations(Users) \cup Permutations(Sessions)
                \cup Permutations(Storers) \cup Permutations(Creators)
=============================================================================
