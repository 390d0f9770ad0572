---------------------------- MODULE MCDiscovery ----------------------------
(* Discovery on a small instance for TLC.                                    *)
EXTENDS Discovery

\* Every registration is an incarnation of the same process.
SameInstance == [r \in Regs |-> CHOOSE i \in Instances : TRUE]
=============================================================================
