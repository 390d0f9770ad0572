----------------------------- MODULE MessageLog -----------------------------
(* What the two storage-side services promise together: every session has    *)
(* one append-only log of messages, a membership fixed when the session      *)
(* appears, and a read position per user that only moves forward.            *)
EXTENDS Integers, Sequences

CONSTANTS
    Users, Sessions,
    Entries,    \* what a log records of a message
    Seqs        \* the read positions asked for

VARIABLES
    exists,     \* the sessions created so far
    membership, \* their members
    log,        \* the messages of each session, in order
    position    \* how far each user has read each session

logVars == <<exists, membership, log, position>>

LogInit == /\ exists = {}
           /\ membership = [s \in Sessions |-> {}]
           /\ log = [s \in Sessions |-> << >>]
           /\ position = [s \in Sessions |-> [u \in Users |-> 0]]

Create(s, ms) == /\ s \notin exists
                 /\ ms # {}
                 /\ exists' = exists \cup {s}
                 /\ membership' = [membership EXCEPT ![s] = ms]
                 /\ UNCHANGED <<log, position>>

Post(s, e) == /\ s \in exists
              /\ log' = [log EXCEPT ![s] = Append(@, e)]
              /\ UNCHANGED <<exists, membership, position>>

Read(s, u, q) == /\ u \in membership[s]
                 /\ q > position[s][u]
                 /\ position' = [position EXCEPT ![s][u] = q]
                 /\ UNCHANGED <<exists, membership, log>>

LogNext == \/ \E s \in Sessions, ms \in SUBSET Users : Create(s, ms)
           \/ \E s \in Sessions, e \in Entries : Post(s, e)
           \/ \E s \in Sessions, u \in Users, q \in Seqs : Read(s, u, q)

LogSpec == LogInit /\ [][LogNext]_logVars
=============================================================================
