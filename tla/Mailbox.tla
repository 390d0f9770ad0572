------------------------------- MODULE Mailbox -------------------------------
(* What the chat servers promise of a message between its acceptance and the *)
(* receiver's channel: it is owed until it is handed over, stored, given up  *)
(* for a reason the log tells, or lost with all that the same server owed,   *)
(* and it leaves the store only handed over.                                 *)
(* A message can be handed over more than once, and after it was stored.     *)
EXTENDS Naturals

CONSTANTS Users, Msgs

VARIABLES accepted, owed, stored, handed, dropped, lost

mailVars == <<accepted, owed, stored, handed, dropped, lost>>

Nothing == [u \in Users |-> {}]

Init == /\ accepted = Nothing /\ owed = Nothing /\ stored = Nothing
        /\ handed = Nothing /\ dropped = Nothing /\ lost = Nothing

Accept(m) ==
    /\ accepted' # accepted
    /\ \A u \in Users : m \notin accepted[u]
    /\ \E R \in (SUBSET Users) \ {{}} :
         /\ accepted' = [u \in Users |-> IF u \in R THEN accepted[u] \cup {m} ELSE accepted[u]]
         /\ owed' = [u \in Users |-> IF u \in R THEN owed[u] \cup {m} ELSE owed[u]]
    /\ UNCHANGED <<stored, handed, dropped, lost>>

\* By the one who owes it, by a replay, or by a call that was given up.
Hand(u, m) ==
    /\ m \in accepted[u] \ handed[u]
    /\ handed' = [handed EXCEPT ![u] = @ \cup {m}]
    /\ owed' \in {owed, [owed EXCEPT ![u] = @ \ {m}]}
    /\ UNCHANGED <<accepted, stored, dropped, lost>>

\* The answer of a call that handed the message over.
Settle(u, m) ==
    /\ m \in handed[u] /\ m \in owed[u]
    /\ UNCHANGED <<accepted, stored, handed, dropped, lost>>
    /\ owed' = [owed EXCEPT ![u] = @ \ {m}]

Store(u, m) ==
    /\ stored' = [stored EXCEPT ![u] = @ \cup {m}]
    /\ m \in owed[u]
    /\ owed' = [owed EXCEPT ![u] = @ \ {m}]
    /\ UNCHANGED <<accepted, handed, dropped, lost>>

\* A lookup or a write failed.
GiveUp(u, m) ==
    /\ m \in owed[u]
    /\ dropped' = [dropped EXCEPT ![u] = @ \cup {m}]
    /\ owed' = [owed EXCEPT ![u] = @ \ {m}]
    /\ UNCHANGED <<accepted, stored, handed, lost>>

\* A server ended with all it was routing.
Lose ==
    /\ lost' # lost
    /\ \A u \in Users : owed'[u] \subseteq owed[u]
    /\ lost' = [u \in Users |-> lost[u] \cup (owed[u] \ owed'[u])]
    /\ UNCHANGED <<accepted, stored, handed, dropped>>

Release(u, m) ==
    /\ m \in stored[u] \cap handed[u]
    /\ stored' = [stored EXCEPT ![u] = @ \ {m}]
    /\ UNCHANGED <<accepted, owed, handed, dropped, lost>>

Next == \/ \E m \in Msgs : Accept(m)
        \/ \E u \in Users, m \in Msgs : Hand(u, m) \/ Settle(u, m) \/ Store(u, m) \/ GiveUp(u, m) \/ Release(u, m)
        \/ Lose

Spec == Init /\ [][Next]_mailVars
=============================================================================
