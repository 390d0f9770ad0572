----------------------------- MODULE SplitStores -----------------------------
(* The two stores that the chat servers of mnt/data/chatserver_split share:  *)
(* Redis, with the server each online user is at, and the DynamoDB table of  *)
(* messages that could not be delivered.  A message is known by its stamp,   *)
(* the time it was sent at in tenths of a second: message IDs are times.     *)
EXTENDS Naturals, FiniteSets

CONSTANTS Servers, Users, Stamps, PageCap, None

ASSUME StampsAssumption == Stamps \subseteq Nat
ASSUME NoneAssumption == None \notin Servers

VARIABLES
    presence, \* presence:user:<id>: the server's address, None for no key
    table     \* the items under each receiver_id, by stamp

storeVars == <<presence, table>>

StoresInit == /\ presence = [u \in Users |-> None]
              /\ table = [u \in Users |-> {}]

StoresTypeOK == /\ presence \in [Users -> Servers \cup {None}]
                /\ table \in [Users -> SUBSET Stamps]

\* Mutant of setUserPresence: the value is not the address.
SetUserItself(u, s, ok) == presence' = IF ok THEN [presence EXCEPT ![u] = u] ELSE presence

(* setUserPresence, removeUserPresence; the caller logs an error and goes on *)
setUserPresence(u, s, ok) == presence' = IF ok THEN [presence EXCEPT ![u] = s] ELSE presence

\* The empty string of the code is None.
getUserPresence(u) == presence[u]

removeUserPresence(u, ok) == presence' = IF ok THEN [presence EXCEPT ![u] = None] ELSE presence

storeOfflineMessage(u, m) == table' = [table EXCEPT ![u] = @ \cup {m}]

deleteOfflineMessage(u, m) == table' = [table EXCEPT ![u] = @ \ {m}]

-----------------------------------------------------------------------------
(* The sort key is the time in RFC 3339 with nanoseconds, in UTC, which      *)
(* drops the zeros at the end of the fraction, and the dot when nothing is   *)
(* left of it.  Strings are compared byte by byte and "Z" is above the dot   *)
(* and the digits: a whole second sorts after all the tenths that follow it. *)
Tenth(m) == IF m % 10 = 0 THEN 10 ELSE m % 10

buildOfflineSortKey(m) == <<m \div 10, Tenth(m)>>

SortsBefore(m, n) == LET a == buildOfflineSortKey(m)
                         b == buildOfflineSortKey(n)
                     IN  \/ a[1] < b[1]
                         \/ a[1] = b[1] /\ a[2] < b[2]

\* The query asks for no second page: it returns the PageCap first items.
listOfflineMessages(u) ==
    {m \in table[u] : Cardinality({n \in table[u] : SortsBefore(n, m)}) < PageCap}
=============================================================================
