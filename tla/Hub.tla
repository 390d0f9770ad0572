-------------------------------- MODULE Hub --------------------------------
(* The gateway's wsManager: which WebSocket connections speak for which      *)
(* user.  users and client.userID are two views of one relation; both change *)
(* under wsManager.mu, so bind, remove and snapshotClients are atomic.       *)
EXTENDS Integers, FiniteSets

CONSTANTS Users, Conns, NoUser

ASSUME NoUserAssumption == NoUser \notin Users

VARIABLES
    users,   \* wsManager.users: the connections of each user
    user_of, \* wsClient.userID, NoUser for ""
    socket   \* each connection's socket: "new", "open" or "closed"

hubVars == <<users, user_of, socket>>

HubInit == /\ users = [u \in Users |-> {}]
           /\ user_of = [c \in Conns |-> NoUser]
           /\ socket = [c \in Conns |-> "new"]

HubTypeOK == /\ users \in [Users -> SUBSET Conns]
             /\ user_of \in [Conns -> Users \cup {NoUser}]
             /\ socket \in [Conns -> {"new", "open", "closed"}]

\* Leave the set of the user a connection is bound to, if any.
Without(c) == [u \in Users |-> IF u = user_of[c] THEN users[u] \ {c} ELSE users[u]]

\* Mutant of bind: the connection stays in its old user's set.
BindKeepsOld(c, u) == /\ users' = [users EXCEPT ![u] = @ \cup {c}]
                      /\ user_of' = [user_of EXCEPT ![c] = u]

\* wsManager.bind: an authenticated connection moves to its new user.
bind(c, u) == /\ users' = [Without(c) EXCEPT ![u] = @ \cup {c}]
              /\ user_of' = [user_of EXCEPT ![c] = u]

\* wsManager.remove: nothing happens to a connection that has no user.
remove(c) == /\ users' = Without(c)
             /\ user_of' = [user_of EXCEPT ![c] = NoUser]

\* wsManager.snapshotClients: each connection once.
snapshotClients(ids) == UNION {users[u] : u \in ids}
=============================================================================
