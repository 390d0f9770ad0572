------------------------------ MODULE Presence ------------------------------
(* The gateway's WebSocket handlers and the presence keys they keep in       *)
(* Redis.  Each connection has a handler (handleWebSocket) that reads one    *)
(* message at a time; pushes of new messages run beside it and close and     *)
(* remove the connections they cannot write to.  client.userID is read by    *)
(* the handler without the lock it is written under: the handler sees the    *)
(* old user or none (a torn string ends in a panic that net/http recovers,   *)
(* which skips ClearOnline just as no user does).                            *)
EXTENDS Hub

CONSTANTS
    MaxTtl,        \* bound: ticks of the clock a key lives without a refresh
    RedisOutcomes, \* TRUE: a Redis call takes effect, FALSE: it is lost
    Expires        \* whether keys age at all

ASSUME TtlAssumption == MaxTtl \in Nat \ {0}
ASSUME OutcomeAssumption == /\ RedisOutcomes \subseteq BOOLEAN
                            /\ RedisOutcomes # {}
                            /\ Expires \in BOOLEAN

VARIABLES
    pc,     \* where each connection's handler is
    local,  \* its local variable userID
    acked,  \* history: the user of the last auth_ok a connection was sent
    ttl,    \* online:user:<id> and gateway:user:<id>: time left, 0 for no key
    taken,  \* connections that a push in progress has in its list
    doomed  \* connections a push has closed and not yet removed

vars == <<hubVars, pc, local, acked, ttl, taken, doomed>>

Init == /\ HubInit
        /\ pc = [c \in Conns |-> "none"]
        /\ local = [c \in Conns |-> NoUser]
        /\ acked = [c \in Conns |-> NoUser]
        /\ ttl = [u \in Users |-> 0]
        /\ taken = {}
        /\ doomed = {}

TypeOK == /\ HubTypeOK
          /\ pc \in [Conns -> {"none", "reading", "binding", "setting", "acking",
                               "refreshing", "ponging", "leaving", "clearing",
                               "removing", "done"}]
          /\ local \in [Conns -> Users \cup {NoUser}]
          /\ acked \in [Conns -> Users \cup {NoUser}]
          /\ ttl \in [Users -> 0..MaxTtl]
          /\ taken \subseteq Conns
          /\ doomed \subseteq Conns

goto(c, next) == pc' = [pc EXCEPT ![c] = next]

-----------------------------------------------------------------------------
\* Mutant: SET with no expiration (no default for KeyTTL).
SetForever(u) == ttl' = [ttl EXCEPT ![u] = MaxTtl + 1]

\* redisx.Store: one MULTI/EXEC each.  SET with a TTL, EXPIRE (nothing for a key
\* that is gone), DEL (whoever set it).
SetOnline(u) == ttl' = [ttl EXCEPT ![u] = MaxTtl]
RefreshOnline(u) == ttl' = [ttl EXCEPT ![u] = IF @ > 0 THEN MaxTtl ELSE 0]
ClearOnline(u) == ttl' = [ttl EXCEPT ![u] = 0]

\* A key without a TTL does not age.
TtlTick(u) == /\ Expires
              /\ ttl[u] \in 1..MaxTtl
              /\ ttl' = [ttl EXCEPT ![u] = @ - 1]
              /\ UNCHANGED <<hubVars, pc, local, acked, taken, doomed>>

-----------------------------------------------------------------------------
Upgrade(c) == /\ pc[c] = "none"
              /\ socket' = [socket EXCEPT ![c] = "open"]
              /\ goto(c, "reading")
              /\ UNCHANGED <<users, user_of, local, acked, ttl, taken, doomed>>

\* {"type": "auth", "user_id": u}, at any time and any number of times, from the
\* reader's buffer even when the socket is closed.
ReadAuth(c, u) == /\ pc[c] = "reading"
                  /\ local' = [local EXCEPT ![c] = u]
                  /\ goto(c, "binding")
                  /\ UNCHANGED <<hubVars, acked, ttl, taken, doomed>>

\* Mutant: an auth of a connection that has a user is answered but ignored.
BindOnce(c) == /\ pc[c] = "binding"
               /\ IF user_of[c] = NoUser THEN bind(c, local[c])
                                         ELSE UNCHANGED <<users, user_of>>
               /\ goto(c, "setting")
               /\ UNCHANGED <<socket, local, acked, ttl, taken, doomed>>

BindClient(c) == /\ pc[c] = "binding"
                 /\ bind(c, local[c])
                 /\ goto(c, "setting")
                 /\ UNCHANGED <<socket, local, acked, ttl, taken, doomed>>

CallSetOnline(c) == /\ pc[c] = "setting"
                    /\ \E applied \in RedisOutcomes :
                          IF applied THEN SetOnline(local[c]) ELSE UNCHANGED ttl
                    /\ goto(c, "acking")
                    /\ UNCHANGED <<hubVars, local, acked, taken, doomed>>

\* A write may seem to succeed when the peer has gone.
WriteAuthOk(c) == /\ pc[c] = "acking"
                  /\ acked' = [acked EXCEPT ![c] = local[c]]
                  /\ goto(c, "reading")
                  /\ UNCHANGED <<hubVars, local, ttl, taken, doomed>>

\* {"type": "ping"}: refresh if the connection has a user, then pong.
ReadPing(c) == /\ pc[c] = "reading"
               /\ goto(c, IF user_of[c] # NoUser THEN "refreshing" ELSE "ponging")
               /\ UNCHANGED <<hubVars, local, acked, ttl, taken, doomed>>

\* client.userID is read again: a push may have removed the connection.
CallRefreshOnline(c) ==
    /\ pc[c] = "refreshing"
    /\ \E applied \in RedisOutcomes :
          IF applied /\ user_of[c] # NoUser THEN RefreshOnline(user_of[c])
                                            ELSE UNCHANGED ttl
    /\ goto(c, "ponging")
    /\ UNCHANGED <<hubVars, local, acked, taken, doomed>>

WritePong(c) == /\ pc[c] = "ponging"
                /\ goto(c, "reading")
                /\ UNCHANGED <<hubVars, local, acked, ttl, taken, doomed>>

\* A pong frame from the client refreshes too.
PongHandler(c) == /\ pc[c] = "reading"
                  /\ user_of[c] # NoUser
                  /\ \E applied \in RedisOutcomes :
                        IF applied THEN RefreshOnline(user_of[c]) ELSE UNCHANGED ttl
                  /\ UNCHANGED <<hubVars, pc, local, acked, taken, doomed>>

\* A read or a write fails, or a message does not parse: the handler returns.
HandlerFails(c) == /\ pc[c] \in {"reading", "acking", "ponging"}
                   /\ goto(c, "leaving")
                   /\ UNCHANGED <<hubVars, local, acked, ttl, taken, doomed>>

\* The deferred function: userID := client.userID, ClearOnline, remove, close.
Leave(c) == /\ pc[c] = "leaving"
            /\ local' = [local EXCEPT ![c] = user_of[c]]
            /\ goto(c, IF user_of[c] # NoUser THEN "clearing" ELSE "removing")
            /\ UNCHANGED <<hubVars, acked, ttl, taken, doomed>>

CallClearOnline(c) == /\ pc[c] = "clearing"
                      /\ \E applied \in RedisOutcomes :
                            IF applied THEN ClearOnline(local[c]) ELSE UNCHANGED ttl
                      /\ goto(c, "removing")
                      /\ UNCHANGED <<hubVars, local, acked, taken, doomed>>

\* Mutant: the connection is only closed.
CloseOnly(c) == /\ pc[c] = "removing"
                /\ socket' = [socket EXCEPT ![c] = "closed"]
                /\ goto(c, "done")
                /\ UNCHANGED <<users, user_of, local, acked, ttl, taken, doomed>>

RemoveAndClose(c) == /\ pc[c] = "removing"
                     /\ remove(c)
                     /\ socket' = [socket EXCEPT ![c] = "closed"]
                     /\ goto(c, "done")
                     /\ UNCHANGED <<local, acked, ttl, taken, doomed>>

-----------------------------------------------------------------------------
\* pushNewMessage, any number at a time, to any user: list the connections,
\* write to each; close, then remove, the ones that fail.
PushTakes(u) == /\ taken' = taken \cup snapshotClients({u})
                /\ UNCHANGED <<hubVars, pc, local, acked, ttl, doomed>>

\* Another push may still have the connection in its own list.
PushWrites(c) == /\ c \in taken
                 /\ taken' = taken \ {c}
                 /\ UNCHANGED <<hubVars, pc, local, acked, ttl, doomed>>

PushCloses(c) == /\ c \in taken
                 /\ socket' = [socket EXCEPT ![c] = "closed"]
                 /\ taken' \in {taken, taken \ {c}}
                 /\ doomed' = doomed \cup {c}
                 /\ UNCHANGED <<users, user_of, pc, local, acked, ttl>>

PushRemoves(c) == /\ c \in doomed
                  /\ remove(c)
                  /\ doomed' = doomed \ {c}
                  /\ UNCHANGED <<socket, pc, local, acked, ttl, taken>>

\* The client or the network ends the connection.
SocketDies(c) == /\ socket[c] = "open"
                 /\ socket' = [socket EXCEPT ![c] = "closed"]
                 /\ UNCHANGED <<users, user_of, pc, local, acked, ttl, taken, doomed>>

\* The process dies, or is told to stop: http.Server.Shutdown leaves hijacked
\* connections alone, so no deferred function runs and the keys stay.
GatewayStops == /\ \E c \in Conns : pc[c] \notin {"none", "done"}
                /\ users' = [u \in Users |-> {}]
                /\ user_of' = [c \in Conns |-> NoUser]
                /\ socket' = [c \in Conns |-> IF pc[c] = "none" THEN "new" ELSE "closed"]
                /\ pc' = [c \in Conns |-> IF pc[c] = "none" THEN "none" ELSE "done"]
                /\ taken' = {}
                /\ doomed' = {}
                /\ UNCHANGED <<local, acked, ttl>>

\* What the handler does without waiting for its client.
HandlerStep(c) == \/ BindClient(c) \/ CallSetOnline(c) \/ WriteAuthOk(c)
                  \/ CallRefreshOnline(c) \/ WritePong(c)
                  \/ Leave(c) \/ CallClearOnline(c) \/ RemoveAndClose(c)

Next == \/ \E c \in Conns :
              \/ Upgrade(c)
              \/ \E u \in Users : ReadAuth(c, u)
              \/ ReadPing(c) \/ PongHandler(c) \/ HandlerStep(c) \/ HandlerFails(c)
              \/ PushWrites(c) \/ PushCloses(c) \/ PushRemoves(c)
              \/ SocketDies(c)
        \/ \E u \in Users : PushTakes(u) \/ TtlTick(u)
        \/ GatewayStops

Spec == Init /\ [][Next]_vars

\* Redis calls have a deadline of 2 s and writes one of 10 s, so a handler gets
\* on; reads on a closed socket fail once the frames that were buffered, finitely
\* many, have been read; a push goes on to remove what it closed; time passes.
\* Nothing is promised of open sockets.
Fairness == /\ \A c \in Conns : /\ WF_vars(HandlerStep(c))
                                /\ SF_vars(socket[c] = "closed" /\ HandlerFails(c))
                                /\ WF_vars(PushRemoves(c))
            /\ \A u \in Users : WF_vars(TtlTick(u))

FairSpec == Spec /\ Fairness

-----------------------------------------------------------------------------
\* wsManager's map and the connections' userID are one relation: no push goes to
\* a connection under a user it has given up, and none misses a connection.
HubConsistent == \A c \in Conns, u \in Users : c \in users[u] <=> user_of[c] = u

\* A connection whose socket is open and whose last answer was auth_ok for u
\* receives u's messages: pushes that remove broken connections, and a second
\* auth as somebody else, do not silently unbind it.
AuthOkMeansBound == \A c \in Conns :
    socket[c] = "open" /\ pc[c] \in {"reading", "refreshing", "ponging"}
        => user_of[c] = acked[c]

\* A connection whose socket is closed is in the end nobody's, for good: the
\* handler's deferred remove and the pushes' remove leave no dead client in the
\* map, whichever comes first and even if an auth is read after the close.
Forgotten == \A c \in Conns :
    socket[c] = "closed" ~> [](\A u \in Users : c \notin users[u])

\* Presence keys that no deferred ClearOnline deletes (the call is lost, a push
\* has removed the connection first, the connection has become another user's,
\* the gateway stops) do not outlive the user's connections for ever.
StaleExpires == \A u \in Users :
    []<>(ttl[u] = 0 \/ \E c \in Conns : c \in users[u] \/ (local[c] = u /\ pc[c] # "done"))

\* README.md: "store online state in Redis": as long as every Redis call succeeds
\* and nothing expires, a user with an authenticated open connection is online.
OnlineStored == \A c \in Conns :
    socket[c] = "open" /\ pc[c] = "reading" /\ acked[c] # NoUser => ttl[acked[c]] > 0
=============================================================================
