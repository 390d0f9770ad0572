--------------------------- MODULE PresenceProofs ---------------------------
(* TLAPS proofs about Presence, for any number of users and connections.     *)
EXTENDS Presence, TLAPS

-----------------------------------------------------------------------------
\* The inductive invariant.  A connection that has not been upgraded is nobody's
\* and no push knows it.
FreshUnknown == \A c \in Conns : pc[c] = "none" =>
    /\ socket[c] = "new"
    /\ user_of[c] = NoUser
    /\ acked[c] = NoUser
    /\ c \notin taken
    /\ c \notin doomed

\* What a push is about to remove has been closed before.
DoomedClosed == \A c \in doomed : socket[c] = "closed"

\* Between the auth message and its answer the handler holds a real user.
AuthHasUser == \A c \in Conns : pc[c] \in {"binding", "setting", "acking"} =>
    local[c] \in Users

\* While the socket is open the connection is bound to whom it was told: to the
\* old user until bind, then to the new one, which auth_ok confirms.
BoundWhileOpen == \A c \in Conns : socket[c] = "open" =>
    /\ pc[c] \in {"reading", "refreshing", "ponging", "binding"} => user_of[c] = acked[c]
    /\ pc[c] \in {"setting", "acking"} => user_of[c] = local[c]

IInv == /\ TypeOK
        /\ HubConsistent
        /\ FreshUnknown
        /\ DoomedClosed
        /\ AuthHasUser
        /\ BoundWhileOpen

-----------------------------------------------------------------------------
\* wsManager.bind keeps the map and the userIDs one relation.
LEMMA BindKeepsHub ==
    ASSUME HubTypeOK, HubConsistent,
           NEW c \in Conns, NEW u \in Users, bind(c, u)
    PROVE  /\ users' \in [Users -> SUBSET Conns]
           /\ user_of' \in [Conns -> Users \cup {NoUser}]
           /\ HubConsistent'
  BY NoUserAssumption DEF HubTypeOK, HubConsistent, bind, Without

\* So does wsManager.remove, on a connection with a user or without.
LEMMA RemoveKeepsHub ==
    ASSUME HubTypeOK, HubConsistent, NEW c \in Conns, remove(c)
    PROVE  /\ users' \in [Users -> SUBSET Conns]
           /\ user_of' \in [Conns -> Users \cup {NoUser}]
           /\ HubConsistent'
  BY NoUserAssumption DEF HubTypeOK, HubConsistent, remove, Without

\* It holds before any client connects.
LEMMA InitEstablishes == Init => IInv
  BY NoUserAssumption, TtlAssumption
  DEF Init, HubInit, IInv, TypeOK, HubTypeOK, HubConsistent, FreshUnknown,
      DoomedClosed, AuthHasUser, BoundWhileOpen

\* Only a connection that has been upgraded is in a push's list.
LEMMA TakenAreBound ==
    ASSUME IInv, NEW u \in Users, NEW c \in snapshotClients({u})
    PROVE  c \in Conns /\ pc[c] # "none"
  BY NoUserAssumption
  DEF IInv, TypeOK, HubTypeOK, HubConsistent, FreshUnknown, snapshotClients

\* Every step of a handler, a push, the clock or the gateway keeps it.
LEMMA StepPreserves == IInv /\ [Next]_vars => IInv'
<1> SUFFICES ASSUME IInv, [Next]_vars PROVE IInv'
    OBVIOUS
<1> USE NoUserAssumption, TtlAssumption, OutcomeAssumption
<1>1. ASSUME NEW c \in Conns, Upgrade(c) PROVE IInv'
  BY <1>1 DEF Upgrade, goto, IInv, TypeOK, HubTypeOK, HubConsistent, FreshUnknown,
              DoomedClosed, AuthHasUser, BoundWhileOpen
<1>2. ASSUME NEW c \in Conns, NEW u \in Users, ReadAuth(c, u) PROVE IInv'
  BY <1>2 DEF ReadAuth, goto, hubVars, IInv, TypeOK, HubTypeOK, HubConsistent,
              FreshUnknown, DoomedClosed, AuthHasUser, BoundWhileOpen
<1>3. ASSUME NEW c \in Conns, BindClient(c) PROVE IInv'
  <2>1. local[c] \in Users /\ bind(c, local[c])
    BY <1>3 DEF BindClient, IInv, AuthHasUser
  <2>2. /\ users' \in [Users -> SUBSET Conns]
        /\ user_of' \in [Conns -> Users \cup {NoUser}]
        /\ HubConsistent'
    BY <2>1, BindKeepsHub DEF IInv, TypeOK
  <2>3. user_of' = [user_of EXCEPT ![c] = local[c]]
    BY <2>1 DEF bind
  <2> QED
    BY <1>3, <2>2, <2>3 DEF BindClient, goto, IInv, TypeOK, HubTypeOK, FreshUnknown,
              DoomedClosed, AuthHasUser, BoundWhileOpen
<1>4. ASSUME NEW c \in Conns, CallSetOnline(c) PROVE IInv'
  <2>1. ttl' \in [Users -> 0..MaxTtl]
    BY <1>4 DEF CallSetOnline, SetOnline, IInv, TypeOK
  <2> QED
    BY <1>4, <2>1 DEF CallSetOnline, goto, hubVars, IInv, TypeOK, HubTypeOK,
              HubConsistent, FreshUnknown, DoomedClosed, AuthHasUser, BoundWhileOpen
<1>5. ASSUME NEW c \in Conns, WriteAuthOk(c) PROVE IInv'
  BY <1>5 DEF WriteAuthOk, goto, hubVars, IInv, TypeOK, HubTypeOK, HubConsistent,
              FreshUnknown, DoomedClosed, AuthHasUser, BoundWhileOpen
<1>6. ASSUME NEW c \in Conns, ReadPing(c) PROVE IInv'
  BY <1>6 DEF ReadPing, goto, hubVars, IInv, TypeOK, HubTypeOK, HubConsistent,
              FreshUnknown, DoomedClosed, AuthHasUser, BoundWhileOpen
<1>7. ASSUME NEW c \in Conns, CallRefreshOnline(c) PROVE IInv'
  <2>1. ttl' \in [Users -> 0..MaxTtl]
    BY <1>7 DEF CallRefreshOnline, RefreshOnline, IInv, TypeOK
  <2> QED
    BY <1>7, <2>1 DEF CallRefreshOnline, goto, hubVars, IInv, TypeOK, HubTypeOK,
              HubConsistent, FreshUnknown, DoomedClosed, AuthHasUser, BoundWhileOpen
<1>8. ASSUME NEW c \in Conns, WritePong(c) PROVE IInv'
  BY <1>8 DEF WritePong, goto, hubVars, IInv, TypeOK, HubTypeOK, HubConsistent,
              FreshUnknown, DoomedClosed, AuthHasUser, BoundWhileOpen
<1>9. ASSUME NEW c \in Conns, PongHandler(c) PROVE IInv'
  <2>1. ttl' \in [Users -> 0..MaxTtl]
    BY <1>9 DEF PongHandler, RefreshOnline, IInv, TypeOK
  <2> QED
    BY <1>9, <2>1 DEF PongHandler, hubVars, IInv, TypeOK, HubTypeOK,
              HubConsistent, FreshUnknown, DoomedClosed, AuthHasUser, BoundWhileOpen
<1>10. ASSUME NEW c \in Conns, HandlerFails(c) PROVE IInv'
  BY <1>10 DEF HandlerFails, goto, hubVars, IInv, TypeOK, HubTypeOK, HubConsistent,
              FreshUnknown, DoomedClosed, AuthHasUser, BoundWhileOpen
<1>11. ASSUME NEW c \in Conns, Leave(c) PROVE IInv'
  BY <1>11 DEF Leave, goto, hubVars, IInv, TypeOK, HubTypeOK, HubConsistent,
              FreshUnknown, DoomedClosed, AuthHasUser, BoundWhileOpen
<1>12. ASSUME NEW c \in Conns, CallClearOnline(c) PROVE IInv'
  <2>1. ttl' \in [Users -> 0..MaxTtl]
    BY <1>12 DEF CallClearOnline, ClearOnline, IInv, TypeOK
  <2> QED
    BY <1>12, <2>1 DEF CallClearOnline, goto, hubVars, IInv, TypeOK, HubTypeOK,
              HubConsistent, FreshUnknown, DoomedClosed, AuthHasUser, BoundWhileOpen
<1>13. ASSUME NEW c \in Conns, RemoveAndClose(c) PROVE IInv'
  <2>1. /\ users' \in [Users -> SUBSET Conns]
        /\ user_of' \in [Conns -> Users \cup {NoUser}]
        /\ HubConsistent'
        /\ user_of' = [user_of EXCEPT ![c] = NoUser]
    BY <1>13, RemoveKeepsHub DEF RemoveAndClose, remove, IInv, TypeOK
  <2> QED
    BY <1>13, <2>1 DEF RemoveAndClose, goto, IInv, TypeOK, HubTypeOK, FreshUnknown,
              DoomedClosed, AuthHasUser, BoundWhileOpen
<1>14. ASSUME NEW u \in Users, PushTakes(u) PROVE IInv'
  <2>1. \A c \in snapshotClients({u}) : c \in Conns /\ pc[c] # "none"
    BY TakenAreBound
  <2> QED
    BY <1>14, <2>1 DEF PushTakes, hubVars, IInv, TypeOK, HubTypeOK, HubConsistent,
              FreshUnknown, DoomedClosed, AuthHasUser, BoundWhileOpen
<1>15. ASSUME NEW c \in Conns, PushWrites(c) PROVE IInv'
  BY <1>15 DEF PushWrites, hubVars, IInv, TypeOK, HubTypeOK, HubConsistent,
              FreshUnknown, DoomedClosed, AuthHasUser, BoundWhileOpen
<1>16. ASSUME NEW c \in Conns, PushCloses(c) PROVE IInv'
  BY <1>16 DEF PushCloses, IInv, TypeOK, HubTypeOK, HubConsistent,
              FreshUnknown, DoomedClosed, AuthHasUser, BoundWhileOpen
<1>17. ASSUME NEW c \in Conns, PushRemoves(c) PROVE IInv'
  <2>1. /\ users' \in [Users -> SUBSET Conns]
        /\ user_of' \in [Conns -> Users \cup {NoUser}]
        /\ HubConsistent'
        /\ user_of' = [user_of EXCEPT ![c] = NoUser]
    BY <1>17, RemoveKeepsHub DEF PushRemoves, remove, IInv, TypeOK
  <2>2. socket[c] = "closed"
    BY <1>17 DEF PushRemoves, IInv, DoomedClosed
  <2> QED
    BY <1>17, <2>1, <2>2 DEF PushRemoves, IInv, TypeOK, HubTypeOK, FreshUnknown,
              DoomedClosed, AuthHasUser, BoundWhileOpen
<1>18. ASSUME NEW c \in Conns, SocketDies(c) PROVE IInv'
  BY <1>18 DEF SocketDies, IInv, TypeOK, HubTypeOK, HubConsistent,
              FreshUnknown, DoomedClosed, AuthHasUser, BoundWhileOpen
<1>19. ASSUME NEW u \in Users, TtlTick(u) PROVE IInv'
  <2>1. ttl' \in [Users -> 0..MaxTtl]
    BY <1>19 DEF TtlTick, IInv, TypeOK
  <2> QED
    BY <1>19, <2>1 DEF TtlTick, hubVars, IInv, TypeOK, HubTypeOK,
              HubConsistent, FreshUnknown, DoomedClosed, AuthHasUser, BoundWhileOpen
<1>20. ASSUME GatewayStops PROVE IInv'
  BY <1>20 DEF GatewayStops, IInv, TypeOK, HubTypeOK, HubConsistent,
              FreshUnknown, DoomedClosed, AuthHasUser, BoundWhileOpen
<1>21. ASSUME UNCHANGED vars PROVE IInv'
  BY <1>21 DEF vars, hubVars, IInv, TypeOK, HubTypeOK, HubConsistent,
              FreshUnknown, DoomedClosed, AuthHasUser, BoundWhileOpen
<1> QED
  BY <1>1, <1>2, <1>3, <1>4, <1>5, <1>6, <1>7, <1>8, <1>9, <1>10, <1>11, <1>12,
     <1>13, <1>14, <1>15, <1>16, <1>17, <1>18, <1>19, <1>20, <1>21
  DEF Next, HandlerStep

\* The inductive invariant holds for ever.
THEOREM Inductive == Spec => []IInv
  BY InitEstablishes, StepPreserves, PTL DEF Spec

\* Every reachable state of the gateway's connections and keys is well typed.
THEOREM TypeCorrect == Spec => []TypeOK
<1>1. IInv => TypeOK
  BY DEF IInv
<1> QED
  BY <1>1, Inductive, PTL

\* The map of connections and their userIDs always agree, however handlers,
\* pushes and a stopping gateway interleave.
THEOREM HubAgrees == Spec => []HubConsistent
<1>1. IInv => HubConsistent
  BY DEF IInv
<1> QED
  BY <1>1, Inductive, PTL

\* A connection that was answered auth_ok stays bound to that user while its
\* socket is open.
THEOREM AckedStaysBound == Spec => []AuthOkMeansBound
<1>1. IInv => AuthOkMeansBound
  BY DEF IInv, BoundWhileOpen, AuthOkMeansBound
<1> QED
  BY <1>1, Inductive, PTL

-----------------------------------------------------------------------------
\* The safety part of Forgotten.

\* A connection whose handler has returned is closed and nobody's, even where
\* pushes still have it in their lists.
DoneIsNobodys == \A c \in Conns : pc[c] = "done" =>
    /\ socket[c] = "closed"
    /\ \A u \in Users : c \notin users[u]

\* Pushes, other connections' handlers and failures never change whose an open
\* connection is: only its own handler binds it, to the user it authenticated as.
Rebinding == \A c \in Conns :
    socket'[c] = "open" /\ user_of'[c] # user_of[c] =>
        pc[c] = "binding" /\ user_of'[c] = local[c]

\* A socket that is closed is not opened again, and a handler that has returned
\* does not run again.
GoneStaysGone == \A c \in Conns :
    /\ socket[c] = "closed" => socket'[c] = "closed"
    /\ pc[c] = "done" => pc'[c] = "done"

\* What a connection whose handler has returned is like, in terms of userID.
Finished == \A c \in Conns : pc[c] = "done" => socket[c] = "closed" /\ user_of[c] = NoUser

\* One step of a connection's life.
LEMMA LifeStep ==
    ASSUME IInv, Finished, [Next]_vars
    PROVE  Finished' /\ Rebinding /\ GoneStaysGone
<1>0. /\ pc \in [Conns -> {"none", "reading", "binding", "setting", "acking", "refreshing",
                           "ponging", "leaving", "clearing", "removing", "done"}]
      /\ user_of \in [Conns -> Users \cup {NoUser}]
      /\ socket \in [Conns -> {"new", "open", "closed"}]
      /\ FreshUnknown /\ DoomedClosed
  BY DEF IInv, TypeOK, HubTypeOK
<1> USE DEF Finished, Rebinding, GoneStaysGone, goto
<1>1. ASSUME NEW c \in Conns, Upgrade(c) PROVE Finished' /\ Rebinding /\ GoneStaysGone
  BY <1>0, <1>1 DEF Upgrade, FreshUnknown
<1>2. ASSUME NEW c \in Conns, BindClient(c) PROVE Finished' /\ Rebinding /\ GoneStaysGone
  BY <1>0, <1>2 DEF BindClient, bind
<1>3. ASSUME NEW c \in Conns, RemoveAndClose(c) PROVE Finished' /\ Rebinding /\ GoneStaysGone
  BY <1>0, <1>3 DEF RemoveAndClose, remove
<1>4. ASSUME NEW c \in Conns, PushRemoves(c) PROVE Finished' /\ Rebinding /\ GoneStaysGone
  BY <1>0, <1>4 DEF PushRemoves, remove, DoomedClosed
<1>5. ASSUME NEW c \in Conns, PushCloses(c) \/ SocketDies(c)
      PROVE  Finished' /\ Rebinding /\ GoneStaysGone
  BY <1>0, <1>5 DEF PushCloses, SocketDies
<1>6. CASE GatewayStops
  BY <1>0, <1>6 DEF GatewayStops, FreshUnknown
<1>7. ASSUME UNCHANGED <<socket, user_of>>,
             UNCHANGED pc \/ \E c \in Conns : /\ pc[c] # "done"
                                              /\ \E l \in {"reading", "binding", "acking",
                                                           "refreshing", "ponging", "leaving",
                                                           "clearing", "removing"} : goto(c, l)
      PROVE  Finished' /\ Rebinding /\ GoneStaysGone
  BY <1>0, <1>7
<1>8. ASSUME NEW c \in Conns,
             \/ \E u \in Users : ReadAuth(c, u)
             \/ ReadPing(c) \/ PongHandler(c) \/ HandlerFails(c) \/ PushWrites(c)
             \/ CallSetOnline(c) \/ WriteAuthOk(c) \/ CallRefreshOnline(c) \/ WritePong(c)
             \/ Leave(c) \/ CallClearOnline(c)
      PROVE  Finished' /\ Rebinding /\ GoneStaysGone
  BY <1>7, <1>8 DEF ReadAuth, ReadPing, PongHandler, HandlerFails, PushWrites, CallSetOnline,
                    WriteAuthOk, CallRefreshOnline, WritePong, Leave, CallClearOnline, hubVars
<1>9. ASSUME (\E u \in Users : PushTakes(u) \/ TtlTick(u)) \/ UNCHANGED vars
      PROVE  Finished' /\ Rebinding /\ GoneStaysGone
  BY <1>7, <1>9 DEF PushTakes, TtlTick, vars, hubVars
<1> QED
  BY <1>1, <1>2, <1>3, <1>4, <1>5, <1>6, <1>8, <1>9 DEF Next, HandlerStep

\* It holds in every state.
LEMMA AlwaysFinished == Spec => []Finished
<1>1. Init => Finished
  BY DEF Init, Finished
<1>2. IInv /\ Finished /\ [Next]_vars => Finished'
  BY LifeStep
<1> QED
  BY <1>1, <1>2, Inductive, PTL DEF Spec

\* When its handler has returned a connection is in no user's set, and no push,
\* auth or other connection ever brings it back.
THEOREM ForgottenWhenDone == Spec => []DoneIsNobodys /\ [][GoneStaysGone]_vars
<1>1. IInv /\ Finished => DoneIsNobodys
  BY NoUserAssumption DEF IInv, Finished, HubConsistent, DoneIsNobodys
<1>2. IInv /\ Finished /\ [Next]_vars => [GoneStaysGone]_vars
  BY LifeStep
<1> QED
  BY <1>1, <1>2, Inductive, AlwaysFinished, PTL DEF Spec

\* However many pushes and handlers run beside it, an open connection changes
\* hands only by its own auth.
THEOREM OnlyAuthRebinds == Spec => [][Rebinding]_vars
<1>1. IInv /\ Finished /\ [Next]_vars => [Rebinding]_vars
  BY LifeStep
<1> QED
  BY <1>1, Inductive, AlwaysFinished, PTL DEF Spec

-----------------------------------------------------------------------------
\* The safety part of StaleExpires.

\* A key comes only with the auth of a connection that is still being handled, and
\* its life is prolonged only through a connection that is the user's: when all of
\* a user's connections are gone, what is left of a key runs out.
KeysNeedConnections == \A u \in Users :
    /\ ttl'[u] > ttl[u] =>
          \E c \in Conns : \/ pc[c] = "setting" /\ local[c] = u
                           \/ pc[c] \in {"reading", "refreshing"} /\ user_of[c] = u
    /\ ttl[u] = 0 /\ ttl'[u] > 0 =>
          \E c \in Conns : pc[c] = "setting" /\ local[c] = u

\* A ping or a pong prolongs the life of a key that is there.
LEMMA RefreshProlongs ==
    ASSUME TypeOK, NEW c \in Conns, pc[c] \in {"reading", "refreshing"},
           user_of[c] # NoUser, RefreshOnline(user_of[c])
    PROVE  KeysNeedConnections
<1>1. user_of[c] \in Users /\ ttl \in [Users -> 0..MaxTtl]
  BY DEF TypeOK, HubTypeOK
<1>2. \A u \in Users : u # user_of[c] => ttl'[u] = ttl[u]
  BY <1>1 DEF RefreshOnline
<1>3. ttl[user_of[c]] = 0 => ttl'[user_of[c]] = 0
  BY <1>1 DEF RefreshOnline
<1>4. ASSUME NEW u \in Users PROVE ~ (u # user_of[c] /\ ttl'[u] > ttl[u])
  BY <1>1, <1>2
<1>5. ASSUME NEW u \in Users PROVE ~ (ttl[u] = 0 /\ ttl'[u] > 0)
  BY <1>1, <1>2, <1>3
<1> QED
  BY <1>4, <1>5 DEF KeysNeedConnections

\* No step but an auth's or a refresh's adds to a key's life.
LEMMA KeysStep == IInv /\ [Next]_vars => KeysNeedConnections
<1> SUFFICES ASSUME IInv, [Next]_vars PROVE KeysNeedConnections
  OBVIOUS
<1>0. ttl \in [Users -> 0..MaxTtl] /\ TypeOK
  BY DEF IInv, TypeOK
<1>1. ASSUME NEW c \in Conns, CallSetOnline(c) PROVE KeysNeedConnections
  <2>1. pc[c] = "setting"
    BY <1>1 DEF CallSetOnline
  <2>2. \A u \in Users : u # local[c] => ttl'[u] = ttl[u]
    BY <1>0, <1>1 DEF CallSetOnline, SetOnline
  <2>3. ASSUME NEW u \in Users, ttl'[u] > ttl[u] PROVE local[c] = u
    BY <1>0, <2>2, <2>3
  <2> QED
    BY <1>0, <2>1, <2>3 DEF KeysNeedConnections
<1>2. ASSUME ttl' = ttl PROVE KeysNeedConnections
  BY <1>0, <1>2 DEF KeysNeedConnections
<1>3. ASSUME NEW c \in Conns, CallRefreshOnline(c) \/ PongHandler(c) PROVE KeysNeedConnections
  <2>1. \/ ttl' = ttl
        \/ /\ pc[c] \in {"reading", "refreshing"}
           /\ user_of[c] # NoUser /\ RefreshOnline(user_of[c])
    BY <1>3 DEF CallRefreshOnline, PongHandler
  <2> QED
    BY <1>0, <1>2, <2>1, RefreshProlongs
<1>4. ASSUME NEW c \in Conns, CallClearOnline(c) PROVE KeysNeedConnections
  <2>1. \A u \in Users : ttl'[u] \in {0, ttl[u]}
    BY <1>0, <1>4 DEF CallClearOnline, ClearOnline
  <2>2. \A u \in Users : ttl[u] \in 0..MaxTtl
    BY <1>0
  <2> QED
    BY <2>1, <2>2, TtlAssumption DEF KeysNeedConnections
<1>5. ASSUME NEW v \in Users, TtlTick(v) PROVE KeysNeedConnections
  <2>1. ttl' = [ttl EXCEPT ![v] = ttl[v] - 1] /\ ttl[v] \in 1..MaxTtl
    BY <1>5 DEF TtlTick
  <2>2. \A u \in Users : ttl[u] \in 0..MaxTtl
    BY <1>0
  <2>3. \A u \in Users : ttl'[u] = IF u = v THEN ttl[v] - 1 ELSE ttl[u]
    BY <1>0, <2>1
  <2> QED
    BY <2>1, <2>2, <2>3, TtlAssumption DEF KeysNeedConnections
<1>6. ASSUME NEW c \in Conns,
             \/ Upgrade(c) \/ (\E u \in Users : ReadAuth(c, u)) \/ ReadPing(c)
             \/ BindClient(c) \/ WriteAuthOk(c) \/ WritePong(c) \/ Leave(c) \/ RemoveAndClose(c)
             \/ HandlerFails(c) \/ PushWrites(c) \/ PushCloses(c) \/ PushRemoves(c)
             \/ SocketDies(c)
      PROVE  KeysNeedConnections
  BY <1>2, <1>6 DEF Upgrade, ReadAuth, ReadPing, BindClient, WriteAuthOk, WritePong, Leave,
        RemoveAndClose, HandlerFails, PushWrites, PushCloses, PushRemoves, SocketDies
<1>7. CASE (\E u \in Users : PushTakes(u)) \/ GatewayStops \/ UNCHANGED vars
  BY <1>2, <1>7 DEF PushTakes, GatewayStops, vars
<1> QED
  BY <1>1, <1>3, <1>4, <1>5, <1>6, <1>7 DEF Next, HandlerStep

\* Lost calls, pushes, races and stopped gateways never keep a key alive without a
\* connection, or the handler of one.
THEOREM KeysRunOut == Spec => [][KeysNeedConnections]_vars
<1>1. IInv /\ [Next]_vars => [KeysNeedConnections]_vars
  BY KeysStep
<1> QED
  BY <1>1, Inductive, PTL DEF Spec
=============================================================================
