--------------------------- MODULE ChatSplitProofs ---------------------------
(* TLAPS proofs about ChatSplit, for any number of servers, users,           *)
(* connections and messages, and any number of failures and crashes.         *)
EXTENDS ChatSplit, TLAPS

\* The hub's operations, the lookup in Redis and the two ends of a call are
\* visible in every proof.
USE DEF Get, Add, Remove, getUserPresence, Answered, TimesOut

-----------------------------------------------------------------------------
\* A connection that was made has a user and a server, and one that was not
\* has nothing in its channel.
ConnsOK == \A c \in Conns :
    /\ phase[c] = "new" => send[c] = <<>> /\ at[c] = None
    /\ phase[c] # "new" => user[c] \in Users /\ at[c] \in Servers

\* c is a client of user u.
ClientOf(c, u) == c \in Conns /\ phase[c] # "new" /\ user[c] = u

\* The message a readPump routes was accepted for all who are left, and a client
\* it looked up is the target's.
JobOK(c) ==
    /\ job[c].stage = "idle" => job[c].left = {}
    /\ job[c].stage # "idle" => /\ phase[c] = "serving"
                                /\ job[c].msg \in Stamps
                                /\ \A u \in job[c].left : job[c].msg \in accepted[u]
    /\ job[c].stage \notin {"idle", "lookup"} => job[c].target \in job[c].left
    /\ job[c].stage = "push" => ClientOf(job[c].client, job[c].target)

\* The items of a replay were accepted for its user, and the one it is about
\* to delete entered a channel.
ReplayOK(c) ==
    /\ replay[c].stage # "off" => phase[c] # "new" /\ replay[c].items \subseteq accepted[user[c]]
    /\ replay[c].stage \in {"push", "delete"} => replay[c].item \in replay[c].items
    /\ replay[c].stage = "push" => ClientOf(replay[c].client, user[c])
    /\ replay[c].stage = "delete" => replay[c].item \in queued[user[c]]

\* A call carries an accepted message to a client of its receiver, is answered
\* well only after the message entered the channel, and is waited for by the
\* readPump that made it or by nobody.
CallOK(k) ==
    /\ k.msg \in accepted[k.user]
    /\ k.stage = "push" => ClientOf(k.client, k.user)
    /\ k.stage = "done" => k.msg \in queued[k.user]
    /\ k.by # None => /\ job[k.by].stage = "await"
                      /\ job[k.by].msg = k.msg /\ job[k.by].target = k.user

\* A readPump waits for one call at a time.
OneCall == \A k, l \in calls : k.by = l.by /\ k.by # None => k = l

TableOK == \A u \in Users : table[u] \subseteq accepted[u]

WorkOK == /\ \A c \in Conns : JobOK(c) /\ ReplayOK(c)
          /\ \A k \in calls : CallOK(k)
          /\ OneCall

IInv == /\ TypeOK /\ ConnsOK /\ HubIsUsable /\ ServedIsListed
        /\ TableOK /\ WorkOK /\ RightMailbox /\ RoutedIsKept

-----------------------------------------------------------------------------
\* What no step takes back: a connection's user and server, a message accepted,
\* queued or lost.
Grows == /\ \A u \in Users : /\ accepted[u] \subseteq accepted'[u]
                            /\ queued[u] \subseteq queued'[u]
                            /\ lost[u] \subseteq lost'[u]
         /\ \A c \in Conns : phase[c] # "new" =>
              phase'[c] # "new" /\ user'[c] = user[c] /\ at'[c] = at[c]

\* It holds before any client connects.
LEMMA InitEstablishes == Init => IInv
  BY MembersAssumption, NoneAssumption, NoConnAssumption, BoundsAssumption
  DEF Init, StoresInit, IInv, TypeOK, StoresTypeOK, ConnsOK, HubIsUsable, ServedIsListed, TableOK, WorkOK, OneCall,
      JobOK, ReplayOK, RightMailbox, RoutedIsKept, Owed, Idle, Off, JobAt, ReplayAt, Job, Replay, Phases

\* A message that enters a channel is remembered.
LEMMA EnqueueGrows ==
    ASSUME TypeOK, NEW c, NEW u, NEW m, Enqueue(c, u, m)
    PROVE  \A v \in Users : queued[v] \subseteq queued'[v]
  BY DEF TypeOK, Enqueue

\* Every step only adds to what was accepted, queued and connected.
LEMMA StepGrows == IInv /\ Next => Grows
<1> SUFFICES ASSUME IInv, Next PROVE Grows
    OBVIOUS
<1> USE DEF IInv, TypeOK, Phases
<1>1. ASSUME NEW c \in Conns, NEW u \in Users, NEW s \in Servers, HubAdd(c, u, s) PROVE Grows
    BY <1>1 DEF Grows, HubAdd, seenVars
<1>2. ASSUME NEW c \in Conns, StartPumps(c) \/ HandlerReturns(c) \/ SocketDies(c) \/ WritePump(c) \/ Cleanup(c)
      PROVE Grows
    BY <1>2 DEF Grows, StartPumps, HandlerReturns, SocketDies, WritePump, WriteDelivers, WriteFails,
        PingFails, Cleanup, HubRemove, CloseSend, CleanupPresence, seenVars, connVars
<1>3. ASSUME NEW c \in Conns, handleChatMessage(c) PROVE Grows
    BY <1>3 DEF Grows, handleChatMessage, connVars
<1>4. ASSUME NEW s \in Servers, ServerDies(s) PROVE Grows
    BY <1>4 DEF Grows, ServerDies
<1>5. ASSUME NEW c \in Conns, Router(c) PROVE Grows
  <2>1. CASE LocalPanics(c)
    <3>1. at[c] \in Servers
      BY <2>1 DEF LocalPanics, WorkOK, JobOK, ConnsOK
    <3>. QED
      BY <1>4, <2>1, <3>1 DEF LocalPanics
  <2>2. CASE LocalPush(c)
    BY <2>2, EnqueueGrows DEF Grows, LocalPush, connVars
  <2>3. CASE ~LocalPanics(c) /\ ~LocalPush(c)
    BY <1>5, <2>3 DEF Grows, Router, connVars, seenVars, routeMessageToUser, LookupFails,
       LocalGet, sendRemote, UnsetPresence, StoreOffline, StoreFails
  <2>. QED
    BY <2>1, <2>2, <2>3
<1>6. ASSUME NEW c \in Conns, Replayer(c) PROVE Grows
  <2>1. CASE ReplayPanics(c)
    <3>1. at[c] \in Servers
      BY <2>1 DEF ReplayPanics, WorkOK, ReplayOK, ConnsOK
    <3>. QED
      BY <1>4, <2>1, <3>1 DEF ReplayPanics
  <2>2. CASE ReplayPush(c)
    BY <2>2, EnqueueGrows DEF Grows, ReplayPush, connVars
  <2>3. CASE ~ReplayPanics(c) /\ ~ReplayPush(c)
    BY <1>6, <2>3 DEF Grows, Replayer, connVars, seenVars, ReplayList, ReplayGet,
       ReplayDelete, ReplayDeleteFails
  <2>. QED
    BY <2>1, <2>2, <2>3
<1>7. ASSUME handleInternalSend PROVE Grows
    BY <1>7, EnqueueGrows DEF Grows, handleInternalSend, InternalGet, InternalPush, CallLost,
       connVars, seenVars
<1>8. ASSUME NEW s \in Servers, startHeartbeat(s) \/ Crash(s) \/ Start(s) PROVE Grows
    BY <1>4, <1>8 DEF Grows, startHeartbeat, HeartbeatTick, HeartbeatSet, Crash, Start, connVars, seenVars
<1>9. ASSUME NEW u \in Users, Expire(u) PROVE Grows
    BY <1>9 DEF Grows, Expire, connVars, seenVars
<1>. QED
    BY <1>1, <1>2, <1>3, <1>5, <1>6, <1>7, <1>8, <1>9 DEF Next

-----------------------------------------------------------------------------
\* The steps, sorted by what they can change.
Handlers(c) == StartPumps(c) \/ HandlerReturns(c) \/ SocketDies(c) \/ WritePump(c) \/ Cleanup(c)

Routes(c) == \/ \E u \in Users : routeMessageToUser(c, u) \/ LookupFails(c, u)
             \/ LocalGet(c) \/ LocalPush(c) \/ sendRemote(c)
             \/ UnsetPresence(c) \/ StoreOffline(c) \/ StoreFails(c)

Replays(c) == \/ ReplayList(c) \/ (\E m \in Stamps : ReplayGet(c, m)) \/ ReplayPush(c)
              \/ ReplayDelete(c) \/ ReplayDeleteFails(c)

Outside == \/ \E s \in Servers : startHeartbeat(s) \/ Start(s)
           \/ \E u \in Users : Expire(u)

Dies == \E s \in Servers : /\ ServerDies(s) /\ UNCHANGED <<storeVars, faults>>
                           /\ crashes' = crashes \/ (crashes < MaxCrashes /\ crashes' = crashes + 1)

\* A panic ends the server of the connection whose goroutine panics.
LEMMA Kinds ==
    ASSUME IInv, Next
    PROVE  \/ \E c \in Conns, u \in Users, s \in Servers : HubAdd(c, u, s)
           \/ \E c \in Conns : Handlers(c) \/ handleChatMessage(c) \/ Routes(c) \/ Replays(c)
           \/ handleInternalSend \/ Outside \/ Dies
<1>1. \A c \in Conns : LocalPanics(c) \/ ReplayPanics(c) => at[c] \in Servers
    BY DEF IInv, WorkOK, JobOK, ReplayOK, ConnsOK, LocalPanics, ReplayPanics
<1>2. \A c \in Conns : LocalPanics(c) \/ ReplayPanics(c) => Dies
    BY <1>1 DEF LocalPanics, ReplayPanics, Dies
<1>3. (\E s \in Servers : Crash(s)) => Dies
    BY DEF Crash, Dies
<1>. QED
    BY <1>2, <1>3 DEF Next, Router, Replayer, Handlers, Routes, Replays, Outside

\* The hubs stay usable.
LEMMA HubStep == IInv /\ Next => HubIsUsable'
<1> SUFFICES ASSUME IInv, Next, NEW t \in Servers, NEW v \in Users, hub'[t][v] # None
             PROVE  Usable(hub[t][v], v, t)'
    BY DEF HubIsUsable
<1> USE DEF IInv, TypeOK, Usable
<1>0. hub[t][v] # None => hub[t][v] \in Conns /\ Usable(hub[t][v], v, t)
    BY DEF HubIsUsable
<1>1. ASSUME NEW c \in Conns, NEW u \in Users, NEW s \in Servers, HubAdd(c, u, s)
      PROVE  Usable(hub[t][v], v, t)'
  <2>1. CASE t = s /\ v = u
    BY <1>1, <2>1 DEF HubAdd
  <2>2. CASE ~(t = s /\ v = u)
    <3>1. hub'[t][v] = hub[t][v]
      BY <1>1, <2>2 DEF HubAdd
    <3>. QED
      BY <1>0, <1>1, <3>1 DEF HubAdd
  <2>. QED
    BY <2>1, <2>2
<1>2. ASSUME NEW c \in Conns, Handlers(c) PROVE Usable(hub[t][v], v, t)'
  <2>1. CASE StartPumps(c)
    BY <1>0, <2>1 DEF StartPumps
  <2>2. CASE HubRemove(c)
    <3>1. user[c] \in Users /\ at[c] \in Servers
      BY <2>2 DEF HubRemove, ConnsOK
    <3>2. hub'[t][v] = hub[t][v] /\ ~(t = at[c] /\ v = user[c])
      BY <2>2, <3>1 DEF HubRemove
    <3>3. hub[t][v] # c
      BY <1>0, <3>2
    <3>. QED
      BY <1>0, <2>2, <3>2, <3>3 DEF HubRemove
  <2>3. CASE CloseSend(c) \/ CleanupPresence(c)
    <3>1. hub'[t][v] = hub[t][v] /\ phase[c] \in {"removed", "leaving"}
      BY <2>3 DEF CloseSend, CleanupPresence
    <3>. QED
      BY <1>0, <2>3, <3>1 DEF CloseSend, CleanupPresence
  <2>4. CASE HandlerReturns(c) \/ SocketDies(c) \/ WritePump(c)
    BY <1>0, <2>4 DEF HandlerReturns, SocketDies, WritePump, WriteDelivers, WriteFails, PingFails, connVars
  <2>. QED
    BY <1>2, <2>1, <2>2, <2>3, <2>4 DEF Handlers, Cleanup
<1>3. ASSUME NEW c \in Conns, handleChatMessage(c) \/ Routes(c) \/ Replays(c)
      PROVE  Usable(hub[t][v], v, t)'
    BY <1>0, <1>3 DEF handleChatMessage, Routes, routeMessageToUser, LookupFails, LocalGet, LocalPush,
       sendRemote, UnsetPresence, StoreOffline, StoreFails, Replays, ReplayList, ReplayGet,
       ReplayPush, ReplayDelete, ReplayDeleteFails, connVars
<1>4. ASSUME handleInternalSend \/ Outside PROVE Usable(hub[t][v], v, t)'
    BY <1>0, <1>4 DEF handleInternalSend, InternalGet, InternalPush, CallLost, Outside, startHeartbeat,
       HeartbeatTick, HeartbeatSet, Start, Expire, connVars
<1>5. ASSUME NEW s \in Servers, ServerDies(s) PROVE Usable(hub[t][v], v, t)'
  <2>1. t # s
    BY <1>5 DEF ServerDies
  <2>. QED
    BY <1>0, <1>5, <2>1 DEF ServerDies, ConnsOf
<1>. QED
    BY Kinds, <1>1, <1>2, <1>3, <1>4, <1>5 DEF Dies

\* Whoever serves stays listed, or has met another connection of the same user.
LEMMA ListedStep == IInv /\ Next => ServedIsListed'
<1> SUFFICES ASSUME IInv, Next, NEW e \in Conns, phase'[e] \in {"added", "serving"},
                    ~\E d \in Conns \ {e} : phase'[d] # "new" /\ user'[d] = user'[e] /\ at'[d] = at'[e]
             PROVE  hub'[at'[e]][user'[e]] = e
    BY DEF ServedIsListed
<1>0. Grows
    BY StepGrows
<1> USE DEF IInv, TypeOK
<1>1. phase[e] # "new" => /\ user'[e] = user[e] /\ at'[e] = at[e]
                          /\ user[e] \in Users /\ at[e] \in Servers
                          /\ \A d \in Conns \ {e} :
                               phase[d] # "new" => ~(user[d] = user[e] /\ at[d] = at[e])
    BY <1>0 DEF Grows, ConnsOK
<1>2. ASSUME phase[e] \in {"added", "serving"}, hub'[at[e]][user[e]] = hub[at[e]][user[e]]
      PROVE  hub'[at'[e]][user'[e]] = e
    BY <1>1, <1>2 DEF ServedIsListed
<1>3. ASSUME NEW c \in Conns, NEW u \in Users, NEW s \in Servers, HubAdd(c, u, s)
      PROVE  hub'[at'[e]][user'[e]] = e
  <2>1. CASE e = c
    BY <1>3, <2>1 DEF HubAdd
  <2>2. CASE e # c
    <3>1. phase[e] \in {"added", "serving"}
      BY <1>3, <2>2 DEF HubAdd
    <3>2. ~(user[e] = u /\ at[e] = s)
      BY <1>1, <1>3, <2>2, <3>1 DEF HubAdd
    <3>3. hub'[at[e]][user[e]] = hub[at[e]][user[e]]
      BY <1>1, <1>3, <3>1, <3>2 DEF HubAdd
    <3>. QED
      BY <1>2, <3>1, <3>3
  <2>. QED
    BY <2>1, <2>2
<1>4. ASSUME NEW c \in Conns, Handlers(c) PROVE hub'[at'[e]][user'[e]] = e
  <2>1. phase[e] \in {"added", "serving"}
    BY <1>4 DEF Handlers, StartPumps, HandlerReturns, SocketDies, WritePump, WriteDelivers, WriteFails,
       PingFails, Cleanup, HubRemove, CloseSend, CleanupPresence, connVars
  <2>2. CASE HubRemove(c)
    <3>1. e # c /\ phase[c] = "serving" /\ hub' = [hub EXCEPT ![at[c]][user[c]] = None]
      BY <2>2 DEF HubRemove
    <3>2. ~(user[c] = user[e] /\ at[c] = at[e])
      BY <1>1, <2>1, <3>1
    <3>3. hub'[at[e]][user[e]] = hub[at[e]][user[e]]
      BY <1>1, <2>1, <3>1, <3>2
    <3>. QED
      BY <1>2, <2>1, <3>3
  <2>3. CASE ~HubRemove(c)
    <3>1. hub' = hub
      BY <1>4, <2>3 DEF Handlers, StartPumps, HandlerReturns, SocketDies, WritePump, WriteDelivers, WriteFails,
         PingFails, Cleanup, CloseSend, CleanupPresence
    <3>. QED
      BY <1>2, <2>1, <3>1
  <2>. QED
    BY <2>2, <2>3
<1>5. ASSUME NEW c \in Conns, handleChatMessage(c) \/ Routes(c) \/ Replays(c)
      PROVE  hub'[at'[e]][user'[e]] = e
  <2>1. hub' = hub /\ phase' = phase
    BY <1>5 DEF handleChatMessage, Routes, routeMessageToUser, LookupFails, LocalGet, LocalPush,
       sendRemote, UnsetPresence, StoreOffline, StoreFails, Replays, ReplayList, ReplayGet,
       ReplayPush, ReplayDelete, ReplayDeleteFails, connVars
  <2>. QED
    BY <1>2, <2>1
<1>6. ASSUME handleInternalSend \/ Outside PROVE hub'[at'[e]][user'[e]] = e
  <2>1. hub' = hub /\ phase' = phase
    BY <1>6 DEF handleInternalSend, InternalGet, InternalPush, CallLost, Outside, startHeartbeat,
       HeartbeatTick, HeartbeatSet, Start, Expire, connVars
  <2>. QED
    BY <1>2, <2>1
<1>7. ASSUME NEW s \in Servers, ServerDies(s) PROVE hub'[at'[e]][user'[e]] = e
  <2>1. e \notin ConnsOf(s) /\ phase[e] \in {"added", "serving"}
    BY <1>7 DEF ServerDies
  <2>2. hub'[at[e]] = hub[at[e]]
    BY <1>7, <2>1 DEF ServerDies, ConnsOf
  <2>. QED
    BY <1>2, <2>1, <2>2
<1>. QED
    BY Kinds, <1>3, <1>4, <1>5, <1>6, <1>7 DEF Dies

\* A connection keeps its user and server.
LEMMA ConnsStep == IInv /\ Next => ConnsOK'
<1> SUFFICES ASSUME IInv, Next PROVE ConnsOK'
    OBVIOUS
<1> USE DEF IInv, TypeOK, ConnsOK
<1>1. ASSUME NEW c \in Conns, NEW u \in Users, NEW s \in Servers, HubAdd(c, u, s) PROVE ConnsOK'
    BY <1>1 DEF HubAdd
<1>2. ASSUME NEW c \in Conns, Handlers(c) PROVE ConnsOK'
  <2>1. CASE StartPumps(c) \/ HandlerReturns(c) \/ SocketDies(c)
    BY <2>1 DEF StartPumps, HandlerReturns, SocketDies, connVars
  <2>2. CASE WritePump(c)
    <3>1. phase' = phase /\ user' = user /\ at' = at
          /\ \A d \in Conns : send'[d] = send[d] \/ send[d] # <<>>
      BY <2>2 DEF WritePump, WriteDelivers, WriteFails, PingFails, connVars
    <3>. QED
      BY <3>1
  <2>3. CASE Cleanup(c)
    BY <2>3 DEF Cleanup, HubRemove, CloseSend, CleanupPresence
  <2>. QED
    BY <1>2, <2>1, <2>2, <2>3 DEF Handlers
<1>3. ASSUME NEW c \in Conns, handleChatMessage(c) PROVE ConnsOK'
    BY <1>3 DEF handleChatMessage, connVars
<1>4. ASSUME NEW c \in Conns, Routes(c) PROVE ConnsOK'
  <2>1. CASE LocalPush(c)
    BY <2>1 DEF LocalPush, WorkOK, JobOK, ClientOf, Enqueue, connVars
  <2>2. CASE ~LocalPush(c)
    BY <1>4, <2>2 DEF Routes, routeMessageToUser, LookupFails, LocalGet, sendRemote, UnsetPresence,
       StoreOffline, StoreFails, connVars
  <2>. QED
    BY <2>1, <2>2
<1>5. ASSUME NEW c \in Conns, Replays(c) PROVE ConnsOK'
  <2>1. CASE ReplayPush(c)
    BY <2>1 DEF ReplayPush, WorkOK, ReplayOK, ClientOf, Enqueue, connVars
  <2>2. CASE ~ReplayPush(c)
    BY <1>5, <2>2 DEF Replays, ReplayList, ReplayGet, ReplayDelete, ReplayDeleteFails, connVars
  <2>. QED
    BY <2>1, <2>2
<1>6. ASSUME handleInternalSend PROVE ConnsOK'
  <2>1. PICK k \in calls : InternalGet(k) \/ InternalPush(k) \/ CallLost(k)
    BY <1>6 DEF handleInternalSend
  <2>2. CASE InternalPush(k)
    <3>1. k.client \in Conns /\ phase[k.client] # "new"
      BY <2>2 DEF InternalPush, WorkOK, CallOK, ClientOf
    <3>. QED
      BY <2>2, <3>1 DEF InternalPush, Enqueue, connVars
  <2>3. CASE InternalGet(k) \/ CallLost(k)
    BY <2>3 DEF InternalGet, CallLost, connVars
  <2>. QED
    BY <2>1, <2>2, <2>3
<1>7. ASSUME Outside PROVE ConnsOK'
    BY <1>7 DEF Outside, startHeartbeat, HeartbeatTick, HeartbeatSet, Start, Expire, connVars
<1>8. ASSUME NEW s \in Servers, ServerDies(s) PROVE ConnsOK'
  <2>1. user' = user /\ at' = at
    BY <1>8 DEF ServerDies
  <2>2. \A c \in ConnsOf(s) : phase'[c] = "gone" /\ send'[c] = <<>> /\ phase[c] # "new"
    BY <1>8, NoneAssumption DEF ServerDies, ConnsOf
  <2>3. \A c \in Conns \ ConnsOf(s) : phase'[c] = phase[c] /\ send'[c] = send[c]
    BY <1>8 DEF ServerDies
  <2>. QED
    BY <2>1, <2>2, <2>3 DEF ConnsOf
<1>. QED
    BY Kinds, <1>1, <1>2, <1>3, <1>4, <1>5, <1>6, <1>7, <1>8 DEF Dies

-----------------------------------------------------------------------------
\* A readPump keeps what it knows of its message through the steps of others.
LEMMA JobFrame ==
    ASSUME IInv, Grows, NEW c \in Conns, job'[c] = job[c],
           phase'[c] = phase[c] \/ job[c].stage = "idle"
    PROVE  JobOK(c)'
  BY DEF IInv, TypeOK, Job, WorkOK, JobOK, ClientOf, Grows

\* With one target dealt with, the others are still to come.
LEMMA NextFrame ==
    ASSUME IInv, Grows, NEW c \in Conns, NEW u, job[c].stage # "idle", NextTarget(c, u),
           phase'[c] = phase[c]
    PROVE  JobOK(c)'
  BY DEF IInv, TypeOK, Job, WorkOK, JobOK, Grows, NextTarget, Idle, JobAt

\* On its way to the table a message keeps its target.
LEMMA StageFrame ==
    ASSUME IInv, Grows, NEW c \in Conns, job[c].stage \notin {"idle", "lookup"},
           Stage(c, "unset") \/ Stage(c, "store"), phase'[c] = phase[c]
    PROVE  JobOK(c)'
<1>1. /\ job'[c].stage = "unset" \/ job'[c].stage = "store"
      /\ job'[c].left = job[c].left /\ job'[c].msg = job[c].msg /\ job'[c].target = job[c].target
    BY DEF Stage, JobAs, IInv, TypeOK, Job
<1>2. JobOK(c) /\ job[c].left \subseteq Users
    BY DEF IInv, WorkOK, TypeOK, Job
<1>3. \A u \in job[c].left : accepted[u] \subseteq accepted'[u]
    BY <1>2 DEF Grows
<1>. QED
    BY <1>1, <1>2, <1>3 DEF JobOK

\* Every readPump's message stays in order.
LEMMA JobStep == IInv /\ Next => \A d \in Conns : JobOK(d)'
<1> SUFFICES ASSUME IInv, Next, NEW d \in Conns PROVE JobOK(d)'
    OBVIOUS
<1>0. Grows
    BY StepGrows
<1> USE DEF IInv, TypeOK, Phases
<1>1. ASSUME NEW c \in Conns, NEW u \in Users, NEW s \in Servers, HubAdd(c, u, s) PROVE JobOK(d)'
    BY <1>0, <1>1, JobFrame DEF HubAdd, WorkOK, JobOK
<1>2. ASSUME NEW c \in Conns, Handlers(c) PROVE JobOK(d)'
    BY <1>0, <1>2, JobFrame DEF Handlers, StartPumps, HandlerReturns, SocketDies, WritePump, WriteDelivers,
       WriteFails, PingFails, Cleanup, HubRemove, CloseSend, CleanupPresence, connVars, workVars, WorkOK, JobOK
<1>3. ASSUME NEW c \in Conns, handleChatMessage(c) PROVE JobOK(d)'
  <2>1. CASE d = c
    BY <1>3, <2>1, MembersAssumption DEF handleChatMessage, JobOK, JobAt, connVars
  <2>2. CASE d # c
    BY <1>0, <1>3, <2>2, JobFrame DEF handleChatMessage, connVars
  <2>. QED
    BY <2>1, <2>2
<1>4. ASSUME NEW c \in Conns, Routes(c) PROVE JobOK(d)'
  <2>1. phase' = phase /\ user' = user
    BY <1>4 DEF Routes, routeMessageToUser, LookupFails, LocalGet, LocalPush, sendRemote, UnsetPresence,
       StoreOffline, StoreFails, connVars
  <2>2. CASE d # c
    <3>1. job'[d] = job[d]
      BY <1>4, <2>2 DEF Routes, routeMessageToUser, LookupFails, LocalGet, LocalPush, sendRemote,
         UnsetPresence, StoreOffline, StoreFails, GiveUp, Stage, NextTarget
    <3>. QED
      BY <1>0, <2>1, <3>1, JobFrame
  <2>. SUFFICES JobOK(c)'
    BY <2>2
  <2>3. job[c].stage # "idle"
    BY <1>4 DEF Routes, routeMessageToUser, LookupFails, LocalGet, LocalPush, sendRemote, UnsetPresence,
       StoreOffline, StoreFails
  <2>4. ASSUME NEW u, NextTarget(c, u) PROVE JobOK(c)'
    BY <1>0, <2>1, <2>3, <2>4, NextFrame
  <2>5. ASSUME Stage(c, "unset") \/ Stage(c, "store"), job[c].stage # "lookup" PROVE JobOK(c)'
    BY <1>0, <2>1, <2>3, <2>5, StageFrame
  <2>6. ASSUME NEW u \in Users, routeMessageToUser(c, u) PROVE JobOK(c)'
    BY <1>0, <2>1, <2>3, <2>6 DEF routeMessageToUser, JobAs, JobOK, WorkOK, Job, Grows
  <2>7. CASE LocalGet(c)
    <3>1. job[c].target \in job[c].left /\ job[c].target \in Users /\ at[c] \in Servers
      BY <2>7, <2>3 DEF LocalGet, WorkOK, JobOK, Job, ConnsOK
    <3>2. CASE hub[at[c]][job[c].target] = None
      <4>1. Stage(c, "unset")
        BY <2>7, <3>2 DEF LocalGet
      <4>. QED
        BY <2>5, <2>7, <4>1 DEF LocalGet
    <3>3. CASE hub[at[c]][job[c].target] # None
      <4> DEFINE client == hub[at[c]][job[c].target]
      <4>0. client \in Conns /\ Usable(client, job[c].target, at[c])
        BY <3>1, <3>3 DEF HubIsUsable
      <4>1. ClientOf(client, job[c].target)
        BY <4>0 DEF Usable, ClientOf
      <4>2. job' = [job EXCEPT ![c] = JobAs(job[c], "push", job[c].target, client)]
        BY <2>7, <3>3 DEF LocalGet
      <4> HIDE DEF client
      <4>. QED
        BY <1>0, <2>1, <2>3, <3>1, <4>1, <4>2 DEF JobAs, JobOK, WorkOK, Job, Grows, ClientOf
    <3>. QED
      BY <3>2, <3>3
  <2>8. CASE LocalPush(c) \/ sendRemote(c)
    <3>1. NextTarget(c, job[c].target) \/ Stage(c, "unset")
      BY <2>8 DEF LocalPush, sendRemote
    <3>2. job[c].stage # "lookup"
      BY <2>8 DEF LocalPush, sendRemote
    <3>. QED
      BY <2>4, <2>5, <3>1, <3>2
  <2>9. CASE UnsetPresence(c) \/ StoreOffline(c) \/ StoreFails(c)
    <3>1. NextTarget(c, job[c].target) \/ Stage(c, "store")
      BY <2>9 DEF UnsetPresence, StoreOffline, StoreFails, GiveUp
    <3>2. job[c].stage # "lookup"
      BY <2>9 DEF UnsetPresence, StoreOffline, StoreFails
    <3>. QED
      BY <2>4, <2>5, <3>1, <3>2
  <2>10. ASSUME NEW u \in Users, LookupFails(c, u) PROVE JobOK(c)'
    BY <2>4, <2>10 DEF LookupFails, GiveUp
  <2>. QED
    BY <1>4, <2>6, <2>7, <2>8, <2>9, <2>10 DEF Routes
<1>5. ASSUME NEW c \in Conns, Replays(c) PROVE JobOK(d)'
    BY <1>0, <1>5, JobFrame DEF Replays, ReplayList, ReplayGet, ReplayPush, ReplayDelete, ReplayDeleteFails,
       connVars
<1>6. ASSUME handleInternalSend \/ Outside PROVE JobOK(d)'
    BY <1>0, <1>6, JobFrame DEF handleInternalSend, InternalGet, InternalPush, CallLost, Outside,
       startHeartbeat, HeartbeatTick, HeartbeatSet, Start, Expire, connVars, workVars
<1>7. ASSUME NEW s \in Servers, ServerDies(s) PROVE JobOK(d)'
  <2>1. CASE d \in ConnsOf(s)
    BY <1>7, <2>1 DEF ServerDies, JobOK, Idle, JobAt
  <2>2. CASE d \notin ConnsOf(s)
    BY <1>0, <1>7, <2>2, JobFrame DEF ServerDies
  <2>. QED
    BY <2>1, <2>2
<1>. QED
    BY Kinds, <1>1, <1>2, <1>3, <1>4, <1>5, <1>6, <1>7 DEF Dies

-----------------------------------------------------------------------------
\* A replay keeps its place through the steps of others.
LEMMA ReplayFrame ==
    ASSUME IInv, Grows, NEW c \in Conns, replay'[c].stage = replay[c].stage,
           replay'[c].items = replay[c].items, replay'[c].item = replay[c].item,
           replay'[c].client = replay[c].client
    PROVE  ReplayOK(c)'
  BY DEF IInv, WorkOK, ReplayOK, ConnsOK, ClientOf, Grows

\* Every replay stays in order.
LEMMA ReplayStep == IInv /\ Next => \A d \in Conns : ReplayOK(d)'
<1> SUFFICES ASSUME IInv, Next, NEW d \in Conns PROVE ReplayOK(d)'
    OBVIOUS
<1>0. Grows
    BY StepGrows
<1> USE DEF IInv, TypeOK, Phases
<1>1. ASSUME NEW c \in Conns, NEW u \in Users, NEW s \in Servers, HubAdd(c, u, s) PROVE ReplayOK(d)'
    BY <1>0, <1>1, ReplayFrame DEF HubAdd
<1>2. ASSUME NEW c \in Conns, Handlers(c) PROVE ReplayOK(d)'
  <2>1. CASE StartPumps(c) /\ d = c
    <3>1. replay'[c] = ReplayAt("list", {}, TRUE) /\ phase'[c] = "serving"
      BY <2>1 DEF StartPumps
    <3>. QED
      BY <2>1, <3>1 DEF ReplayOK, ReplayAt
  <2>2. CASE StartPumps(c) /\ d # c
    BY <1>0, <2>2, ReplayFrame DEF StartPumps
  <2>3. CASE HandlerReturns(c)
    BY <1>0, <2>3, ReplayFrame DEF HandlerReturns, ReplayAs, Replay
  <2>4. CASE SocketDies(c) \/ WritePump(c) \/ Cleanup(c)
    BY <1>0, <2>4, ReplayFrame DEF SocketDies, WritePump, WriteDelivers, WriteFails, PingFails, Cleanup,
       HubRemove, CloseSend, CleanupPresence, workVars
  <2>. QED
    BY <1>2, <2>1, <2>2, <2>3, <2>4 DEF Handlers
<1>3. ASSUME NEW c \in Conns, handleChatMessage(c) \/ Routes(c) PROVE ReplayOK(d)'
    BY <1>0, <1>3, ReplayFrame DEF handleChatMessage, Routes, routeMessageToUser, LookupFails, LocalGet,
       LocalPush, sendRemote, UnsetPresence, StoreOffline, StoreFails
<1>4. ASSUME NEW c \in Conns, Replays(c) PROVE ReplayOK(d)'
  <2>1. CASE d # c
    <3>1. replay'[d] = replay[d]
      BY <1>4, <2>1 DEF Replays, ReplayList, ReplayGet, ReplayPush, ReplayDelete, ReplayDeleteFails
    <3>. QED
      BY <1>0, <3>1, ReplayFrame
  <2>. SUFFICES ReplayOK(c)'
    BY <2>1
  <2>2. phase' = phase /\ user' = user /\ at' = at /\ accepted' = accepted
    BY <1>4 DEF Replays, ReplayList, ReplayGet, ReplayPush, ReplayDelete, ReplayDeleteFails,
       connVars, seenVars
  <2>3. phase[c] # "new" /\ user[c] \in Users /\ at[c] \in Servers
        /\ replay[c].items \subseteq accepted[user[c]]
    BY <1>4 DEF Replays, ReplayList, ReplayGet, ReplayPush, ReplayDelete, ReplayDeleteFails,
       WorkOK, ReplayOK, ConnsOK
  <2>4. ASSUME replay'[c] = Off PROVE ReplayOK(c)'
    BY <2>4 DEF ReplayOK, Off, ReplayAt
  <2>5. ASSUME NEW items, NEW live, items \subseteq accepted[user[c]], replay'[c] = ReplayAt("get", items, live)
        PROVE  ReplayOK(c)'
    BY <2>2, <2>3, <2>5 DEF ReplayOK, ReplayAt
  <2>6. CASE ReplayList(c)
    <3>1. listOfflineMessages(user[c]) \subseteq accepted[user[c]]
      BY <2>3 DEF listOfflineMessages, TableOK
    <3>2. replay'[c] = Off \/ replay'[c] = ReplayAt("get", listOfflineMessages(user[c]), replay[c].live)
      BY <2>6 DEF ReplayList
    <3>. QED
      BY <2>4, <2>5, <3>1, <3>2
  <2>7. ASSUME NEW m \in Stamps, ReplayGet(c, m) PROVE ReplayOK(c)'
    <3> DEFINE client == hub[at[c]][user[c]]
    <3>1. CASE client = None
      BY <2>4, <2>7, <3>1 DEF ReplayGet
    <3>2. CASE client # None
      <4>0. client \in Conns /\ Usable(client, user[c], at[c])
        BY <2>3, <3>2 DEF HubIsUsable
      <4>1. ClientOf(client, user[c])
        BY <4>0 DEF Usable, ClientOf
      <4>2. /\ replay'[c].stage = "push" /\ replay'[c].item = m /\ replay'[c].client = client
            /\ replay'[c].items = replay[c].items /\ m \in replay[c].items
        BY <2>7, <3>2 DEF ReplayGet, ReplayAs, Replay
      <4> HIDE DEF client
      <4>. QED
        BY <2>2, <2>3, <4>1, <4>2 DEF ReplayOK, ClientOf
    <3>. QED
      BY <3>1, <3>2
  <2>8. CASE ReplayPush(c)
    <3>1. CASE SendFull(replay[c].client)
      BY <2>4, <2>8, <3>1 DEF ReplayPush
    <3>2. CASE ~SendFull(replay[c].client)
      <4>1. /\ replay'[c].stage = "delete" /\ replay'[c].item = replay[c].item
            /\ replay'[c].items = replay[c].items /\ replay[c].item \in replay[c].items
        BY <2>8, <3>2 DEF ReplayPush, ReplayAs, Replay, WorkOK, ReplayOK
      <4>2. replay[c].item \in queued'[user[c]]
        BY <2>3, <2>8, <3>2 DEF ReplayPush, Enqueue
      <4>. QED
        BY <2>2, <2>3, <4>1, <4>2 DEF ReplayOK
    <3>. QED
      BY <3>1, <3>2
  <2>9. CASE ReplayDelete(c)
    <3>1. \/ replay'[c] = Off
          \/ replay'[c] = ReplayAt("get", replay[c].items \ {replay[c].item}, TRUE)
      BY <2>9 DEF ReplayDelete
    <3>2. replay[c].items \ {replay[c].item} \subseteq accepted[user[c]]
      BY <2>3
    <3>3. ASSUME replay'[c] = ReplayAt("get", replay[c].items \ {replay[c].item}, TRUE) PROVE ReplayOK(c)'
      BY <2>5, <3>2, <3>3
    <3>. QED
      BY <2>4, <3>1, <3>3
  <2>10. CASE ReplayDeleteFails(c)
    BY <2>4, <2>10 DEF ReplayDeleteFails
  <2>. QED
    BY <1>4, <2>6, <2>7, <2>8, <2>9, <2>10 DEF Replays
<1>5. ASSUME handleInternalSend \/ Outside PROVE ReplayOK(d)'
    BY <1>0, <1>5, ReplayFrame DEF handleInternalSend, InternalGet, InternalPush, CallLost, Outside,
       startHeartbeat, HeartbeatTick, HeartbeatSet, Start, Expire, workVars
<1>6. ASSUME NEW s \in Servers, ServerDies(s) PROVE ReplayOK(d)'
  <2>1. CASE d \in ConnsOf(s)
    BY <1>6, <2>1 DEF ServerDies, ReplayOK, Off, ReplayAt
  <2>2. CASE d \notin ConnsOf(s)
    BY <1>0, <1>6, <2>2, ReplayFrame DEF ServerDies
  <2>. QED
    BY <2>1, <2>2
<1>. QED
    BY Kinds, <1>1, <1>2, <1>3, <1>4, <1>5, <1>6 DEF Dies

-----------------------------------------------------------------------------
\* A call keeps its place through the steps of others.
LEMMA CallFrame ==
    ASSUME IInv, Grows, NEW k \in calls,
           k.by # None => job'[k.by].stage = job[k.by].stage /\ job'[k.by].msg = job[k.by].msg
                          /\ job'[k.by].target = job[k.by].target
    PROVE  CallOK(k)'
<1>1. CallOK(k) /\ k \in Call
    BY DEF IInv, WorkOK, TypeOK
<1>2. accepted[k.user] \subseteq accepted'[k.user] /\ queued[k.user] \subseteq queued'[k.user]
    BY <1>1 DEF Grows, Call
<1>. QED
    BY <1>1, <1>2 DEF CallOK, ClientOf, Grows

\* What CallAs makes of a call.
LEMMA CallAsIs ==
    ASSUME NEW k, NEW by, NEW stage, NEW client
    PROVE  LET l == CallAs(k, by, stage, client)
           IN  /\ l.user = k.user /\ l.msg = k.msg /\ l.to = k.to
               /\ l.by = by /\ l.stage = stage /\ l.client = client
  BY DEF CallAs

\* Every call stays in order.
LEMMA CallStep == IInv /\ Next => (\A k \in calls : CallOK(k))'
<1> SUFFICES ASSUME IInv, Next, NEW l \in calls' PROVE CallOK(l)'
    OBVIOUS
<1>0. Grows
    BY StepGrows
<1>1. ASSUME calls' = calls, job' = job PROVE CallOK(l)'
    BY <1>0, <1>1, CallFrame
<1>2. \A k \in calls : k.by # None => job[k.by].stage = "await"
    BY DEF IInv, WorkOK, CallOK
<1>3. calls \subseteq Call
    BY DEF IInv, TypeOK
<1>4. CASE \E c \in Conns, u \in Users, s \in Servers : HubAdd(c, u, s)
    BY <1>1, <1>4 DEF HubAdd
<1>5. ASSUME NEW c \in Conns, Handlers(c) \/ Replays(c) PROVE CallOK(l)'
    BY <1>1, <1>5 DEF Handlers, StartPumps, HandlerReturns, SocketDies, WritePump, WriteDelivers,
       WriteFails, PingFails, Cleanup, HubRemove, CloseSend, CleanupPresence, workVars, Replays,
       ReplayList, ReplayGet, ReplayPush, ReplayDelete, ReplayDeleteFails
<1>6. ASSUME NEW c \in Conns, handleChatMessage(c) \/ Routes(c) PROVE CallOK(l)'
  <2>1. \A d \in Conns : d # c => job'[d] = job[d]
    BY <1>6 DEF IInv, TypeOK, handleChatMessage, Routes, routeMessageToUser, LookupFails, LocalGet,
       LocalPush, sendRemote, UnsetPresence, StoreOffline, StoreFails, GiveUp, Stage, NextTarget
  <2>2. ASSUME l \in calls, l.by # c PROVE CallOK(l)'
    <3>1. l.by # None => l.by \in Conns
      BY <2>2, <1>3 DEF Call
    <3>. QED
      BY <1>0, <2>1, <2>2, <3>1, CallFrame
  <2>3. CASE job[c].stage # "await" /\ calls' = calls
    <3>1. l.by # c
      BY <1>2, <2>3, NoConnAssumption
    <3>. QED
      BY <2>2, <2>3, <3>1
  <2>4. ASSUME NEW u \in Users, routeMessageToUser(c, u) PROVE CallOK(l)'
    <3>1. job[c].stage = "lookup" /\ u \in job[c].left
      BY <2>4 DEF routeMessageToUser
    <3>2. CASE l \in calls
      BY <1>2, <2>2, <3>1, <3>2, NoConnAssumption
    <3>3. CASE l \notin calls
      <4>1. /\ l = [user |-> u, msg |-> job[c].msg, to |-> presence[u], by |-> c,
                    stage |-> "sent", client |-> None]
            /\ presence[u] # None /\ presence[u] # at[c]
        BY <2>4, <3>3 DEF routeMessageToUser
      <4>2. job[c].msg \in accepted'[u]
        BY <1>0, <3>1 DEF IInv, WorkOK, JobOK, Grows
      <4>3. job'[c].stage = "await" /\ job'[c].msg = job[c].msg /\ job'[c].target = u
        BY <2>4, <4>1 DEF routeMessageToUser, JobAs, IInv, TypeOK, Job
      <4>. QED
        BY <4>1, <4>2, <4>3 DEF CallOK
    <3>. QED
      BY <3>2, <3>3
  <2>5. CASE sendRemote(c)
    <3>0. CASE calls' = calls /\ \A k \in calls : k.by # c
      BY <2>2, <3>0
    <3>1. ASSUME NEW k \in calls, k.by = c,
                 \/ calls' = calls \ {k}
                 \/ calls' = (calls \ {k}) \cup {CallAs(k, None, k.stage, k.client)}
          PROVE  CallOK(l)'
      <4>2. CASE l \in calls /\ l # k
        <5>1. l.by # c
          BY <3>1, <4>2, NoConnAssumption DEF IInv, WorkOK, OneCall
        <5>. QED
          BY <2>2, <4>2, <5>1
      <4>3. CASE l = CallAs(k, None, k.stage, k.client)
        <5>1. k \in Call /\ CallOK(k)
          BY <1>3 DEF IInv, WorkOK
        <5>2. accepted[k.user] \subseteq accepted'[k.user] /\ queued[k.user] \subseteq queued'[k.user]
          BY <1>0, <5>1 DEF Grows, Call
        <5>3. l.by = None /\ l.user = k.user /\ l.msg = k.msg /\ l.stage = k.stage /\ l.client = k.client
          BY <4>3, CallAsIs
        <5>. QED
          BY <1>0, <5>1, <5>2, <5>3 DEF CallOK, ClientOf, Grows
      <4>. QED
        BY <3>1, <4>2, <4>3
    <3>. QED
      BY <2>5, <3>0, <3>1 DEF sendRemote
  <2>6. ASSUME ~sendRemote(c), \A u \in Users : ~routeMessageToUser(c, u) PROVE CallOK(l)'
    <3>1. job[c].stage # "await" /\ calls' = calls
      BY <1>6, <2>6 DEF handleChatMessage, Routes, LookupFails, LocalGet, LocalPush, UnsetPresence,
         StoreOffline, StoreFails
    <3>. QED
      BY <2>3, <3>1
  <2>. QED
    BY <2>4, <2>5, <2>6
<1>7. CASE handleInternalSend
  <2>1. PICK k \in calls : InternalGet(k) \/ InternalPush(k) \/ CallLost(k)
    BY <1>7 DEF handleInternalSend
  <2>2. CASE l \in calls
    <3>1. job' = job
      BY <2>1 DEF InternalGet, InternalPush, CallLost
    <3>. QED
      BY <1>0, <2>2, <3>1, CallFrame
  <2>3. ASSUME NEW stage, NEW client, l = CallAs(k, k.by, stage, client), job' = job,
               stage = "push" => ClientOf(client, k.user)',
               stage = "done" => k.msg \in queued'[k.user]
        PROVE  CallOK(l)'
    <3>1. k \in Call /\ CallOK(k) /\ accepted[k.user] \subseteq accepted'[k.user]
      BY <1>0, <1>3 DEF IInv, WorkOK, Grows, Call
    <3>2. l.by = k.by /\ l.user = k.user /\ l.msg = k.msg /\ l.stage = stage /\ l.client = client
      BY <2>3, CallAsIs
    <3>. QED
      BY <2>3, <3>1, <3>2 DEF CallOK
  <2>4. CASE InternalGet(k) /\ l \notin calls
    <3>0. PICK client : client = hub[k.to][k.user]
      OBVIOUS
    <3>1. job' = job
      BY <2>4 DEF InternalGet
    <3>2. client # None => client \in Conns /\ Usable(client, k.user, k.to)
      BY <3>0, <1>3 DEF IInv, TypeOK, HubIsUsable, Call
    <3>3. client # None => ClientOf(client, k.user)'
      BY <3>2, <1>0 DEF Usable, ClientOf, Grows
    <3>4. CASE k.to \in up /\ client # None
      <4>1. l = CallAs(k, k.by, "push", client)
        BY <2>4, <3>0, <3>4 DEF InternalGet, Becomes
      <4>. QED
        BY <2>3, <3>1, <3>3, <3>4, <4>1
    <3>5. CASE ~(k.to \in up /\ client # None)
      <4>1. l = CallAs(k, k.by, "failed", client)
        BY <2>4, <3>0, <3>5 DEF InternalGet, Becomes
      <4>. QED
        BY <2>3, <3>1, <4>1
    <3>. QED
      BY <3>4, <3>5
  <2>5. CASE InternalPush(k) /\ l \notin calls
    <3>1. job' = job
      BY <2>5 DEF InternalPush
    <3>2. CASE l = CallAs(k, k.by, "failed", None)
      BY <2>3, <3>1, <3>2
    <3>3. CASE l = CallAs(k, k.by, "done", None) /\ Enqueue(k.client, k.user, k.msg)
      <4>1. k.msg \in queued'[k.user]
        BY <1>3, <3>3 DEF Enqueue, IInv, TypeOK, Call
      <4>. QED
        BY <2>3, <3>1, <3>3, <4>1
    <3>. QED
      BY <2>5, <3>2, <3>3 DEF InternalPush, Becomes
  <2>6. CASE CallLost(k) /\ l \notin calls
    BY <2>6 DEF CallLost
  <2>. QED
    BY <2>1, <2>2, <2>4, <2>5, <2>6
<1>8. CASE Outside
    BY <1>1, <1>8 DEF Outside, startHeartbeat, HeartbeatTick, HeartbeatSet, Start, Expire, workVars
<1>9. ASSUME NEW s \in Servers, ServerDies(s) PROVE CallOK(l)'
  <2>1. PICK k \in calls : l = CallWithout(k, s)
    BY <1>9 DEF ServerDies
  <2>2. /\ l.user = k.user /\ l.msg = k.msg
        /\ l.by = None \/ (l.by = k.by /\ k.by \notin ConnsOf(s))
        /\ l.stage = "failed" \/ (l.stage = k.stage /\ l.client = k.client)
    BY <2>1, CallAsIs DEF CallWithout
  <2>3. k \in Call /\ CallOK(k)
    BY <1>3 DEF IInv, WorkOK
  <2>4. accepted[k.user] \subseteq accepted'[k.user] /\ queued[k.user] \subseteq queued'[k.user]
    BY <1>0, <2>3 DEF Grows, Call
  <2>5. ASSUME l.by # None PROVE job'[l.by] = job[l.by]
    <3>1. job' = [c \in Conns |-> IF c \in ConnsOf(s) THEN Idle ELSE job[c]]
      BY <1>9 DEF ServerDies
    <3>2. l.by \in Conns /\ l.by \notin ConnsOf(s)
      BY <2>2, <2>3, <2>5 DEF Call
    <3>. QED
      BY <3>1, <3>2
  <2>6. l.by # None => l.by = k.by /\ job'[l.by] = job[k.by]
    BY <2>2, <2>5
  <2>7. l.stage = "push" => ClientOf(k.client, k.user)'
    BY <1>0, <2>2, <2>3 DEF CallOK, ClientOf, Grows
  <2>. QED
    BY <2>2, <2>3, <2>4, <2>6, <2>7 DEF CallOK, ClientOf
<1>. QED
    BY Kinds, <1>4, <1>5, <1>6, <1>7, <1>8, <1>9 DEF Dies

\* No second call is made for a readPump that waits for one.
LEMMA OneCallStep == IInv /\ Next => OneCall'
<1> SUFFICES ASSUME IInv, Next, NEW k \in calls', NEW l \in calls', k.by = l.by, k.by # None PROVE k = l
    BY DEF OneCall
<1>0. OneCall /\ \A m \in calls : m.by # None => job[m.by].stage = "await"
    BY DEF IInv, WorkOK, CallOK
<1>1. CASE calls' = calls
    BY <1>0, <1>1 DEF OneCall
<1>2. ASSUME NEW c \in Conns, NEW u \in Users, routeMessageToUser(c, u) PROVE k = l
  <2>1. \A m \in calls : m.by # c
    BY <1>0, <1>2, NoConnAssumption DEF routeMessageToUser
  <2>2. \A m \in calls' : m \in calls \/ (m.by = c /\ m = [user |-> u, msg |-> job[c].msg, to |-> presence[u],
                                                      by |-> c, stage |-> "sent", client |-> None])
    BY <1>2 DEF routeMessageToUser
  <2>. QED
    BY <1>0, <2>1, <2>2 DEF OneCall
<1>3. ASSUME NEW c \in Conns, sendRemote(c) PROVE k = l
  <2>1. calls' = calls \/ \E m \in calls : calls' \subseteq (calls \ {m}) \cup {CallAs(m, None, m.stage, m.client)}
    BY <1>3 DEF sendRemote
  <2>2. k \in calls /\ l \in calls
    BY <2>1, CallAsIs
  <2>. QED
    BY <1>0, <2>2 DEF OneCall
<1>4. CASE handleInternalSend
  <2>1. PICK m \in calls : InternalGet(m) \/ InternalPush(m) \/ CallLost(m)
    BY <1>4 DEF handleInternalSend
  <2>2. PICK n : /\ \A o \in calls' : (o \in calls /\ o # m) \/ o = n
                 /\ n.by = m.by
    <3>1. CASE CallLost(m)
      BY <3>1 DEF CallLost
    <3>2. CASE ~CallLost(m)
      <4>1. PICK stage, client : calls' = (calls \ {m}) \cup {CallAs(m, m.by, stage, client)}
        BY <2>1, <3>2 DEF InternalGet, InternalPush, Becomes
      <4>. QED
        BY <4>1, CallAsIs
    <3>. QED
      BY <3>1, <3>2
  <2>. QED
    BY <1>0, <2>2 DEF OneCall
<1>5. ASSUME NEW s \in Servers, ServerDies(s) PROVE k = l
  <2>1. PICK m \in calls, n \in calls : k = CallWithout(m, s) /\ l = CallWithout(n, s)
    BY <1>5 DEF ServerDies
  <2>2. (k.by = None \/ k.by = m.by) /\ (l.by = None \/ l.by = n.by)
    BY <2>1, CallAsIs DEF CallWithout
  <2>3. m = n
    BY <1>0, <2>2 DEF OneCall
  <2>. QED
    BY <2>1, <2>3
<1>6. ASSUME NEW c \in Conns, Routes(c), ~sendRemote(c), \A u \in Users : ~routeMessageToUser(c, u)
      PROVE  calls' = calls
    BY <1>6 DEF Routes, LookupFails, LocalGet, LocalPush, UnsetPresence, StoreOffline, StoreFails
<1>7. ASSUME NEW c \in Conns, Handlers(c) \/ handleChatMessage(c) \/ Replays(c) PROVE calls' = calls
    BY <1>7 DEF Handlers, handleChatMessage, StartPumps, HandlerReturns, SocketDies, WritePump, WriteDelivers,
       WriteFails, PingFails, Cleanup, HubRemove, CloseSend, CleanupPresence, workVars, Replays,
       ReplayList, ReplayGet, ReplayPush, ReplayDelete, ReplayDeleteFails
<1>8. ASSUME Outside \/ \E c \in Conns, u \in Users, s \in Servers : HubAdd(c, u, s) PROVE calls' = calls
    BY <1>8 DEF Outside, startHeartbeat, HeartbeatTick, HeartbeatSet, Start, Expire, workVars, HubAdd
<1>. QED
    BY Kinds, <1>1, <1>2, <1>3, <1>4, <1>5, <1>6, <1>7, <1>8 DEF Dies

-----------------------------------------------------------------------------
\* Only accepted messages are stored for a user.
LEMMA TableStep == IInv /\ Next => TableOK'
<1> SUFFICES ASSUME IInv, Next, NEW v \in Users PROVE table'[v] \subseteq accepted'[v]
    BY DEF TableOK
<1>0. table[v] \subseteq accepted[v] /\ accepted[v] \subseteq accepted'[v]
    BY StepGrows DEF IInv, TableOK, Grows
<1>1. CASE table' = table
    BY <1>0, <1>1
<1>2. ASSUME NEW c \in Conns, StoreOffline(c) PROVE table'[v] \subseteq accepted'[v]
  <2>1. job[c].msg \in accepted[job[c].target]
    BY <1>2 DEF StoreOffline, IInv, WorkOK, JobOK
  <2>2. table \in [Users -> SUBSET Stamps] /\ storeOfflineMessage(job[c].target, job[c].msg)
    BY <1>2 DEF StoreOffline, IInv, TypeOK, StoresTypeOK
  <2>3. table'[v] = table[v] \/ (v = job[c].target /\ table'[v] = table[v] \cup {job[c].msg})
    BY <2>2 DEF storeOfflineMessage
  <2>. QED
    BY <1>0, <2>1, <2>3
<1>3. ASSUME NEW c \in Conns, ReplayDelete(c) \/ ReplayDeleteFails(c) PROVE table'[v] \subseteq accepted'[v]
  <2>1. table' = table \/ deleteOfflineMessage(user[c], replay[c].item)
    BY <1>3 DEF ReplayDelete, ReplayDeleteFails
  <2>2. table \in [Users -> SUBSET Stamps]
    BY DEF IInv, TypeOK, StoresTypeOK
  <2>3. table'[v] \subseteq table[v]
    BY <2>1, <2>2 DEF deleteOfflineMessage
  <2>. QED
    BY <1>0, <2>3
<1>4. ASSUME NEW c \in Conns, Handlers(c) \/ handleChatMessage(c) PROVE table' = table
    BY <1>4 DEF Handlers, handleChatMessage, StartPumps, HandlerReturns, SocketDies, WritePump,
       WriteDelivers, WriteFails, PingFails, Cleanup, HubRemove, CloseSend, CleanupPresence, storeVars
<1>5. ASSUME NEW c \in Conns, Routes(c), ~StoreOffline(c) PROVE table' = table
    BY <1>5 DEF Routes, routeMessageToUser, LookupFails, LocalGet, LocalPush, sendRemote, UnsetPresence,
       StoreFails, storeVars
<1>6. ASSUME NEW c \in Conns, Replays(c), ~ReplayDelete(c), ~ReplayDeleteFails(c) PROVE table' = table
    BY <1>6 DEF Replays, ReplayList, ReplayGet, ReplayPush, storeVars
<1>7. ASSUME Outside \/ handleInternalSend \/ Dies
             \/ \E c \in Conns, u \in Users, s \in Servers : HubAdd(c, u, s) PROVE table' = table
    BY <1>7 DEF Outside, startHeartbeat, HeartbeatTick, HeartbeatSet, Start, Expire, HubAdd, Dies,
       handleInternalSend, InternalGet, InternalPush, CallLost, storeVars
<1>. QED
    BY Kinds, <1>1, <1>2, <1>3, <1>4, <1>5, <1>6, <1>7

-----------------------------------------------------------------------------
\* A channel stays right when it loses its head, is emptied, or is left alone.
LEMMA ChannelFrame ==
    ASSUME IInv, Grows, NEW c \in Conns,
           \/ send'[c] = send[c] \/ send'[c] = <<>>
           \/ send[c] # <<>> /\ send'[c] = Tail(send[c])
    PROVE  \A i \in 1..Len(send'[c]) : send'[c][i] \in accepted'[user'[c]]
<1>1. send[c] \in Seq(Stamps) /\ (phase[c] = "new" => send[c] = <<>>)
    BY DEF IInv, TypeOK, ConnsOK
<1>2. ASSUME phase[c] # "new"
      PROVE  user'[c] = user[c] /\ accepted[user[c]] \subseteq accepted'[user[c]]
    BY <1>2 DEF Grows, IInv, ConnsOK
<1>3. \A i \in 1..Len(send[c]) : send[c][i] \in accepted[user[c]]
    BY DEF IInv, RightMailbox
<1>4. CASE send'[c] = <<>>
    BY <1>4
<1>5. CASE send'[c] # <<>> /\ send'[c] = send[c]
    BY <1>1, <1>2, <1>3, <1>5
<1>6. CASE send'[c] # <<>> /\ send[c] # <<>> /\ send'[c] = Tail(send[c])
  <2>1. Len(send'[c]) = Len(send[c]) - 1 /\ \A i \in 1..Len(send'[c]) : send'[c][i] = send[c][i + 1]
    BY <1>1, <1>6
  <2>. QED
    BY <1>1, <1>2, <1>3, <1>6, <2>1
<1>. QED
    BY <1>4, <1>5, <1>6

\* A channel stays right when an accepted message of its user enters it.
LEMMA ChannelGrows ==
    ASSUME IInv, Grows, NEW c, NEW u \in Users, NEW m \in accepted[u], ClientOf(c, u), Enqueue(c, u, m)
    PROVE  RightMailbox'
<1> SUFFICES ASSUME NEW d \in Conns, NEW i \in 1..Len(send'[d]) PROVE send'[d][i] \in accepted'[user'[d]]
    BY DEF RightMailbox
<1>1. m \in accepted'[u] /\ user'[c] = u /\ c \in Conns
    BY DEF Grows, ClientOf
<1>2. CASE d # c
  <2>1. send'[d] = send[d]
    BY <1>2 DEF Enqueue, IInv, TypeOK
  <2>. QED
    BY <2>1, ChannelFrame
<1>3. CASE d = c
  <2>1. send[c] \in Seq(Stamps) /\ user[c] = u /\ accepted[u] \subseteq accepted'[u]
    BY <1>1 DEF IInv, TypeOK, Grows, ClientOf
  <2>2. send'[c] = Append(send[c], m)
    BY <1>1 DEF Enqueue, IInv, TypeOK
  <2>3. \A j \in 1..Len(send[c]) : send[c][j] \in accepted[u]
    BY <1>1, <2>1 DEF IInv, RightMailbox
  <2>4. CASE i = Len(send[c]) + 1
    BY <1>1, <1>3, <2>1, <2>2, <2>4
  <2>5. CASE i \in 1..Len(send[c])
    BY <1>1, <1>3, <2>1, <2>2, <2>3, <2>5
  <2>. QED
    BY <1>3, <2>1, <2>2, <2>4, <2>5
<1>. QED
    BY <1>2, <1>3

\* Every channel holds accepted messages of its user.
LEMMA MailboxStep == IInv /\ Next => RightMailbox'
<1> SUFFICES ASSUME IInv, Next PROVE RightMailbox'
    OBVIOUS
<1>0. Grows
    BY StepGrows
<1>1. ASSUME \A c \in Conns : \/ send'[c] = send[c] \/ send'[c] = <<>>
                              \/ send[c] # <<>> /\ send'[c] = Tail(send[c])
      PROVE  RightMailbox'
    BY <1>0, <1>1, ChannelFrame DEF RightMailbox
<1>2. ASSUME NEW c \in Conns, LocalPush(c) PROVE RightMailbox'
  <2>1. /\ ClientOf(job[c].client, job[c].target) /\ job[c].target \in Users
        /\ job[c].msg \in accepted[job[c].target]
    BY <1>2 DEF LocalPush, IInv, WorkOK, JobOK, TypeOK, Job
  <2>2. send' = send \/ Enqueue(job[c].client, job[c].target, job[c].msg)
    BY <1>2 DEF LocalPush
  <2>3. CASE Enqueue(job[c].client, job[c].target, job[c].msg)
    BY <1>0, <2>1, <2>3, ChannelGrows
  <2>. QED
    BY <1>1, <2>2, <2>3
<1>3. ASSUME NEW c \in Conns, ReplayPush(c) PROVE RightMailbox'
  <2>1. /\ ClientOf(replay[c].client, user[c]) /\ user[c] \in Users
        /\ replay[c].item \in accepted[user[c]]
    BY <1>3 DEF ReplayPush, IInv, WorkOK, ReplayOK, ConnsOK
  <2>2. send' = send \/ Enqueue(replay[c].client, user[c], replay[c].item)
    BY <1>3 DEF ReplayPush
  <2>3. CASE Enqueue(replay[c].client, user[c], replay[c].item)
    BY <1>0, <2>1, <2>3, ChannelGrows
  <2>. QED
    BY <1>1, <2>2, <2>3
<1>4. ASSUME NEW k \in calls, InternalPush(k) PROVE RightMailbox'
  <2>1. ClientOf(k.client, k.user) /\ k.user \in Users /\ k.msg \in accepted[k.user]
    BY <1>4 DEF InternalPush, IInv, WorkOK, CallOK, TypeOK, Call
  <2>2. send' = send \/ Enqueue(k.client, k.user, k.msg)
    BY <1>4 DEF InternalPush
  <2>3. CASE Enqueue(k.client, k.user, k.msg)
    BY <1>0, <2>1, <2>3, ChannelGrows
  <2>. QED
    BY <1>1, <2>2, <2>3
<1>5. ASSUME NEW c \in Conns, Handlers(c) PROVE RightMailbox'
  <2>1. \/ send' = send \/ send' = [send EXCEPT ![c] = <<>>]
        \/ send[c] # <<>> /\ send' = [send EXCEPT ![c] = Tail(send[c])]
    BY <1>5 DEF Handlers, StartPumps, HandlerReturns, SocketDies, WritePump, WriteDelivers, WriteFails,
       PingFails, Cleanup, HubRemove, CloseSend, CleanupPresence
  <2>. QED
    BY <1>1, <2>1 DEF IInv, TypeOK
<1>6. ASSUME NEW c \in Conns, handleChatMessage(c) \/ Routes(c), ~LocalPush(c) PROVE send' = send
    BY <1>6 DEF handleChatMessage, Routes, routeMessageToUser, LookupFails, LocalGet, sendRemote,
       UnsetPresence, StoreOffline, StoreFails
<1>7. ASSUME NEW c \in Conns, Replays(c), ~ReplayPush(c) PROVE send' = send
    BY <1>7 DEF Replays, ReplayList, ReplayGet, ReplayDelete, ReplayDeleteFails
<1>8. ASSUME handleInternalSend, \A k \in calls : ~InternalPush(k) PROVE send' = send
    BY <1>8 DEF handleInternalSend, InternalGet, CallLost
<1>9. ASSUME Outside \/ \E c \in Conns, u \in Users, s \in Servers : HubAdd(c, u, s) PROVE send' = send
    BY <1>9 DEF Outside, startHeartbeat, HeartbeatTick, HeartbeatSet, Start, Expire, HubAdd
<1>10. ASSUME NEW s \in Servers, ServerDies(s) PROVE RightMailbox'
    BY <1>1, <1>10 DEF ServerDies
<1>. QED
    BY Kinds, <1>1, <1>2, <1>3, <1>4, <1>5, <1>6, <1>7, <1>8, <1>9, <1>10 DEF Dies

-----------------------------------------------------------------------------
\* Where a message that was accepted for u is.
Kept(u, m) == \/ \E c \in Conns : u \in job[c].left /\ job[c].msg = m
              \/ m \in queued[u] \/ m \in table[u] \/ m \in dropped[u] \/ m \in lost[u]

\* Message by message, that is RoutedIsKept.
LEMMA KeptIs == RoutedIsKept <=> \A u \in Users : \A m \in accepted[u] : Kept(u, m)
  BY DEF RoutedIsKept, Owed, Kept

\* While its readPump holds it, or keeps the member on the list, it is kept.
LEMMA KeptFrame ==
    ASSUME Grows, NEW u \in Users, NEW m, Kept(u, m),
           \A c \in Conns : u \in job[c].left /\ job[c].msg = m =>
               (u \in job'[c].left /\ job'[c].msg = m) \/ Kept(u, m)',
           m \in table[u] => Kept(u, m)',
           dropped[u] \subseteq dropped'[u]
    PROVE  Kept(u, m)'
  BY DEF Kept, Grows

\* The member that was dealt with leaves the list, the others and the message stay.
LEMMA NextKeeps ==
    ASSUME TypeOK, NEW c \in Conns, NEW v, NextTarget(c, v), NEW u \in job[c].left, u # v
    PROVE  u \in job'[c].left /\ job'[c].msg = job[c].msg
  BY DEF TypeOK, NextTarget, JobAt, Idle

\* No accepted message vanishes.
LEMMA KeptStep == IInv /\ Next => RoutedIsKept'
<1> SUFFICES ASSUME IInv, Next, NEW u \in Users, NEW m \in accepted'[u] PROVE Kept(u, m)'
    BY DEF RoutedIsKept, Owed, Kept
<1>0. Grows
    BY StepGrows
<1>1. m \in accepted[u] => Kept(u, m)
    BY KeptIs DEF IInv
<1>2. TypeOK
    BY DEF IInv
<1>3. ASSUME accepted' = accepted, job' = job, table' = table, dropped' = dropped PROVE Kept(u, m)'
    BY <1>0, <1>1, <1>3, KeptFrame DEF Kept
<1>4. ASSUME NEW c \in Conns, handleChatMessage(c) PROVE Kept(u, m)'
  <2>1. PICK n \in Stamps, others \in SUBSET Users :
          /\ job' = [job EXCEPT ![c] = JobAt("lookup", n, others)]
          /\ accepted'[u] = IF u \in others THEN accepted[u] \cup {n} ELSE accepted[u]
    BY <1>4, MembersAssumption DEF handleChatMessage
  <2>2. job[c].left = {}
    BY <1>4 DEF handleChatMessage, IInv, WorkOK, JobOK
  <2>3. job'[c].left = others /\ job'[c].msg = n
    BY <1>2, <2>1 DEF TypeOK, JobAt
  <2>4. CASE u \in others /\ m = n
    BY <2>3, <2>4 DEF Kept
  <2>5. CASE m \in accepted[u]
    <3>1. \A d \in Conns : u \in job[d].left => job'[d] = job[d]
      BY <1>2, <2>1, <2>2 DEF TypeOK
    <3>2. dropped' = dropped /\ table' = table
      BY <1>4 DEF handleChatMessage, storeVars
    <3>. QED
      BY <1>0, <1>1, <2>5, <3>1, <3>2, KeptFrame DEF Kept
  <2>. QED
    BY <2>1, <2>4, <2>5
<1>5. ASSUME NEW c \in Conns, Routes(c) PROVE Kept(u, m)'
  <2>1. m \in accepted[u]
    BY <1>5 DEF Routes, routeMessageToUser, LookupFails, LocalGet, LocalPush, sendRemote, UnsetPresence,
       StoreOffline, StoreFails, seenVars
  <2>2. Kept(u, m)
    BY <1>1, <2>1
  <2>3. /\ \A d \in Conns : d # c => job'[d] = job[d]
        /\ table[u] \subseteq table'[u] /\ dropped[u] \subseteq dropped'[u]
    <3>1. table' = table \/ storeOfflineMessage(job[c].target, job[c].msg)
      BY <1>5 DEF Routes, routeMessageToUser, LookupFails, LocalGet, LocalPush, sendRemote, UnsetPresence,
         StoreOffline, StoreFails, storeVars
    <3>2. dropped' = dropped \/ \E v : GiveUp(c, v)
      BY <1>5 DEF Routes, routeMessageToUser, LookupFails, LocalGet, LocalPush, sendRemote, UnsetPresence,
         StoreOffline, StoreFails, seenVars
    <3>3. \A d \in Conns : d # c => job'[d] = job[d]
      BY <1>2, <1>5 DEF TypeOK, Routes, routeMessageToUser, LookupFails, LocalGet, LocalPush, sendRemote,
         UnsetPresence, StoreOffline, StoreFails, GiveUp, Stage, NextTarget
    <3>4. table[u] \subseteq table'[u]
      <4>1. table \in [Users -> SUBSET Stamps]
        BY <1>2 DEF TypeOK, StoresTypeOK
      <4>. QED
        BY <3>1, <4>1 DEF storeOfflineMessage
    <3>5. dropped[u] \subseteq dropped'[u]
      <4>1. dropped \in [Users -> SUBSET Stamps]
        BY <1>2 DEF TypeOK
      <4>2. dropped' = dropped \/ \E v : dropped' = [dropped EXCEPT ![v] = @ \cup {job[c].msg}]
        BY <3>2 DEF GiveUp
      <4>. QED
        BY <4>1, <4>2
    <3>. QED
      BY <3>3, <3>4, <3>5
  <2>4. ASSUME u \in job[c].left /\ job[c].msg = m =>
                 (u \in job'[c].left /\ job'[c].msg = m) \/ Kept(u, m)'
        PROVE  Kept(u, m)'
    BY <1>0, <2>2, <2>3, <2>4, KeptFrame DEF Kept
  <2>5. ASSUME job'[c].left = job[c].left, job'[c].msg = job[c].msg PROVE Kept(u, m)'
    BY <2>4, <2>5
  <2>6. ASSUME NEW v, NextTarget(c, v), v = u /\ job[c].msg = m => Kept(u, m)' PROVE Kept(u, m)'
    BY <1>2, <2>4, <2>6, NextKeeps
  <2>7. ASSUME NEW stage, Stage(c, stage) PROVE Kept(u, m)'
    BY <1>2, <2>5, <2>7 DEF Stage, JobAs, TypeOK, Job
  <2>8. ASSUME NEW v \in Users, routeMessageToUser(c, v) PROVE Kept(u, m)'
    BY <1>2, <2>5, <2>8 DEF routeMessageToUser, JobAs, TypeOK, Job
  <2>9. ASSUME NEW v, GiveUp(c, v) PROVE Kept(u, m)'
    BY <1>2, <2>6, <2>9 DEF GiveUp, Kept, TypeOK
  <2>10. CASE LocalGet(c)
    BY <1>2, <2>5, <2>7, <2>10 DEF LocalGet, JobAs, TypeOK, Job
  <2>11. CASE LocalPush(c)
    BY <1>2, <2>6, <2>7, <2>11 DEF LocalPush, Enqueue, Kept, TypeOK
  <2>12. CASE sendRemote(c)
    <3>1. Stage(c, "unset") \/ \E k \in calls : k.by = c /\ k.stage = "done" /\ NextTarget(c, job[c].target)
      BY <2>12 DEF sendRemote
    <3>2. \A k \in calls : k.by = c /\ k.stage = "done" => job[c].msg \in queued[job[c].target]
      BY NoConnAssumption DEF IInv, WorkOK, CallOK
    <3>3. queued' = queued
      BY <2>12 DEF sendRemote, seenVars
    <3>. QED
      BY <2>6, <2>7, <3>1, <3>2, <3>3 DEF Kept
  <2>13. CASE UnsetPresence(c)
    BY <2>7, <2>13 DEF UnsetPresence
  <2>14. CASE StoreOffline(c)
    BY <1>2, <2>6, <2>14 DEF StoreOffline, storeOfflineMessage, Kept, TypeOK, StoresTypeOK
  <2>. QED
    BY <1>5, <2>8, <2>9, <2>10, <2>11, <2>12, <2>13, <2>14 DEF Routes, LookupFails, StoreFails
<1>6. ASSUME NEW c \in Conns, Replays(c) PROVE Kept(u, m)'
  <2>1. job' = job /\ accepted' = accepted /\ dropped' = dropped
    BY <1>6 DEF Replays, ReplayList, ReplayGet, ReplayPush, ReplayDelete, ReplayDeleteFails, seenVars
  <2>2. CASE ReplayDelete(c) \/ ReplayDeleteFails(c)
    <3>1. table' = table \/ deleteOfflineMessage(user[c], replay[c].item)
      BY <2>2 DEF ReplayDelete, ReplayDeleteFails
    <3>2. replay[c].item \in queued[user[c]]
      BY <2>2 DEF ReplayDelete, ReplayDeleteFails, IInv, WorkOK, ReplayOK
    <3>0. table \in [Users -> SUBSET Stamps]
      BY <1>2 DEF TypeOK, StoresTypeOK
    <3>3. m \in table[u] => m \in table'[u] \/ m \in queued[u]
      <4>1. table' = table \/ table' = [table EXCEPT ![user[c]] = @ \ {replay[c].item}]
        BY <3>1 DEF deleteOfflineMessage
      <4>. QED
        BY <3>0, <3>2, <4>1
    <3>4. queued[u] \subseteq queued'[u]
      BY <1>0 DEF Grows
    <3>. QED
      BY <1>0, <1>1, <2>1, <3>3, <3>4, KeptFrame DEF Kept
  <2>3. CASE ~ReplayDelete(c) /\ ~ReplayDeleteFails(c)
    <3>1. table' = table
      BY <1>6, <2>3 DEF Replays, ReplayList, ReplayGet, ReplayPush, storeVars
    <3>. QED
      BY <1>3, <2>1, <3>1
  <2>. QED
    BY <2>2, <2>3
<1>7. ASSUME NEW s \in Servers, ServerDies(s), table' = table PROVE Kept(u, m)'
  <2>0. lost'[u] = lost[u] \cup {job[c].msg : c \in {d \in ConnsOf(s) : u \in job[d].left}}
    BY <1>7 DEF ServerDies
  <2>1. \A c \in Conns : c \in ConnsOf(s) /\ u \in job[c].left => job[c].msg \in lost'[u]
    BY <2>0
  <2>2. \A c \in Conns : c \notin ConnsOf(s) => job'[c] = job[c]
    BY <1>7 DEF ServerDies
  <2>3. dropped' = dropped /\ m \in accepted[u]
    BY <1>7 DEF ServerDies
  <2>. QED
    BY <1>0, <1>1, <1>7, <2>1, <2>2, <2>3, KeptFrame DEF Kept
<1>8. ASSUME NEW c \in Conns, Handlers(c) PROVE Kept(u, m)'
    BY <1>3, <1>8 DEF Handlers, StartPumps, HandlerReturns, SocketDies, WritePump, WriteDelivers,
       WriteFails, PingFails, Cleanup, HubRemove, CloseSend, CleanupPresence, storeVars, workVars, seenVars
<1>9. ASSUME Outside \/ handleInternalSend \/ \E c \in Conns, v \in Users, s \in Servers : HubAdd(c, v, s)
      PROVE  Kept(u, m)'
    BY <1>3, <1>9 DEF Outside, startHeartbeat, HeartbeatTick, HeartbeatSet, Start, Expire, HubAdd,
       handleInternalSend, InternalGet, InternalPush, CallLost, storeVars, workVars, seenVars
<1>. QED
    BY Kinds, <1>4, <1>5, <1>6, <1>7, <1>8, <1>9 DEF Dies, storeVars

-----------------------------------------------------------------------------
\* The stores keep their types.
LEMMA SetTyped ==
    ASSUME StoresTypeOK, NEW u, NEW s \in Servers, NEW ok, setUserPresence(u, s, ok)
    PROVE  presence' \in [Users -> Servers \cup {None}]
  BY DEF StoresTypeOK, setUserPresence

\* Deleting a presence key keeps its type.
LEMMA RemoveTyped ==
    ASSUME StoresTypeOK, NEW u, NEW ok, removeUserPresence(u, ok)
    PROVE  presence' \in [Users -> Servers \cup {None}]
  BY DEF StoresTypeOK, removeUserPresence

\* Deleting an item keeps the type of the table.
LEMMA DeleteTyped ==
    ASSUME StoresTypeOK, NEW u, NEW m, deleteOfflineMessage(u, m)
    PROVE  table' \in [Users -> SUBSET Stamps]
  BY DEF StoresTypeOK, deleteOfflineMessage

\* A call that fails is counted.
LEMMA OutcomeTyped == ASSUME TypeOK, NEW ok, Outcome(ok) PROVE faults' \in 0..MaxFaults
  BY BoundsAssumption DEF TypeOK, Outcome

\* Every step leaves the stores, the channels and the work well formed.
LEMMA TypeStep == IInv /\ Next => TypeOK'
<1> SUFFICES ASSUME IInv, Next PROVE TypeOK'
    OBVIOUS
<1>0. TypeOK
    BY DEF IInv
<1> USE MembersAssumption, NoneAssumption, NoConnAssumption, BoundsAssumption
<1>1. ASSUME NEW c \in Conns, NEW u \in Users, NEW s \in Servers, HubAdd(c, u, s) PROVE TypeOK'
    BY <1>0, <1>1 DEF HubAdd, TypeOK, StoresTypeOK, storeVars, seenVars, Phases
<1>2. ASSUME NEW c \in Conns, Handlers(c) PROVE TypeOK'
  <2>1. CASE StartPumps(c)
    <3>1. user[c] \in Users /\ at[c] \in Servers
      BY <2>1 DEF StartPumps, IInv, ConnsOK
    <3>2. replay' \in [Conns -> Replay]
      BY <1>0, <2>1 DEF StartPumps, ReplayAt, Replay, TypeOK
    <3>3. presence' \in [Users -> Servers \cup {None}] /\ faults' \in 0..MaxFaults
      BY <1>0, <2>1, <3>1 DEF StartPumps, setUserPresence, Outcome, TypeOK, StoresTypeOK
    <3>. QED
      BY <1>0, <2>1, <3>2, <3>3 DEF StartPumps, TypeOK, StoresTypeOK, seenVars, Phases
  <2>2. CASE HandlerReturns(c)
    <3>1. replay' \in [Conns -> Replay]
      BY <1>0, <2>2 DEF HandlerReturns, ReplayAs, Replay, TypeOK
    <3>. QED
      BY <1>0, <2>2, <3>1 DEF HandlerReturns, TypeOK, StoresTypeOK, storeVars, connVars, seenVars
  <2>3. CASE WritePump(c)
    <3>1. send' \in [Conns -> Seq(Stamps)]
      <4>1. send' = send \/ (send[c] # <<>> /\ send' = [send EXCEPT ![c] = Tail(send[c])])
        BY <2>3 DEF WritePump, WriteDelivers, WriteFails, PingFails
      <4>2. send[c] # <<>> => Tail(send[c]) \in Seq(Stamps)
        BY <1>0 DEF TypeOK
      <4>. QED
        BY <1>0, <4>1, <4>2 DEF TypeOK
    <3>2. faults' \in 0..MaxFaults
      BY <1>0, <2>3, OutcomeTyped DEF WritePump, WriteDelivers, WriteFails, PingFails, TypeOK
    <3>3. writer' \subseteq Conns /\ socket' \in [Conns -> {"new", "open", "closed"}]
      BY <1>0, <2>3 DEF WritePump, WriteDelivers, WriteFails, PingFails, connVars, TypeOK
    <3>4. UNCHANGED <<storeVars, up, hub, user, at, phase, workVars, crashes, seenVars>>
      BY <2>3 DEF WritePump, WriteDelivers, WriteFails, PingFails, connVars
    <3>. QED
      BY <1>0, <3>1, <3>2, <3>3, <3>4 DEF TypeOK, StoresTypeOK, storeVars, workVars, seenVars
  <2>4. CASE SocketDies(c) \/ HubRemove(c) \/ CloseSend(c)
    <3>0. SocketDies(c) \/ (user[c] \in Users /\ at[c] \in Servers)
      BY <2>4 DEF HubRemove, CloseSend, IInv, ConnsOK
    <3>1. hub' \in [Servers -> [Users -> Conns \cup {None}]]
      <4>1. hub' = hub \/ (at[c] \in Servers /\ hub' = [hub EXCEPT ![at[c]][user[c]] = None])
        BY <2>4, <3>0 DEF SocketDies, HubRemove, CloseSend
      <4>2. hub \in [Servers -> [Users -> Conns \cup {None}]]
        BY <1>0 DEF TypeOK
      <4>3. at[c] \in Servers => [hub[at[c]] EXCEPT ![user[c]] = None] \in [Users -> Conns \cup {None}]
        BY <4>2
      <4>. QED
        BY <4>1, <4>2, <4>3
    <3>2. send' \in [Conns -> Seq(Stamps)] /\ writer' \subseteq Conns
      <4>1. <<>> \in Seq(Stamps)
        OBVIOUS
      <4>2. send' = send \/ send' = [send EXCEPT ![c] = <<>>]
        BY <2>4 DEF SocketDies, HubRemove, CloseSend
      <4>3. writer' = writer \/ writer' = writer \ {c}
        BY <2>4 DEF SocketDies, HubRemove, CloseSend
      <4>4. send \in [Conns -> Seq(Stamps)] /\ writer \subseteq Conns
        BY <1>0 DEF TypeOK
      <4>5. send' \in [Conns -> Seq(Stamps)]
        BY <4>1, <4>2, <4>4
      <4>. QED
        BY <4>3, <4>4, <4>5
    <3>. QED
      BY <1>0, <2>4, <3>1, <3>2 DEF SocketDies, HubRemove, CloseSend, TypeOK, StoresTypeOK, storeVars,
         workVars, seenVars, Phases
  <2>5. CASE CleanupPresence(c)
    <3>1. presence' \in [Users -> Servers \cup {None}] /\ faults' \in 0..MaxFaults
      BY <1>0, <2>5, RemoveTyped, OutcomeTyped DEF CleanupPresence, TypeOK
    <3>. QED
      BY <1>0, <2>5, <3>1 DEF CleanupPresence, TypeOK, StoresTypeOK, workVars, seenVars, Phases
  <2>. QED
    BY <1>2, <2>1, <2>2, <2>3, <2>4, <2>5 DEF Handlers, Cleanup
<1>3. ASSUME NEW c \in Conns, handleChatMessage(c) PROVE TypeOK'
  <2>1. PICK m \in Stamps, others \in SUBSET Users :
          /\ job' = [job EXCEPT ![c] = JobAt("lookup", m, others)]
          /\ accepted' = [u \in Users |-> IF u \in others THEN accepted[u] \cup {m} ELSE accepted[u]]
    BY <1>3 DEF handleChatMessage
  <2>2. job' \in [Conns -> Job]
    BY <1>0, <2>1 DEF JobAt, Job, TypeOK
  <2>3. accepted' \in [Users -> SUBSET Stamps]
    BY <1>0, <2>1 DEF TypeOK
  <2>. QED
    BY <1>0, <1>3, <2>2, <2>3 DEF handleChatMessage, TypeOK, StoresTypeOK, storeVars, connVars
<1>4. ASSUME NEW c, NEW u \in Users, NEW m \in Stamps, Enqueue(c, u, m)
      PROVE  send' \in [Conns -> Seq(Stamps)] /\ queued' \in [Users -> SUBSET Stamps]
  <2>1. CASE c \in Conns
    <3>1. Append(send[c], m) \in Seq(Stamps)
      BY <1>0, <2>1 DEF TypeOK
    <3>. QED
      BY <1>0, <1>4, <3>1 DEF Enqueue, TypeOK
  <2>2. CASE c \notin Conns
    BY <1>0, <1>4, <2>2 DEF Enqueue, TypeOK
  <2>. QED
    BY <2>1, <2>2
<1>5. ASSUME NEW c \in Conns, Routes(c) PROVE TypeOK'
  <2>1. /\ job[c].target \in Users \cup {None} /\ job[c].left \subseteq Users
        /\ job[c].stage # "idle" /\ job[c].msg \in Stamps
        /\ job[c].stage # "lookup" => job[c].target \in Users
    BY <1>0, <1>5 DEF TypeOK, Job, IInv, WorkOK, JobOK, Routes, routeMessageToUser, LookupFails, LocalGet,
       LocalPush, sendRemote, UnsetPresence, StoreOffline, StoreFails
  <2>2. ASSUME Stage(c, "unset") \/ Stage(c, "store") PROVE job' \in [Conns -> Job]
    <3>1. JobAs(job[c], "unset", job[c].target, None) \in Job /\ JobAs(job[c], "store", job[c].target, None) \in Job
      BY <2>1 DEF JobAs, Job
    <3>. QED
      BY <1>0, <2>2, <3>1 DEF Stage, TypeOK
  <2>3. ASSUME NEW v, NextTarget(c, v) PROVE job' \in [Conns -> Job]
    <3>1. job' = [job EXCEPT ![c] = IF job[c].left \ {v} = {} THEN Idle
                                    ELSE JobAt("lookup", job[c].msg, job[c].left \ {v})]
      BY <2>3 DEF NextTarget
    <3>2. Idle \in Job /\ JobAt("lookup", job[c].msg, job[c].left \ {v}) \in Job
      BY <2>1 DEF JobAt, Job, Idle
    <3>. QED
      BY <1>0, <3>1, <3>2 DEF TypeOK
  <2>4. ASSUME NEW v, GiveUp(c, v)
        PROVE  job' \in [Conns -> Job] /\ dropped' \in [Users -> SUBSET Stamps]
    BY <1>0, <2>1, <2>3, <2>4 DEF GiveUp, TypeOK
  <2>5. ASSUME NEW v \in Users, routeMessageToUser(c, v) PROVE TypeOK'
    <3>1. job' \in [Conns -> Job]
      <4>1. \A stage \in {"store", "local", "await"} : JobAs(job[c], stage, v, None) \in Job
        BY <2>1 DEF JobAs, Job
      <4>. QED
        BY <1>0, <2>5, <4>1 DEF routeMessageToUser, TypeOK
    <3>2. calls' \subseteq Call
      BY <1>0, <2>1, <2>5 DEF routeMessageToUser, Call, TypeOK, StoresTypeOK
    <3>. QED
      BY <1>0, <2>5, <3>1, <3>2 DEF routeMessageToUser, TypeOK, StoresTypeOK, storeVars, connVars, seenVars
  <2>6. ASSUME NEW v \in Users, LookupFails(c, v) PROVE TypeOK'
    BY <1>0, <2>4, <2>6 DEF LookupFails, Outcome, TypeOK, StoresTypeOK, storeVars, connVars
  <2>7. CASE LocalGet(c)
    <3>1. job' \in [Conns -> Job]
      <4>1. CASE Stage(c, "unset")
        BY <2>2, <4>1
      <4>2. CASE ~Stage(c, "unset")
        <5>1. job[c].target \in Users /\ at[c] \in Servers
          BY <2>1, <2>7 DEF LocalGet, IInv, ConnsOK, WorkOK, JobOK
        <5>2. PICK client : client = hub[at[c]][job[c].target]
          OBVIOUS
        <5>3. JobAs(job[c], "push", job[c].target, client) \in Job
          BY <1>0, <2>1, <5>1, <5>2 DEF JobAs, Job, TypeOK
        <5>4. job' = [job EXCEPT ![c] = JobAs(job[c], "push", job[c].target, client)]
          BY <2>7, <4>2, <5>2 DEF LocalGet
        <5>. QED
          BY <1>0, <5>3, <5>4 DEF TypeOK
      <4>. QED
        BY <4>1, <4>2
    <3>. QED
      BY <1>0, <2>7, <3>1 DEF LocalGet, TypeOK, StoresTypeOK, storeVars, connVars, seenVars
  <2>8. CASE LocalPush(c)
    <3>1. job' \in [Conns -> Job]
      BY <2>2, <2>3, <2>8 DEF LocalPush
    <3>2. send' \in [Conns -> Seq(Stamps)] /\ queued' \in [Users -> SUBSET Stamps]
      BY <1>0, <1>4, <2>1, <2>8 DEF LocalPush, TypeOK
    <3>. QED
      BY <1>0, <2>8, <3>1, <3>2 DEF LocalPush, TypeOK, StoresTypeOK, storeVars, connVars
  <2>9. CASE sendRemote(c)
    <3>1. job' \in [Conns -> Job]
      BY <2>2, <2>3, <2>9 DEF sendRemote
    <3>2. calls' \subseteq Call /\ faults' \in 0..MaxFaults
      BY <1>0, <2>9 DEF sendRemote, CallAs, Call, Outcome, TypeOK
    <3>. QED
      BY <1>0, <2>9, <3>1, <3>2 DEF sendRemote, TypeOK, StoresTypeOK, storeVars, connVars, seenVars
  <2>10. CASE UnsetPresence(c)
    <3>1. presence' \in [Users -> Servers \cup {None}] /\ faults' \in 0..MaxFaults
      BY <1>0, <2>10, RemoveTyped, OutcomeTyped DEF UnsetPresence, TypeOK
    <3>2. job' \in [Conns -> Job]
      BY <2>2, <2>10 DEF UnsetPresence
    <3>. QED
      BY <1>0, <2>10, <3>1, <3>2 DEF UnsetPresence, TypeOK, StoresTypeOK, connVars, seenVars
  <2>11. CASE StoreOffline(c)
    BY <1>0, <2>1, <2>3, <2>11 DEF StoreOffline, storeOfflineMessage, TypeOK, StoresTypeOK, connVars, seenVars
  <2>12. CASE StoreFails(c)
    BY <1>0, <2>4, <2>12 DEF StoreFails, Outcome, TypeOK, StoresTypeOK, storeVars, connVars
  <2>. QED
    BY <1>5, <2>5, <2>6, <2>7, <2>8, <2>9, <2>10, <2>11, <2>12 DEF Routes
<1>6. ASSUME NEW c \in Conns, Replays(c) PROVE TypeOK'
  <2>1. user[c] \in Users /\ at[c] \in Servers /\ replay[c].items \subseteq Stamps /\ replay[c].live \in BOOLEAN
    BY <1>0, <1>6 DEF Replays, ReplayList, ReplayGet, ReplayPush, ReplayDelete, ReplayDeleteFails,
       IInv, WorkOK, ReplayOK, ConnsOK, TypeOK, Replay
  <2>2. Off \in Replay /\ \A items \in SUBSET Stamps, live \in BOOLEAN : ReplayAt("get", items, live) \in Replay
    BY DEF Off, ReplayAt, Replay
  <2>3. CASE ReplayList(c)
    <3>1. listOfflineMessages(user[c]) \in SUBSET Stamps
      BY <1>0, <2>1 DEF listOfflineMessages, TypeOK, StoresTypeOK
    <3>2. replay' = [replay EXCEPT ![c] = Off]
          \/ replay' = [replay EXCEPT ![c] = ReplayAt("get", listOfflineMessages(user[c]), replay[c].live)]
      BY <2>3 DEF ReplayList
    <3>3. replay' \in [Conns -> Replay]
      <4>1. ReplayAt("get", listOfflineMessages(user[c]), replay[c].live) \in Replay
        BY <2>1, <2>2, <3>1
      <4>. QED
        BY <1>0, <2>2, <3>2, <4>1 DEF TypeOK
    <3>. QED
      BY <1>0, <2>3, <3>3 DEF ReplayList, Outcome, TypeOK, StoresTypeOK, storeVars, connVars, seenVars
  <2>4. ASSUME NEW m \in Stamps, ReplayGet(c, m) PROVE TypeOK'
    <3>1. replay' \in [Conns -> Replay]
      <4>1. PICK client : client = hub[at[c]][user[c]]
        OBVIOUS
      <4>2. ReplayAs(replay[c], "push", m, client, replay[c].live) \in Replay \/ client = None
        BY <1>0, <2>1, <4>1 DEF ReplayAs, Replay, TypeOK
      <4>3. CASE client = None
        <5>1. replay' = [replay EXCEPT ![c] = Off]
          BY <2>4, <4>1, <4>3 DEF ReplayGet
        <5>. QED
          BY <1>0, <2>2, <5>1 DEF TypeOK
      <4>4. CASE client # None
        BY <1>0, <2>4, <4>1, <4>2, <4>4 DEF ReplayGet, TypeOK
      <4>. QED
        BY <4>3, <4>4
    <3>. QED
      BY <1>0, <2>4, <3>1 DEF ReplayGet, TypeOK, StoresTypeOK, storeVars, connVars, seenVars
  <2>5. CASE ReplayPush(c)
    <3>2. replay[c].item \in Stamps
      BY <1>0, <2>1, <2>5 DEF ReplayPush, IInv, WorkOK, ReplayOK
    <3>1. replay' \in [Conns -> Replay]
      <4>1. ReplayAs(replay[c], "delete", replay[c].item, None, replay[c].live) \in Replay
        BY <2>1, <3>2 DEF ReplayAs, Replay
      <4>. QED
        BY <1>0, <2>2, <2>5, <4>1 DEF ReplayPush, TypeOK
    <3>3. send' \in [Conns -> Seq(Stamps)] /\ queued' \in [Users -> SUBSET Stamps]
      BY <1>0, <1>4, <2>1, <2>5, <3>2 DEF ReplayPush, TypeOK
    <3>. QED
      BY <1>0, <2>5, <3>1, <3>3 DEF ReplayPush, TypeOK, StoresTypeOK, storeVars, connVars
  <2>6. CASE ReplayDelete(c) \/ ReplayDeleteFails(c)
    <3>1. replay' = [replay EXCEPT ![c] = Off]
          \/ replay' = [replay EXCEPT ![c] = ReplayAt("get", replay[c].items \ {replay[c].item}, TRUE)]
      BY <2>6 DEF ReplayDelete, ReplayDeleteFails
    <3>2. replay' \in [Conns -> Replay]
      <4>1. ReplayAt("get", replay[c].items \ {replay[c].item}, TRUE) \in Replay
        BY <2>1 DEF ReplayAt, Replay
      <4>. QED
        BY <1>0, <2>2, <3>1, <4>1 DEF TypeOK
    <3>3. table' \in [Users -> SUBSET Stamps]
      <4>1. table' = table \/ deleteOfflineMessage(user[c], replay[c].item)
        BY <2>6 DEF ReplayDelete, ReplayDeleteFails
      <4>. QED
        BY <1>0, <4>1, DeleteTyped DEF TypeOK, StoresTypeOK
    <3>4. faults' \in 0..MaxFaults
      BY <1>0, <2>6, OutcomeTyped DEF ReplayDelete, ReplayDeleteFails, TypeOK
    <3>. QED
      BY <1>0, <2>6, <3>2, <3>3, <3>4 DEF ReplayDelete, ReplayDeleteFails, TypeOK, StoresTypeOK,
         connVars, seenVars
  <2>. QED
    BY <1>6, <2>3, <2>4, <2>5, <2>6 DEF Replays
<1>7. CASE handleInternalSend
  <2>1. PICK k \in calls : InternalGet(k) \/ InternalPush(k) \/ CallLost(k)
    BY <1>7 DEF handleInternalSend
  <2>2. k \in Call
    BY <1>0 DEF TypeOK
  <2>3. CASE InternalGet(k)
    <3>1. calls' \subseteq Call
      BY <1>0, <2>2, <2>3 DEF InternalGet, Becomes, CallAs, Call, TypeOK
    <3>. QED
      BY <1>0, <2>3, <3>1 DEF InternalGet, TypeOK, StoresTypeOK, storeVars, connVars, seenVars
  <2>4. CASE InternalPush(k)
    <3>1. calls' \subseteq Call
      BY <1>0, <2>2, <2>4 DEF InternalPush, Becomes, CallAs, Call, TypeOK
    <3>2. send' \in [Conns -> Seq(Stamps)] /\ queued' \in [Users -> SUBSET Stamps]
      BY <1>0, <1>4, <2>2, <2>4 DEF InternalPush, Call, TypeOK
    <3>. QED
      BY <1>0, <2>4, <3>1, <3>2 DEF InternalPush, TypeOK, StoresTypeOK, storeVars, connVars
  <2>5. CASE CallLost(k)
    BY <1>0, <2>5 DEF CallLost, Outcome, TypeOK, StoresTypeOK, storeVars, connVars, seenVars
  <2>. QED
    BY <2>1, <2>3, <2>4, <2>5
<1>8. CASE Outside
  <2>1. ASSUME NEW s \in Servers, startHeartbeat(s) PROVE TypeOK'
    <3>1. CASE HeartbeatTick(s)
      BY <1>0, <3>1 DEF HeartbeatTick, ListUsers, TypeOK, StoresTypeOK, storeVars, connVars, seenVars
    <3>2. ASSUME NEW u \in Users, HeartbeatSet(s, u) PROVE TypeOK'
      <4>1. presence' \in [Users -> Servers \cup {None}] /\ faults' \in 0..MaxFaults
        <5>1. PICK ok \in BOOLEAN : Outcome(ok) /\ setUserPresence(u, s, ok)
          BY <3>2 DEF HeartbeatSet
        <5>2. StoresTypeOK
          BY <1>0 DEF TypeOK
        <5>. QED
          BY <1>0, <5>1, <5>2, SetTyped, OutcomeTyped
      <4>. QED
        BY <1>0, <3>2, <4>1 DEF HeartbeatSet, TypeOK, StoresTypeOK, connVars, seenVars
    <3>. QED
      BY <2>1, <3>1, <3>2 DEF startHeartbeat
  <2>2. ASSUME NEW s \in Servers, Start(s) PROVE TypeOK'
    BY <1>0, <2>2 DEF Start, TypeOK, StoresTypeOK, storeVars, connVars, workVars, seenVars
  <2>3. ASSUME NEW u \in Users, Expire(u) PROVE TypeOK'
    BY <1>0, <2>3 DEF Expire, Outcome, TypeOK, StoresTypeOK, connVars, workVars, seenVars
  <2>. QED
    BY <1>8, <2>1, <2>2, <2>3 DEF Outside
<1>9. ASSUME NEW s \in Servers, ServerDies(s), UNCHANGED <<storeVars, faults>>,
             crashes' = crashes \/ (crashes < MaxCrashes /\ crashes' = crashes + 1)
      PROVE  TypeOK'
  <2>1. calls' \subseteq Call
    BY <1>0, <1>9 DEF ServerDies, CallWithout, CallAs, Call, TypeOK
  <2>2. job' \in [Conns -> Job] /\ replay' \in [Conns -> Replay]
    BY <1>0, <1>9 DEF ServerDies, Idle, JobAt, Job, Off, ReplayAt, Replay, TypeOK
  <2>3. \A c \in Conns, u \in Users : u \in job[c].left => job[c].msg \in Stamps
    BY DEF IInv, WorkOK, JobOK
  <2>4. lost' \in [Users -> SUBSET Stamps]
    BY <1>0, <1>9, <2>3 DEF ServerDies, ConnsOf, TypeOK
  <2>. QED
    BY <1>0, <1>9, <2>1, <2>2, <2>4 DEF ServerDies, TypeOK, StoresTypeOK, storeVars, Phases
<1>. QED
    BY Kinds, <1>1, <1>2, <1>3, <1>5, <1>6, <1>7, <1>8, <1>9 DEF Dies

-----------------------------------------------------------------------------
\* The invariant that carries the others is inductive.
THEOREM Invariant == Spec => []IInv
<1>1. IInv /\ [Next]_vars => IInv'
  <2>1. ASSUME IInv, Next PROVE IInv'
    BY <2>1, TypeStep, ConnsStep, HubStep, ListedStep, TableStep, JobStep, ReplayStep, CallStep, OneCallStep,
       MailboxStep, KeptStep DEF IInv, WorkOK
  <2>2. ASSUME IInv, UNCHANGED vars PROVE IInv'
    <3>1. TypeOK' /\ ConnsOK' /\ HubIsUsable' /\ ServedIsListed'
      BY <2>2 DEF IInv, TypeOK, StoresTypeOK, ConnsOK, HubIsUsable, Usable, ServedIsListed, vars, storeVars, connVars,
         workVars, seenVars
    <3>2. TableOK' /\ RightMailbox' /\ RoutedIsKept'
      BY <2>2 DEF IInv, TableOK, RightMailbox, RoutedIsKept, Owed, vars, storeVars, connVars, workVars, seenVars
    <3>3. WorkOK'
      BY <2>2 DEF IInv, WorkOK, JobOK, ReplayOK, CallOK, ClientOf, OneCall, vars, connVars, workVars, seenVars
    <3>. QED
      BY <3>1, <3>2, <3>3 DEF IInv
  <2>. QED
    BY <2>1, <2>2
<1>. QED
  BY InitEstablishes, <1>1, PTL DEF Spec

\* The state of the servers, the stores and the work under way is well formed.
THEOREM TypeCorrect == Spec => []TypeOK
  BY Invariant, PTL DEF IInv

\* A client found in a hub runs there, for that user, with its channel open.
THEOREM HubsUsable == Spec => []HubIsUsable
  BY Invariant, PTL DEF IInv

\* A client whose goroutines run is listed in its hub, unless another connection
\* of the same user to the same server was made.
THEOREM ClientsListed == Spec => []ServedIsListed
  BY Invariant, PTL DEF IInv

\* A channel only ever holds messages accepted for the user of its connection.
THEOREM NoStrayMessage == Spec => []RightMailbox
  BY Invariant, PTL DEF IInv

\* No interleaving of failures, crashes, replays and reconnects makes an accepted
\* message vanish: it is being routed, was queued, is stored, was given up with a
\* line in the log, or went down with the server that was routing it.
THEOREM NothingVanishes == Spec => []RoutedIsKept
  BY Invariant, PTL DEF IInv
=============================================================================
