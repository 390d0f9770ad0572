--------------------------- MODULE ChatSplitRefines ---------------------------
(* TLAPS proof that the chat servers keep the promise of Mailbox.            *)
EXTENDS ChatSplitProofs

-----------------------------------------------------------------------------
\* No two readPumps route the same message, and a message that was given up or lost
\* for a member is not routed to that member any more.
Distinct == \A c, d \in Conns : \A u \in job[c].left, v \in job[d].left :
              c # d => job[c].msg # job[d].msg

Over(u) == dropped[u] \cup lost[u]

Apart == \A c \in Conns : \A u \in job[c].left : job[c].msg \notin Over(u)

OverOK == \A u \in Users : Over(u) \subseteq accepted[u]

RInv == Distinct /\ Apart /\ OverOK

\* What every step but accepting a message does to what is routed.
Shrinks == \A c \in Conns : \A u \in job'[c].left : u \in job[c].left /\ job'[c].msg = job[c].msg

\* A job that moves to another stage keeps its message and its list.
LEMMA StagesShrink ==
    ASSUME IInv, NEW c \in Conns, NEW stage, Stage(c, stage)
    PROVE  Shrinks /\ \A u \in Users : Owed(u)' = Owed(u)
<1>1. \A d \in Conns : job'[d].left = job[d].left /\ job'[d].msg = job[d].msg
    BY DEF Stage, JobAs, IInv, TypeOK
<1>. QED
    BY <1>1 DEF Shrinks, Owed

\* The member that was dealt with leaves one list; the others stay as they are.
LEMMA NextShrinks ==
    ASSUME IInv, NEW c \in Conns, NEW v, NextTarget(c, v)
    PROVE  /\ \A d \in Conns : d # c => job'[d] = job[d]
           /\ job'[c].left = job[c].left \ {v}
           /\ \A u \in job'[c].left : job'[c].msg = job[c].msg
           /\ Shrinks
<1>1. \A d \in Conns : d # c => job'[d] = job[d]
    BY DEF NextTarget, IInv, TypeOK
<1>2. job'[c].left = job[c].left \ {v} /\ \A u \in job'[c].left : job'[c].msg = job[c].msg
    BY DEF NextTarget, JobAt, Idle, IInv, TypeOK
<1>. QED
    BY <1>1, <1>2 DEF Shrinks

\* A member that was dealt with is owed one message less, the others what they were.
LEMMA OwedNext ==
    ASSUME IInv, RInv, NEW c \in Conns, NEW v \in job[c].left, NextTarget(c, v)
    PROVE  /\ Owed(v)' = Owed(v) \ {job[c].msg}
           /\ \A u \in Users : u # v => Owed(u)' = Owed(u)
<1>1. /\ \A d \in Conns : d # c => job'[d] = job[d]
      /\ job'[c].left = job[c].left \ {v}
      /\ \A u \in job'[c].left : job'[c].msg = job[c].msg
    BY NextShrinks
<1>2. \A d \in Conns : d # c /\ v \in job[d].left => job[d].msg # job[c].msg
    BY DEF RInv, Distinct
<1>3. Owed(v)' = Owed(v) \ {job[c].msg}
    BY <1>1, <1>2 DEF Owed
<1>4. ASSUME NEW u \in Users, u # v PROVE Owed(u)' = Owed(u)
    BY <1>1, <1>4 DEF Owed
<1>. QED
    BY <1>3, <1>4

\* Among the steps of a readPump, each either keeps the list or shortens it.
LEMMA RoutesCases ==
    ASSUME IInv, NEW c \in Conns, Routes(c)
    PROVE  \/ \E u \in Users : routeMessageToUser(c, u)
           \/ /\ \E v \in job[c].left : GiveUp(c, v)
              /\ UNCHANGED <<accepted, queued, table, lost>>
           \/ LocalGet(c) /\ UNCHANGED <<table, seenVars>>
           \/ LocalPush(c) /\ job[c].target \in job[c].left /\ job[c].target \in Users
           \/ sendRemote(c) /\ job[c].target \in job[c].left
           \/ UnsetPresence(c)
           \/ StoreOffline(c) /\ job[c].target \in job[c].left
<1>1. job[c].stage \notin {"idle", "lookup"} => job[c].target \in job[c].left
    BY DEF IInv, WorkOK, JobOK
<1>2. job[c].left \subseteq Users
    BY DEF IInv, TypeOK, Job
<1>. QED
    BY <1>1, <1>2 DEF Routes, LookupFails, StoreFails, LocalGet, LocalPush, sendRemote, StoreOffline, storeVars,
       seenVars

\* Only handleChatMessage gives a readPump more to do.
LEMMA OthersShrink ==
    ASSUME IInv, Next, \A c \in Conns : ~handleChatMessage(c)
    PROVE  Shrinks /\ accepted' = accepted
<1>1. ASSUME job' = job PROVE Shrinks
    BY <1>1 DEF Shrinks
<1>2. ASSUME NEW c \in Conns, Routes(c) PROVE Shrinks /\ accepted' = accepted
  <2>0. accepted' = accepted
    BY <1>2 DEF Routes, routeMessageToUser, LookupFails, LocalGet, LocalPush, sendRemote, UnsetPresence,
       StoreOffline, StoreFails, seenVars
  <2>. SUFFICES Shrinks
    BY <2>0
  <2>1. ASSUME NEW u \in Users, routeMessageToUser(c, u) PROVE Shrinks
    BY <2>1 DEF routeMessageToUser, JobAs, Shrinks, IInv, TypeOK
  <2>2. CASE LocalGet(c)
    <3>1. Stage(c, "unset") \/ \E j : job' = [job EXCEPT ![c] = JobAs(job[c], "push", job[c].target, j)]
      BY <2>2 DEF LocalGet
    <3>2. ASSUME NEW j, job' = [job EXCEPT ![c] = JobAs(job[c], "push", job[c].target, j)] PROVE Shrinks
      BY <3>2 DEF JobAs, Shrinks, IInv, TypeOK
    <3>. QED
      BY <3>1, <3>2, StagesShrink
  <2>3. ASSUME \E v : NextTarget(c, v) PROVE Shrinks
    BY <2>3, NextShrinks
  <2>4. CASE \E u \in Users : LookupFails(c, u)
    BY <2>3, <2>4 DEF LookupFails, GiveUp
  <2>5. CASE LocalPush(c) \/ sendRemote(c) \/ UnsetPresence(c) \/ StoreOffline(c) \/ StoreFails(c)
    <3>1. (\E v : NextTarget(c, v)) \/ (\E stage : Stage(c, stage))
      BY <2>5 DEF LocalPush, sendRemote, Answered, TimesOut, UnsetPresence, StoreOffline, StoreFails, GiveUp
    <3>. QED
      BY <2>3, <3>1, StagesShrink
  <2>. QED
    BY <1>2, <2>1, <2>2, <2>4, <2>5 DEF Routes
<1>3. ASSUME NEW s \in Servers, ServerDies(s) PROVE Shrinks /\ accepted' = accepted
    BY <1>3 DEF ServerDies, Idle, JobAt, Shrinks
<1>4. ASSUME NEW c \in Conns, Handlers(c) \/ Replays(c) PROVE job' = job /\ accepted' = accepted
    BY <1>4 DEF Handlers, StartPumps, HandlerReturns, SocketDies, WritePump, WriteDelivers, WriteFails,
       PingFails, Cleanup, HubRemove, CloseSend, CleanupPresence, workVars, Replays, ReplayList, ReplayGet,
       ReplayPush, ReplayDelete, ReplayDeleteFails, seenVars
<1>5. ASSUME Outside \/ handleInternalSend \/ \E c \in Conns, u \in Users, s \in Servers : HubAdd(c, u, s)
      PROVE  job' = job /\ accepted' = accepted
    BY <1>5 DEF Outside, startHeartbeat, HeartbeatTick, HeartbeatSet, Start, Expire, HubAdd, seenVars, workVars,
       handleInternalSend, InternalGet, InternalPush, CallLost
<1>. QED
    BY Kinds, <1>1, <1>2, <1>3, <1>4, <1>5 DEF Dies

-----------------------------------------------------------------------------
\* A new message is none of those that are routed or were before.
LEMMA NewMessage ==
    ASSUME IInv, RInv, NEW c \in Conns, handleChatMessage(c)
    PROVE  \E m \in Stamps, R \in SUBSET Users :
             /\ R # {} /\ (\A u \in Users : m \notin accepted[u])
             /\ job[c].left = {} /\ job'[c].left = R /\ job'[c].msg = m
             /\ \A d \in Conns : d # c => job'[d] = job[d]
             /\ accepted' = [u \in Users |-> IF u \in R THEN accepted[u] \cup {m} ELSE accepted[u]]
             /\ UNCHANGED <<table, queued, dropped, lost>>
<1>1. PICK m \in Stamps : LET others == Members \ {user[c]}
                         IN  /\ m \notin Sent
                             /\ others # {}
                             /\ job' = [job EXCEPT ![c] = JobAt("lookup", m, others)]
                             /\ accepted' = [u \in Users |-> IF u \in others THEN accepted[u] \cup {m}
                                                                           ELSE accepted[u]]
    BY DEF handleChatMessage
<1>2. \A u \in Users : m \notin accepted[u]
    BY <1>1 DEF Sent
<1>3. job[c].left = {} /\ UNCHANGED <<table, queued, dropped, lost>>
    BY DEF handleChatMessage, IInv, WorkOK, JobOK, storeVars
<1>4. PICK R \in SUBSET Users : R = Members \ {user[c]}
    BY MembersAssumption
<1>5. job' = [job EXCEPT ![c] = JobAt("lookup", m, R)]
    BY <1>1, <1>4
<1>6. job'[c].left = R /\ job'[c].msg = m /\ \A d \in Conns : d # c => job'[d] = job[d]
    BY <1>5 DEF JobAt, IInv, TypeOK
<1>. QED
    BY <1>1, <1>2, <1>3, <1>4, <1>6

\* What readPumps route stays apart, from each other and from what was given up.
LEMMA RInvStep == IInv /\ RInv /\ Next => RInv'
<1> SUFFICES ASSUME IInv, RInv, Next PROVE RInv'
    OBVIOUS
<1>1. \A c \in Conns : job[c].left \subseteq Users /\ \A u \in job[c].left : job[c].msg \in accepted[u]
  <2>1. \A c \in Conns : job[c] \in Job
    BY DEF IInv, TypeOK
  <2>. QED
    BY <2>1 DEF IInv, WorkOK, JobOK, Job
<1>2. ASSUME NEW c \in Conns, handleChatMessage(c) PROVE RInv'
  <2>1. PICK m \in Stamps, R \in SUBSET Users :
             /\ R # {} /\ (\A u \in Users : m \notin accepted[u])
             /\ job[c].left = {} /\ job'[c].left = R /\ job'[c].msg = m
             /\ \A d \in Conns : d # c => job'[d] = job[d]
             /\ accepted' = [u \in Users |-> IF u \in R THEN accepted[u] \cup {m} ELSE accepted[u]]
             /\ UNCHANGED <<table, queued, dropped, lost>>
    BY <1>2, NewMessage
  <2>2. \A d \in Conns : \A u \in job[d].left : job[d].msg # m
    BY <1>1, <2>1
  <2>3. Distinct'
    BY <2>1, <2>2 DEF RInv, Distinct
  <2>4. Apart' /\ OverOK'
    BY <2>1 DEF RInv, Apart, OverOK, Over
  <2>. QED
    BY <2>3, <2>4 DEF RInv
<1>3. ASSUME \A c \in Conns : ~handleChatMessage(c) PROVE RInv'
  <2>1. Shrinks /\ accepted' = accepted
    BY <1>3, OthersShrink
  <2>2. Distinct'
    BY <2>1 DEF RInv, Distinct, Shrinks
  <2>3. ASSUME dropped' = dropped, lost' = lost PROVE RInv'
    BY <2>1, <2>2, <2>3 DEF RInv, Apart, OverOK, Over, Shrinks
  <2>4. ASSUME NEW c \in Conns, NEW v \in job[c].left, GiveUp(c, v), lost' = lost PROVE RInv'
    <3>1. dropped' = [dropped EXCEPT ![v] = @ \cup {job[c].msg}] /\ dropped \in [Users -> SUBSET Stamps]
          /\ NextTarget(c, v) /\ v \in Users /\ lost' = lost
      BY <1>1, <2>4 DEF GiveUp, IInv, TypeOK
    <3>2. OverOK'
      BY <1>1, <2>1, <3>1 DEF RInv, OverOK, Over
    <3>3. ASSUME NEW d \in Conns, NEW u \in job'[d].left PROVE job'[d].msg \notin Over(u)'
      <4>1. u \in job[d].left /\ job'[d].msg = job[d].msg /\ job[d].msg \notin Over(u) /\ u \in Users
        BY <1>1, <2>1, <3>3 DEF Shrinks, RInv, Apart
      <4>2. CASE d = c
        <5>1. u # v
          BY <3>1, <3>3, <4>2, NextShrinks
        <5>. QED
          BY <3>1, <4>1, <5>1 DEF Over
      <4>3. CASE d # c
        <5>1. job[d].msg # job[c].msg
          BY <4>1, <4>3 DEF RInv, Distinct
        <5>. QED
          BY <3>1, <4>1, <5>1 DEF Over
      <4>. QED
        BY <4>2, <4>3
    <3>. QED
      BY <2>2, <3>2, <3>3 DEF RInv, Apart
  <2>5. ASSUME NEW s \in Servers, ServerDies(s) PROVE RInv'
    <3>1. \A u \in Users : Over(u)' = Over(u) \cup
                               {job[c].msg : c \in {d \in ConnsOf(s) : u \in job[d].left}}
      BY <2>5 DEF ServerDies, Over
    <3>2. OverOK'
      BY <1>1, <2>1, <3>1 DEF RInv, OverOK, ConnsOf
    <3>3. \A c \in Conns : job'[c] = IF c \in ConnsOf(s) THEN Idle ELSE job[c]
      BY <2>5 DEF ServerDies
    <3>4. ASSUME NEW d \in Conns, NEW u \in job'[d].left PROVE job'[d].msg \notin Over(u)'
      <4>1. d \notin ConnsOf(s) /\ u \in job[d].left /\ job'[d].msg = job[d].msg
        BY <3>3, <3>4 DEF Idle, JobAt
      <4>2. u \in Users /\ job[d].msg \notin Over(u)
        BY <1>1, <4>1 DEF RInv, Apart
      <4>3. \A c \in ConnsOf(s) : u \in job[c].left => job[c].msg # job[d].msg
        BY <4>1 DEF RInv, Distinct, ConnsOf
      <4>. QED
        BY <3>1, <4>1, <4>2, <4>3
    <3>. QED
      BY <2>2, <3>2, <3>4 DEF RInv, Apart
  <2>6. ASSUME NEW c \in Conns, Routes(c) PROVE RInv'
    BY <2>3, <2>4, <2>6, RoutesCases DEF routeMessageToUser, LocalPush, sendRemote, UnsetPresence, StoreOffline,
       seenVars
  <2>7. ASSUME NEW c \in Conns, Handlers(c) \/ Replays(c) PROVE dropped' = dropped /\ lost' = lost
    BY <2>7 DEF Handlers, StartPumps, HandlerReturns, SocketDies, WritePump, WriteDelivers, WriteFails,
       PingFails, Cleanup, HubRemove, CloseSend, CleanupPresence, Replays, ReplayList, ReplayGet,
       ReplayPush, ReplayDelete, ReplayDeleteFails, seenVars
  <2>8. ASSUME Outside \/ handleInternalSend \/ \E c \in Conns, u \in Users, s \in Servers : HubAdd(c, u, s)
        PROVE  dropped' = dropped /\ lost' = lost
    BY <2>8 DEF Outside, startHeartbeat, HeartbeatTick, HeartbeatSet, Start, Expire, HubAdd, seenVars,
       handleInternalSend, InternalGet, InternalPush, CallLost
  <2>. QED
    BY <1>3, <2>3, <2>5, <2>6, <2>7, <2>8, Kinds DEF Dies
<1>. QED
    BY <1>2, <1>3

-----------------------------------------------------------------------------
\* What the mailbox is told of the routing.
owedMap == [u \in Users |-> Owed(u)]

\* Where nobody is owed more or less, the mailbox sees no change.
LEMMA OwedStays ==
    ASSUME \A u \in Users : Owed(u)' = Owed(u)
    PROVE  owedMap' = owedMap
  BY DEF owedMap

\* Where one member is owed one message less, it sees just that.
LEMMA OwedLoses ==
    ASSUME NEW v \in Users, NEW m, Owed(v)' = Owed(v) \ {m}, \A u \in Users : u # v => Owed(u)' = Owed(u)
    PROVE  owedMap' = [owedMap EXCEPT ![v] = @ \ {m}]
  BY DEF owedMap

\* Each kind of step, as the step of the mailbox it is.
LEMMA AcceptMaps ==
    ASSUME IInv, RInv, NEW c \in Conns, handleChatMessage(c)
    PROVE  Promise!Next
<1>1. PICK m \in Stamps, R \in SUBSET Users :
             /\ R # {} /\ (\A u \in Users : m \notin accepted[u])
             /\ job[c].left = {} /\ job'[c].left = R /\ job'[c].msg = m
             /\ \A d \in Conns : d # c => job'[d] = job[d]
             /\ accepted' = [u \in Users |-> IF u \in R THEN accepted[u] \cup {m} ELSE accepted[u]]
             /\ UNCHANGED <<table, queued, dropped, lost>>
    BY NewMessage
<1>2. \A u \in Users : Owed(u)' = IF u \in R THEN Owed(u) \cup {m} ELSE Owed(u)
    BY <1>1 DEF Owed
<1>3. owedMap' = [u \in Users |-> IF u \in R THEN owedMap[u] \cup {m} ELSE owedMap[u]]
    BY <1>2 DEF owedMap
<1>4. accepted' # accepted
  <2>1. PICK u \in R : TRUE
    BY <1>1
  <2>2. m \in accepted'[u] /\ m \notin accepted[u]
    BY <1>1, <2>1
  <2>. QED
    BY <2>2
<1>5. Promise!Accept(m)
    BY <1>1, <1>3, <1>4 DEF Promise!Accept, owedMap
<1>. QED
    BY <1>5 DEF Promise!Next

\* A message whose loss is logged is given up.
LEMMA GiveUpMaps ==
    ASSUME IInv, RInv, NEW c \in Conns, NEW v \in job[c].left, GiveUp(c, v), UNCHANGED <<accepted, queued, table, lost>>
    PROVE  Promise!Next
<1>1. v \in Users /\ job[c].msg \in Owed(v) /\ job[c].msg \in Stamps
    BY DEF IInv, TypeOK, Job, Owed, WorkOK, JobOK
<1>2. dropped' = [dropped EXCEPT ![v] = @ \cup {job[c].msg}] /\ NextTarget(c, v)
    BY DEF GiveUp
<1>3. Owed(v)' = Owed(v) \ {job[c].msg} /\ \A u \in Users : u # v => Owed(u)' = Owed(u)
    BY <1>2, OwedNext
<1>4. owedMap' = [owedMap EXCEPT ![v] = @ \ {job[c].msg}] /\ job[c].msg \in owedMap[v]
    BY <1>1, <1>3, OwedLoses DEF owedMap
<1>5. Promise!GiveUp(v, job[c].msg)
    BY <1>2, <1>4 DEF Promise!GiveUp, owedMap
<1>. QED
    BY <1>1, <1>5 DEF Promise!Next

\* A message put in the table is stored, and no longer owed.
LEMMA StoreMaps ==
    ASSUME IInv, RInv, NEW c \in Conns, StoreOffline(c), job[c].target \in job[c].left
    PROVE  Promise!Next
<1>1. PICK v \in job[c].left : v = job[c].target
    OBVIOUS
<1>2. v \in Users /\ job[c].msg \in Owed(v) /\ job[c].msg \in Stamps
    BY DEF IInv, TypeOK, Job, Owed, WorkOK, JobOK, StoreOffline
<1>3. Owed(v)' = Owed(v) \ {job[c].msg} /\ \A u \in Users : u # v => Owed(u)' = Owed(u)
    BY <1>1, OwedNext DEF StoreOffline
<1>4. owedMap' = [owedMap EXCEPT ![v] = @ \ {job[c].msg}] /\ job[c].msg \in owedMap[v]
    BY <1>2, <1>3, OwedLoses DEF owedMap
<1>5. Promise!Store(v, job[c].msg)
    BY <1>1, <1>4 DEF Promise!Store, owedMap, StoreOffline, storeOfflineMessage, seenVars
<1>. QED
    BY <1>2, <1>5 DEF Promise!Next

\* A message that enters a channel for the first time is handed over; the one
\* that entered it before is settled, or nothing changes.
LEMMA HandMaps ==
    ASSUME IInv, NEW u \in Users, NEW m \in accepted[u], NEW c, Enqueue(c, u, m),
           UNCHANGED <<accepted, table, dropped, lost>>,
           \/ owedMap' = owedMap
           \/ m \in Owed(u) /\ owedMap' = [owedMap EXCEPT ![u] = @ \ {m}]
    PROVE  [Promise!Next]_Promise!mailVars
<1>1. queued' = [queued EXCEPT ![u] = @ \cup {m}] /\ queued \in [Users -> SUBSET Stamps]
      /\ accepted[u] \subseteq Stamps
    BY DEF Enqueue, IInv, TypeOK
<1>2. CASE m \notin queued[u]
  <2>1. Promise!Hand(u, m)
    BY <1>1, <1>2 DEF Promise!Hand, owedMap
  <2>. QED
    BY <1>1, <2>1 DEF Promise!Next
<1>3. CASE m \in queued[u]
  <2>1. queued' = queued
    BY <1>1, <1>3
  <2>2. CASE owedMap' = owedMap
    BY <2>1, <2>2 DEF Promise!mailVars, owedMap
  <2>3. CASE m \in Owed(u) /\ owedMap' = [owedMap EXCEPT ![u] = @ \ {m}]
    <3>1. Promise!Settle(u, m)
      BY <1>3, <2>1, <2>3 DEF Promise!Settle, owedMap
    <3>. QED
      BY <1>1, <3>1 DEF Promise!Next
  <2>. QED
    BY <2>2, <2>3
<1>. QED
    BY <1>2, <1>3

\* All that a dying server was routing is lost.
LEMMA DiesMaps ==
    ASSUME IInv, RInv, NEW s \in Servers, ServerDies(s), UNCHANGED table
    PROVE  [Promise!Next]_Promise!mailVars
<1>1. DEFINE routed(u) == {job[c].msg : c \in {d \in ConnsOf(s) : u \in job[d].left}}
<1>2. /\ \A u \in Users : lost'[u] = lost[u] \cup routed(u)
      /\ lost' = [u \in Users |-> lost[u] \cup routed(u)]
      /\ \A c \in Conns : job'[c] = IF c \in ConnsOf(s) THEN Idle ELSE job[c]
      /\ UNCHANGED <<accepted, queued, dropped>>
    BY DEF ServerDies
<1>3. ASSUME NEW u \in Users PROVE Owed(u)' = Owed(u) \ routed(u)
  <2>1. Owed(u)' = {job[c].msg : c \in {d \in Conns \ ConnsOf(s) : u \in job[d].left}}
    BY <1>2 DEF Owed, Idle, JobAt
  <2>2. \A c \in ConnsOf(s), d \in Conns \ ConnsOf(s) :
          u \in job[c].left /\ u \in job[d].left => job[c].msg # job[d].msg
    BY DEF RInv, Distinct, ConnsOf
  <2>. QED
    BY <2>1, <2>2 DEF Owed, ConnsOf
<1>4. \A u \in Users : routed(u) \subseteq Owed(u) /\ routed(u) \cap lost[u] = {}
    BY DEF Owed, RInv, Apart, Over, ConnsOf
<1>5. \A u \in Users : Owed(u) \ Owed(u)' = routed(u) /\ Owed(u)' \subseteq Owed(u)
    BY <1>3, <1>4
<1>6. lost' = [u \in Users |-> lost[u] \cup (owedMap[u] \ owedMap'[u])]
      /\ \A u \in Users : owedMap'[u] \subseteq owedMap[u]
    BY <1>2, <1>5 DEF owedMap
<1>7. CASE lost' = lost
  <2>1. \A u \in Users : routed(u) = {}
    BY <1>2, <1>4, <1>7
  <2>2. owedMap' = owedMap
    BY <1>3, <2>1 DEF owedMap
  <2>. QED
    BY <1>2, <1>7, <2>2 DEF Promise!mailVars, owedMap
<1>8. CASE lost' # lost
  <2>1. Promise!Lose
    BY <1>2, <1>6, <1>8 DEF Promise!Lose, owedMap
  <2>. QED
    BY <2>1 DEF Promise!Next
<1>. QED
    BY <1>7, <1>8

\* A message leaves the table only when a replay had put it in the channel.
LEMMA ReleaseMaps ==
    ASSUME IInv, NEW c \in Conns, ReplayDelete(c) \/ ReplayDeleteFails(c)
    PROVE  [Promise!Next]_Promise!mailVars
<1>1. /\ job' = job /\ UNCHANGED <<accepted, queued, dropped, lost>>
      /\ table' = table \/ deleteOfflineMessage(user[c], replay[c].item)
    BY DEF ReplayDelete, ReplayDeleteFails, seenVars
<1>2. owedMap' = owedMap
    BY <1>1 DEF owedMap, Owed
<1>3. /\ user[c] \in Users /\ replay[c].item \in queued[user[c]] /\ replay[c].item \in Stamps
      /\ table \in [Users -> SUBSET Stamps]
    BY DEF ReplayDelete, ReplayDeleteFails, IInv, WorkOK, ReplayOK, ConnsOK, TypeOK, StoresTypeOK
<1>4. CASE table' = table
    BY <1>1, <1>2, <1>4 DEF Promise!mailVars, owedMap
<1>5. CASE deleteOfflineMessage(user[c], replay[c].item)
  <2>1. CASE replay[c].item \notin table[user[c]]
    <3>1. table' = table
      BY <1>3, <1>5, <2>1 DEF deleteOfflineMessage
    <3>. QED
      BY <1>4, <3>1
  <2>2. CASE replay[c].item \in table[user[c]]
    <3>1. Promise!Release(user[c], replay[c].item)
      BY <1>1, <1>2, <1>3, <1>5, <2>2 DEF Promise!Release, deleteOfflineMessage, owedMap
    <3>. QED
      BY <1>3, <3>1 DEF Promise!Next
  <2>. QED
    BY <2>1, <2>2
<1>. QED
    BY <1>1, <1>4, <1>5

\* Every step of a readPump's routing is one of the mailbox, or none.
LEMMA RoutesMap ==
    ASSUME IInv, RInv, NEW c \in Conns, Routes(c)
    PROVE  [Promise!Next]_Promise!mailVars
<1>1. ASSUME owedMap' = owedMap, UNCHANGED <<accepted, table, queued, dropped, lost>>
      PROVE  [Promise!Next]_Promise!mailVars
    BY <1>1 DEF Promise!mailVars, owedMap
<1>2. ASSUME NEW stage, Stage(c, stage), UNCHANGED <<accepted, table, queued, dropped, lost>>
      PROVE  [Promise!Next]_Promise!mailVars
    BY <1>1, <1>2, StagesShrink, OwedStays
<1>3. ASSUME job[c].target \in job[c].left, NextTarget(c, job[c].target)
      PROVE  owedMap' = [owedMap EXCEPT ![job[c].target] = @ \ {job[c].msg}]
             /\ job[c].msg \in Owed(job[c].target) /\ job[c].target \in Users
  <2>1. PICK v \in job[c].left : v = job[c].target
    BY <1>3
  <2>2. v \in Users /\ job[c].msg \in Owed(v)
    BY DEF IInv, TypeOK, Job, Owed
  <2>3. Owed(v)' = Owed(v) \ {job[c].msg} /\ \A u \in Users : u # v => Owed(u)' = Owed(u)
    BY <1>3, <2>1, OwedNext
  <2>4. owedMap' = [owedMap EXCEPT ![v] = @ \ {job[c].msg}]
    BY <2>2, <2>3, OwedLoses
  <2>. QED
    BY <2>1, <2>2, <2>4
<1>4. ASSUME NEW u \in Users, routeMessageToUser(c, u) PROVE [Promise!Next]_Promise!mailVars
  <2>1. \A d \in Conns : job'[d].left = job[d].left /\ job'[d].msg = job[d].msg
    BY <1>4 DEF routeMessageToUser, JobAs, IInv, TypeOK
  <2>2. owedMap' = owedMap
    BY <2>1 DEF owedMap, Owed
  <2>. QED
    BY <1>1, <1>4, <2>2 DEF routeMessageToUser, storeVars, seenVars
<1>5. CASE LocalGet(c)
  <2>1. Stage(c, "unset") \/ \E j : job' = [job EXCEPT ![c] = JobAs(job[c], "push", job[c].target, j)]
    BY <1>5 DEF LocalGet
  <2>2. \A d \in Conns : job'[d].left = job[d].left /\ job'[d].msg = job[d].msg
    <3>1. PICK stage, j : job' = [job EXCEPT ![c] = JobAs(job[c], stage, job[c].target, j)]
      BY <2>1 DEF Stage
    <3>2. JobAs(job[c], stage, job[c].target, j).left = job[c].left
          /\ JobAs(job[c], stage, job[c].target, j).msg = job[c].msg
      BY DEF JobAs
    <3>. QED
      BY <3>1, <3>2 DEF IInv, TypeOK
  <2>3. owedMap' = owedMap
    BY <2>2 DEF owedMap, Owed
  <2>. QED
    BY <1>1, <1>5, <2>3 DEF LocalGet, storeVars, seenVars
<1>6. CASE LocalPush(c) /\ job[c].target \in job[c].left /\ job[c].target \in Users
  <2>1. CASE SendFull(job[c].client)
    BY <1>2, <1>6, <2>1 DEF LocalPush, storeVars
  <2>2. CASE ~SendFull(job[c].client)
    <3>1. job[c].msg \in accepted[job[c].target]
      BY <1>6 DEF LocalPush, IInv, WorkOK, JobOK
    <3>2. Enqueue(job[c].client, job[c].target, job[c].msg) /\ UNCHANGED <<accepted, table, dropped, lost>>
          /\ NextTarget(c, job[c].target)
      BY <1>6, <2>2 DEF LocalPush, storeVars
    <3>3. owedMap' = [owedMap EXCEPT ![job[c].target] = @ \ {job[c].msg}] /\ job[c].msg \in Owed(job[c].target)
      BY <1>3, <1>6, <3>2
    <3>. QED
      BY <1>6, <3>1, <3>2, <3>3, HandMaps
  <2>. QED
    BY <2>1, <2>2
<1>7. CASE sendRemote(c) /\ job[c].target \in job[c].left
  <2>1. \/ Stage(c, "unset")
        \/ \E k \in calls : k.by = c /\ k.stage = "done" /\ NextTarget(c, job[c].target)
    BY <1>7 DEF sendRemote, Answered, TimesOut
  <2>2. UNCHANGED <<accepted, table, queued, dropped, lost>>
    BY <1>7 DEF sendRemote, storeVars, seenVars
  <2>3. CASE Stage(c, "unset")
    BY <1>2, <2>2, <2>3
  <2>4. CASE \E k \in calls : k.by = c /\ k.stage = "done" /\ NextTarget(c, job[c].target)
    <3>1. job[c].msg \in queued[job[c].target]
      BY <2>4, NoConnAssumption DEF IInv, WorkOK, CallOK
    <3>2. job[c].msg \in Stamps
      BY <1>7 DEF sendRemote, IInv, WorkOK, JobOK
    <3>3. Promise!Settle(job[c].target, job[c].msg) /\ job[c].target \in Users
      BY <1>3, <1>7, <2>2, <2>4, <3>1 DEF Promise!Settle, owedMap
    <3>. QED
      BY <3>2, <3>3 DEF Promise!Next
  <2>. QED
    BY <2>1, <2>3, <2>4
<1>8. CASE UnsetPresence(c)
    BY <1>2, <1>8 DEF UnsetPresence, seenVars
<1>. QED
    BY <1>4, <1>5, <1>6, <1>7, <1>8, RoutesCases, GiveUpMaps, StoreMaps

\* Every step of the servers is a step of the mailbox, or none.
LEMMA StepMaps == IInv /\ RInv /\ Next => [Promise!Next]_Promise!mailVars
<1> SUFFICES ASSUME IInv, RInv, Next PROVE [Promise!Next]_Promise!mailVars
    OBVIOUS
<1>1. ASSUME job' = job, UNCHANGED <<accepted, table, queued, dropped, lost>> PROVE [Promise!Next]_Promise!mailVars
  <2>1. owedMap' = owedMap
    BY <1>1 DEF owedMap, Owed
  <2>. QED
    BY <1>1, <2>1 DEF Promise!mailVars, owedMap
<1>2. ASSUME NEW c \in Conns, NEW u \in Users, NEW m \in accepted[u], Enqueue(c, u, m), job' = job,
             UNCHANGED <<accepted, table, dropped, lost>>
      PROVE  [Promise!Next]_Promise!mailVars
  <2>1. owedMap' = owedMap
    BY <1>2 DEF owedMap, Owed
  <2>. QED
    BY <1>2, <2>1, HandMaps
<1>3. CASE \E c \in Conns, u \in Users, s \in Servers : HubAdd(c, u, s)
    BY <1>1, <1>3 DEF HubAdd, storeVars, seenVars
<1>4. ASSUME NEW c \in Conns, Handlers(c) PROVE [Promise!Next]_Promise!mailVars
    BY <1>1, <1>4 DEF Handlers, StartPumps, HandlerReturns, SocketDies, WritePump, WriteDelivers, WriteFails,
       PingFails, Cleanup, HubRemove, CloseSend, CleanupPresence, storeVars, workVars, seenVars
<1>5. ASSUME NEW c \in Conns, Replays(c) PROVE [Promise!Next]_Promise!mailVars
  <2>1. CASE ReplayPush(c)
    <3>1. /\ ClientOf(replay[c].client, user[c]) /\ user[c] \in Users /\ replay[c].item \in accepted[user[c]]
      BY <2>1 DEF ReplayPush, IInv, WorkOK, ReplayOK, ConnsOK
    <3>2. /\ job' = job /\ UNCHANGED <<accepted, table, dropped, lost>>
          /\ queued' = queued \/ Enqueue(replay[c].client, user[c], replay[c].item)
      BY <2>1 DEF ReplayPush, storeVars
    <3>. QED
      BY <1>1, <1>2, <3>1, <3>2 DEF ClientOf
  <2>2. CASE ReplayList(c) \/ \E m \in Stamps : ReplayGet(c, m)
    BY <1>1, <2>2 DEF ReplayList, ReplayGet, storeVars, seenVars
  <2>. QED
    BY <1>5, <2>1, <2>2, ReleaseMaps DEF Replays
<1>6. CASE handleInternalSend
  <2>1. PICK k \in calls : InternalGet(k) \/ InternalPush(k) \/ CallLost(k)
    BY <1>6 DEF handleInternalSend
  <2>2. CASE InternalPush(k)
    <3>1. ClientOf(k.client, k.user) /\ k.user \in Users /\ k.msg \in accepted[k.user]
      BY <2>2 DEF InternalPush, IInv, WorkOK, CallOK, TypeOK, Call
    <3>2. /\ job' = job /\ UNCHANGED <<accepted, table, dropped, lost>>
          /\ queued' = queued \/ Enqueue(k.client, k.user, k.msg)
      BY <2>2 DEF InternalPush, storeVars
    <3>. QED
      BY <1>1, <1>2, <3>1, <3>2 DEF ClientOf
  <2>3. CASE InternalGet(k) \/ CallLost(k)
    BY <1>1, <2>3 DEF InternalGet, CallLost, storeVars, seenVars
  <2>. QED
    BY <2>1, <2>2, <2>3
<1>7. CASE Outside
    BY <1>1, <1>7 DEF Outside, startHeartbeat, HeartbeatTick, HeartbeatSet, Start, Expire, storeVars, workVars,
       seenVars
<1>. QED
    BY Kinds, <1>3, <1>4, <1>5, <1>6, <1>7, AcceptMaps, RoutesMap, DiesMaps DEF Dies, storeVars

-----------------------------------------------------------------------------
\* A step that changes nothing is none of the mailbox's.
LEMMA StepRefines == IInv /\ RInv /\ [Next]_vars => [Promise!Next]_Promise!mailVars
<1>1. ASSUME UNCHANGED vars PROVE UNCHANGED Promise!mailVars
  BY <1>1 DEF vars, storeVars, workVars, seenVars, Promise!mailVars, Owed
<1>. QED
  BY <1>1, StepMaps

\* A message has one readPump at most that routes it, and once it was given up or
\* lost for a member no readPump routes it to that member.
THEOREM RoutedOnce == Spec => []RInv
<1>1. Init => RInv
  BY DEF Init, StoresInit, Idle, JobAt, RInv, Distinct, Apart, OverOK, Over
<1>2. IInv /\ RInv /\ [Next]_vars => RInv'
  <2>1. ASSUME RInv, UNCHANGED vars PROVE RInv'
    BY <2>1 DEF RInv, Distinct, Apart, OverOK, Over, vars, workVars, seenVars
  <2>. QED
    BY <2>1, RInvStep
<1>. QED
  BY <1>1, <1>2, Invariant, PTL DEF Spec

\* The chat servers implement the mailbox: whatever fails, crashes or races,
\* a message moves only as the mailbox lets it move.
THEOREM KeepsPromise == Spec => ImplementsMailbox
<1>1. Init => Promise!Init
  <2>1. ASSUME Init PROVE owedMap = [u \in Users |-> {}]
    BY <2>1 DEF Init, Idle, JobAt, owedMap, Owed
  <2>. QED
    BY <2>1 DEF Init, StoresInit, Promise!Init, Promise!Nothing, owedMap
<1>. QED
  BY <1>1, Invariant, RoutedOnce, StepRefines, PTL DEF Spec, ImplementsMailbox, Promise!Spec

-----------------------------------------------------------------------------
\* What follows from the mailbox for the tables and channels themselves.

\* Nothing enters a member's channel or the table, is given up or lost that was not
\* accepted for that member.
OnlyAccepted == \A u \in Users :
    queued[u] \cup table[u] \cup dropped[u] \cup lost[u] \subseteq accepted[u]

\* An item leaves the table only after its message entered a channel of its receiver.
TableKeepsUnhanded == \A u \in Users : table[u] \ table'[u] \subseteq queued[u]

\* What was accepted, handed over, given up or lost is so for good.
Remembers == \A u \in Users : /\ accepted[u] \subseteq accepted'[u]
                              /\ queued[u] \subseteq queued'[u]
                              /\ dropped[u] \subseteq dropped'[u]
                              /\ lost[u] \subseteq lost'[u]

\* Every step of the mailbox does so.
LEMMA MailboxStepIs ==
    ASSUME TypeOK, OnlyAccepted, [Promise!Next]_Promise!mailVars,
           \A u \in Users : owedMap[u] \subseteq accepted[u]
    PROVE  OnlyAccepted' /\ TableKeepsUnhanded /\ Remembers
<1>0. /\ accepted \in [Users -> SUBSET Stamps] /\ queued \in [Users -> SUBSET Stamps]
      /\ dropped \in [Users -> SUBSET Stamps] /\ table \in [Users -> SUBSET Stamps]
      /\ lost \in [Users -> SUBSET Stamps]
  BY DEF TypeOK, StoresTypeOK
<1> USE DEF OnlyAccepted, TableKeepsUnhanded, Remembers
<1>1. ASSUME NEW m \in Stamps, Promise!Accept(m) PROVE OnlyAccepted' /\ TableKeepsUnhanded /\ Remembers
  BY <1>0, <1>1 DEF Promise!Accept
<1>2. ASSUME NEW u \in Users, NEW m \in Stamps, Promise!Hand(u, m)
      PROVE  OnlyAccepted' /\ TableKeepsUnhanded /\ Remembers
  BY <1>0, <1>2 DEF Promise!Hand
<1>3. ASSUME NEW u \in Users, NEW m \in Stamps, Promise!Settle(u, m)
      PROVE  OnlyAccepted' /\ TableKeepsUnhanded /\ Remembers
  BY <1>0, <1>3 DEF Promise!Settle
<1>4. ASSUME NEW u \in Users, NEW m \in Stamps, Promise!Store(u, m)
      PROVE  OnlyAccepted' /\ TableKeepsUnhanded /\ Remembers
  BY <1>0, <1>4 DEF Promise!Store, owedMap
<1>5. ASSUME NEW u \in Users, NEW m \in Stamps, Promise!Release(u, m)
      PROVE  OnlyAccepted' /\ TableKeepsUnhanded /\ Remembers
  BY <1>0, <1>5 DEF Promise!Release
<1>6. ASSUME NEW u \in Users, NEW m \in Stamps, Promise!GiveUp(u, m)
      PROVE  OnlyAccepted' /\ TableKeepsUnhanded /\ Remembers
  BY <1>0, <1>6 DEF Promise!GiveUp, owedMap
<1>7. CASE Promise!Lose
  BY <1>0, <1>7 DEF Promise!Lose, owedMap
<1>8. CASE UNCHANGED Promise!mailVars
  BY <1>0, <1>8 DEF Promise!mailVars
<1> QED
  BY <1>1, <1>2, <1>3, <1>4, <1>5, <1>6, <1>7, <1>8 DEF Promise!Next

\* What is routed to a member was accepted for that member.
LEMMA OwedIsAccepted == IInv => \A u \in Users : owedMap[u] \subseteq accepted[u]
  BY DEF IInv, WorkOK, JobOK, owedMap, Owed

\* Every step of the servers does so, being a step of the mailbox.
LEMMA ServersStepIs ==
    ASSUME IInv, RInv, OnlyAccepted, [Next]_vars
    PROVE  OnlyAccepted' /\ TableKeepsUnhanded /\ Remembers
<1>1. [Promise!Next]_Promise!mailVars
  BY StepRefines
<1> QED
  BY <1>1, MailboxStepIs, OwedIsAccepted DEF IInv

\* No failed call, crash or race lets a message turn up where it does not belong.
THEOREM NothingFromNowhere == Spec => []OnlyAccepted
<1>1. Init => OnlyAccepted
  BY DEF Init, StoresInit, OnlyAccepted
<1>2. IInv /\ RInv /\ OnlyAccepted /\ [Next]_vars => OnlyAccepted'
  BY ServersStepIs
<1>. QED
  BY <1>1, <1>2, Invariant, RoutedOnce, PTL DEF Spec

\* The table lets an item go only when its receiver has been handed the message, and
\* nothing that was accepted, handed over, given up or lost is forgotten.
THEOREM StoredUntilHanded == Spec => [][TableKeepsUnhanded /\ Remembers]_vars
<1>1. IInv /\ RInv /\ OnlyAccepted /\ [Next]_vars => [TableKeepsUnhanded /\ Remembers]_vars
  BY ServersStepIs
<1>. QED
  BY <1>1, Invariant, RoutedOnce, NothingFromNowhere, PTL DEF Spec
=============================================================================
