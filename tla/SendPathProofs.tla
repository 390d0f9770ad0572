--------------------------- MODULE SendPathProofs ---------------------------
(* TLAPS proofs about SendPath: for any number of users, sessions, requests  *)
(* and connections, and however calls are lost or late.                      *)
EXTENDS SendPath, TLAPS

-----------------------------------------------------------------------------
\* The types the two theorems need: those of what is stored.
StoreTypeOK ==
    /\ exists \subseteq Sessions
    /\ membership \in [Sessions -> SUBSET Users]
    /\ log \in [Sessions -> Seq(Attempts)]
    /\ request \in [Attempts -> Request \cup {NoRequest}]
    /\ gateway \in [Attempts -> {"idle", "waiting", "pushing", "ok", "failed"}]
    /\ transmit \in [Attempts -> {"idle", "checking", "storing", "marking",
                                  "listing", "replied", "failed"}]
    /\ store \in [Attempts -> Call]
    /\ seq \in [Attempts -> Nat]

\* A session that does not exist has no members: membership can only appear.
AbsentUnpopulated == \A s \in Sessions \ exists : membership[s] = {}

\* A request that has not come in is in nobody's hands.
IdleUntouched == \A a \in Attempts : gateway[a] = "idle" =>
    transmit[a] = "idle" /\ store[a] = "none"

\* The transmit service has a request, and its store call a member's request.
RequestKnown == \A a \in Attempts : gateway[a] # "idle" => request[a] \in Request
StoreChecked == \A a \in Attempts : store[a] # "none" =>
    /\ request[a] \in Request
    /\ Sender(a) \in membership[Room(a)]

\* Exactly the attempts whose store call committed are in the logs, once, where
\* seq says.
StoredAt == /\ \A s \in Sessions : \A k \in DOMAIN log[s] :
                   /\ store[log[s][k]] = "done"
                   /\ Room(log[s][k]) = s
            /\ \A a \in Attempts : store[a] = "done" => Positions(a) = {seq[a]}

\* Past the store the transmit service, and past the call the gateway, have the
\* answer of a store that committed.
PastTheStore == \A a \in Attempts :
    /\ transmit[a] = "checking" => store[a] = "none"
    /\ transmit[a] \in {"marking", "listing", "replied"} => store[a] = "done"
    /\ gateway[a] \in {"pushing", "ok"} => store[a] = "done"

IInv == /\ StoreTypeOK
        /\ AbsentUnpopulated
        /\ IdleUntouched
        /\ RequestKnown
        /\ StoreChecked
        /\ StoredAt
        /\ PastTheStore

\* What the invariant is about; the other variables may do what they like.
invVars == <<exists, membership, log, request, gateway, transmit, store, seq>>

-----------------------------------------------------------------------------
\* Before anything happens.
LEMMA InitEstablishes == Init => IInv
<1> SUFFICES ASSUME Init PROVE IInv
  OBVIOUS
<1> USE DEF Init, LogInit
<1>1. << >> \in Seq(Attempts) /\ DOMAIN << >> = {}
  OBVIOUS
<1>2. StoreTypeOK
  BY <1>1 DEF StoreTypeOK, Call
<1>3. StoredAt
  BY <1>1 DEF StoredAt
<1> QED
  BY <1>2, <1>3 DEF IInv, AbsentUnpopulated, IdleUntouched, RequestKnown,
                    StoreChecked, PastTheStore

\* Steps of connections, pushes and read marks leave it alone.
LEMMA Untouched ==
    ASSUME IInv, UNCHANGED invVars
    PROVE  IInv'
<1> USE DEF invVars
<1>1. StoreTypeOK' /\ AbsentUnpopulated' /\ IdleUntouched'
  BY DEF IInv, StoreTypeOK, AbsentUnpopulated, IdleUntouched
<1>2. RequestKnown' /\ PastTheStore'
  BY DEF IInv, RequestKnown, PastTheStore
<1>3. StoreChecked'
  BY DEF IInv, StoreChecked, Room, Sender
<1>4. StoredAt'
  BY DEF IInv, StoredAt, Positions, Room
<1> QED
  BY <1>1, <1>2, <1>3, <1>4 DEF IInv

\* Steps that only move a request on, in the gateway or the transmit service,
\* keep it if they keep the two conjuncts about them.
LEMMA OnlyMoves ==
    ASSUME IInv,
           UNCHANGED <<exists, membership, log, request, store, seq>>,
           gateway' \in [Attempts -> {"idle", "waiting", "pushing", "ok", "failed"}],
           transmit' \in [Attempts -> {"idle", "checking", "storing", "marking",
                                       "listing", "replied", "failed"}],
           \A a \in Attempts : gateway'[a] = "idle" => transmit'[a] = "idle",
           \A a \in Attempts : gateway'[a] = "idle" <=> gateway[a] = "idle",
           PastTheStore'
    PROVE  IInv'
<1>1. StoreTypeOK' /\ AbsentUnpopulated'
  BY DEF IInv, StoreTypeOK, AbsentUnpopulated
<1>2. IdleUntouched' /\ RequestKnown'
  BY DEF IInv, IdleUntouched, RequestKnown
<1>3. StoreChecked'
  BY DEF IInv, StoreChecked, Room, Sender
<1>4. StoredAt'
  BY DEF IInv, StoredAt, Positions, Room
<1> QED
  BY <1>1, <1>2, <1>3, <1>4 DEF IInv

\* Creating a session keeps the invariant.
LEMMA CreateKeeps ==
    ASSUME IInv, NEW s \in Sessions, NEW ms \in SUBSET Users, CreateSession(s, ms)
    PROVE  IInv'
<1>1. /\ s \notin exists
      /\ exists' = exists \cup {s}
      /\ membership' = [membership EXCEPT ![s] = ms]
      /\ UNCHANGED <<log, request, gateway, transmit, store, seq>>
  BY DEF CreateSession, Create, sendVars
<1>2. membership[s] = {}
  BY <1>1 DEF IInv, AbsentUnpopulated
<1>3. StoreTypeOK' /\ AbsentUnpopulated'
  BY <1>1 DEF IInv, StoreTypeOK, AbsentUnpopulated
<1>4. StoreChecked'
  BY <1>1, <1>2 DEF IInv, StoreTypeOK, StoreChecked, Room, Sender, Request
<1>5. StoredAt'
  BY <1>1 DEF IInv, StoredAt, Positions, Room
<1> QED
  BY <1>1, <1>3, <1>4, <1>5 DEF IInv, IdleUntouched, RequestKnown, PastTheStore

\* So does a client that sends a message.
LEMMA SendKeeps ==
    ASSUME IInv, NEW a \in Attempts, NEW u \in Users, NEW s \in Sessions,
           SendMessage(a, u, s)
    PROVE  IInv'
<1>1. /\ gateway[a] = "idle"
      /\ request' = [request EXCEPT ![a] = [sender |-> u, session |-> s]]
      /\ gateway' = [gateway EXCEPT ![a] = "waiting"]
      /\ transmit' = [transmit EXCEPT ![a] = "checking"]
      /\ UNCHANGED <<exists, membership, log, store, seq>>
  BY DEF SendMessage, logs
<1>2. store[a] = "none"
  BY <1>1 DEF IInv, IdleUntouched
<1>3. [sender |-> u, session |-> s] \in Request
  BY DEF Request
<1>4. StoreTypeOK' /\ AbsentUnpopulated' /\ IdleUntouched' /\ RequestKnown' /\ PastTheStore'
  BY <1>1, <1>2, <1>3 DEF IInv, StoreTypeOK, AbsentUnpopulated, IdleUntouched,
                          RequestKnown, PastTheStore
<1>5. StoreChecked'
  BY <1>1, <1>2 DEF IInv, StoreTypeOK, StoreChecked, Room, Sender
<1>6. StoredAt'
  <2>1. ASSUME NEW t \in Sessions, NEW k \in DOMAIN log[t]
        PROVE  store'[log'[t][k]] = "done" /\ Room(log[t][k])' = t
    <3>1. log[t][k] \in Attempts /\ store[log[t][k]] = "done" /\ Room(log[t][k]) = t
      BY DEF IInv, StoreTypeOK, StoredAt
    <3> QED BY <1>1, <1>2, <3>1 DEF IInv, StoreTypeOK, Room
  <2>2. ASSUME NEW b \in Attempts, store'[b] = "done" PROVE Positions(b)' = {seq'[b]}
    <3>1. b # a /\ store[b] = "done"
      BY <1>1, <1>2, <2>2
    <3>2. request'[b] = request[b]
      BY <1>1, <3>1 DEF IInv, StoreTypeOK
    <3> QED BY <1>1, <3>1, <3>2 DEF IInv, StoredAt, Positions, Room
  <2> QED BY <1>1, <2>1, <2>2 DEF StoredAt
<1> QED
  BY <1>4, <1>5, <1>6 DEF IInv

\* The transmit service asks for the store only when the sender is a member.
LEMMA CheckKeeps ==
    ASSUME IInv, NEW a \in Attempts, CheckMember(a)
    PROVE  IInv'
<1>1. /\ transmit[a] = "checking"
      /\ UNCHANGED <<exists, membership, log, request, gateway, seq>>
  BY DEF CheckMember, logs
<1>2. gateway[a] # "idle" /\ request[a] \in Request /\ store[a] = "none"
  BY <1>1 DEF IInv, IdleUntouched, RequestKnown, PastTheStore
<1>3. CASE Sender(a) \in membership[Room(a)]
  <2>1. /\ transmit' = [transmit EXCEPT ![a] = "storing"]
        /\ store' = [store EXCEPT ![a] = "running"]
    BY <1>3 DEF CheckMember, IsSessionMember
  <2>2. StoreTypeOK' /\ AbsentUnpopulated' /\ IdleUntouched' /\ RequestKnown'
    BY <1>1, <1>2, <2>1 DEF IInv, StoreTypeOK, Call, AbsentUnpopulated, IdleUntouched,
                            RequestKnown
  <2>3. StoreChecked'
    BY <1>1, <1>2, <1>3, <2>1 DEF IInv, StoreTypeOK, StoreChecked, Room, Sender
  <2>4. StoredAt'
    <3>1. \A t \in Sessions : \A k \in DOMAIN log[t] : log[t][k] \in Attempts
      BY DEF IInv, StoreTypeOK
    <3>2. \A b \in Attempts : store'[b] = "done" <=> store[b] = "done"
      BY <1>2, <2>1 DEF IInv, StoreTypeOK
    <3> QED BY <1>1, <3>1, <3>2 DEF IInv, StoredAt, Positions, Room
  <2>5. PastTheStore'
    BY <1>1, <1>2, <2>1 DEF IInv, StoreTypeOK, PastTheStore
  <2> QED BY <2>2, <2>3, <2>4, <2>5 DEF IInv
<1>4. CASE Sender(a) \notin membership[Room(a)]
  <2>1. transmit' = [transmit EXCEPT ![a] = "failed"] /\ store' = store
    BY <1>4 DEF CheckMember, IsSessionMember
  <2>2. PastTheStore'
    BY <1>1, <2>1 DEF IInv, StoreTypeOK, PastTheStore
  <2>3. \A b \in Attempts : gateway'[b] = "idle" => transmit'[b] = "idle"
    BY <1>1, <1>2, <2>1 DEF IInv, StoreTypeOK, IdleUntouched
  <2> QED BY <1>1, <2>1, <2>2, <2>3, OnlyMoves DEF IInv, StoreTypeOK
<1> QED
  BY <1>3, <1>4

\* What Append does to the entries of a log.
LEMMA AppendEntries ==
    ASSUME NEW S, NEW q \in Seq(S), NEW e \in S
    PROVE  /\ Append(q, e) \in Seq(S)
           /\ Len(Append(q, e)) = Len(q) + 1
           /\ DOMAIN Append(q, e) = DOMAIN q \cup {Len(q) + 1}
           /\ Append(q, e)[Len(q) + 1] = e
           /\ \A k \in DOMAIN q : Append(q, e)[k] = q[k]
           /\ Len(q) + 1 \notin DOMAIN q
  OBVIOUS

\* A commit appends the message of the attempt, which was in no log, and records
\* its position.
LEMMA CommitKeeps ==
    ASSUME IInv, NEW a \in Attempts, StoreCommits(a)
    PROVE  IInv'
<1> DEFINE r == request[a].session
<1>1. /\ store[a] = "running"
      /\ r \in exists
      /\ log' = [log EXCEPT ![r] = Append(@, a)]
      /\ store' = [store EXCEPT ![a] = "done"]
      /\ seq' = [seq EXCEPT ![a] = Len(log'[r])]
      /\ UNCHANGED <<exists, membership, request, gateway, transmit>>
  BY DEF StoreCommits, Post, Room
<1>2. r \in Sessions /\ log[r] \in Seq(Attempts)
  BY <1>1 DEF IInv, StoreTypeOK
<1>3. PICK n \in Nat : n = Len(log[r])
  BY <1>2
<1>4. /\ Append(log[r], a) \in Seq(Attempts)
      /\ Len(Append(log[r], a)) = n + 1
      /\ DOMAIN Append(log[r], a) = DOMAIN log[r] \cup {n + 1}
      /\ Append(log[r], a)[n + 1] = a
      /\ \A k \in DOMAIN log[r] : Append(log[r], a)[k] = log[r][k]
      /\ n + 1 \notin DOMAIN log[r]
  BY <1>2, <1>3, AppendEntries
<1>5. /\ log'[r] = Append(log[r], a)
      /\ \A t \in Sessions \ {r} : log'[t] = log[t]
      /\ seq'[a] = n + 1
      /\ \A b \in Attempts \ {a} : seq'[b] = seq[b] /\ store'[b] = store[b]
      /\ store'[a] = "done"
  BY <1>1, <1>2, <1>4 DEF IInv, StoreTypeOK
<1>6. StoreTypeOK'
  BY <1>1, <1>2, <1>4, <1>5 DEF IInv, StoreTypeOK, Call
<1>7. StoreChecked'
  BY <1>1 DEF IInv, StoreTypeOK, StoreChecked, Room, Sender
<1>8. \A t \in Sessions : \A k \in DOMAIN log[t] : log[t][k] # a /\ log[t][k] \in Attempts
  BY <1>1 DEF IInv, StoreTypeOK, StoredAt
<1>9. StoredAt'
  <2>1. ASSUME NEW t \in Sessions, NEW k \in DOMAIN log'[t]
        PROVE  store'[log'[t][k]] = "done" /\ request'[log'[t][k]].session = t
    <3>1. CASE t = r /\ k = n + 1
      BY <1>1, <1>4, <1>5, <3>1
    <3>2. CASE ~ (t = r /\ k = n + 1)
      <4>1. k \in DOMAIN log[t] /\ log'[t][k] = log[t][k]
        <5>1. CASE t = r
          <6>1. k \in DOMAIN Append(log[r], a) /\ k # n + 1
            BY <1>5, <2>1, <3>2, <5>1
          <6> QED BY <1>4, <1>5, <5>1, <6>1
        <5>2. CASE t # r
          BY <1>5, <2>1, <5>2
        <5> QED BY <5>1, <5>2
      <4> QED BY <1>1, <1>5, <1>8, <4>1 DEF IInv, StoredAt, Room
    <3> QED BY <3>1, <3>2
  <2>2. Positions(a)' = {seq'[a]}
    BY <1>1, <1>2, <1>4, <1>5, <1>8 DEF Positions, Room
  <2>3. ASSUME NEW b \in Attempts \ {a}, store'[b] = "done" PROVE Positions(b)' = {seq'[b]}
    <3>1. Positions(b) = {seq[b]} /\ seq'[b] = seq[b]
      BY <1>5, <2>3 DEF IInv, StoredAt
    <3>2. CASE request[b].session = r
      BY <1>1, <1>4, <1>5, <3>1, <3>2 DEF Positions, Room
    <3>3. CASE request[b].session # r
      <4>1. request[b].session \in Sessions
        BY <1>5, <2>3 DEF IInv, StoreChecked, Request
      <4> QED BY <1>1, <1>5, <3>1, <3>3, <4>1 DEF Positions, Room
    <3> QED BY <3>2, <3>3
  <2> QED BY <2>1, <2>2, <2>3 DEF StoredAt, Room
<1> QED
  BY <1>1, <1>5, <1>6, <1>7, <1>9 DEF IInv, AbsentUnpopulated, IdleUntouched, RequestKnown,
                                 PastTheStore

\* A store call that is dropped was not done.
LEMMA DropKeeps ==
    ASSUME IInv, NEW a \in Attempts, StoreDropped(a)
    PROVE  IInv'
<1>1. /\ store[a] = "running"
      /\ store' = [store EXCEPT ![a] = "dropped"]
      /\ UNCHANGED <<exists, membership, log, request, gateway, transmit, seq>>
  BY DEF StoreDropped, logs
<1>2. StoreTypeOK' /\ AbsentUnpopulated' /\ IdleUntouched' /\ RequestKnown' /\ PastTheStore'
  BY <1>1 DEF IInv, StoreTypeOK, Call, AbsentUnpopulated, IdleUntouched,
              RequestKnown, PastTheStore
<1>3. StoreChecked'
  BY <1>1 DEF IInv, StoreTypeOK, StoreChecked, Room, Sender
<1>4. StoredAt'
  <2>1. \A t \in Sessions : \A k \in DOMAIN log[t] : log[t][k] \in Attempts
    BY DEF IInv, StoreTypeOK
  <2>2. \A b \in Attempts : store'[b] = "done" <=> store[b] = "done"
    BY <1>1 DEF IInv, StoreTypeOK
  <2> QED BY <1>1, <2>1, <2>2 DEF IInv, StoredAt, Positions, Room
<1> QED
  BY <1>2, <1>3, <1>4 DEF IInv

\* Every step of either service and of the network keeps the invariant.
LEMMA StepPreserves == IInv /\ [Next]_vars => IInv'
<1> SUFFICES ASSUME IInv, [Next]_vars PROVE IInv'
  OBVIOUS
<1>1. ASSUME NEW s \in Sessions, NEW ms \in SUBSET Users, CreateSession(s, ms) PROVE IInv'
  BY <1>1, CreateKeeps
<1>2. ASSUME NEW a \in Attempts, NEW u \in Users, NEW s \in Sessions,
             SendMessage(a, u, s)
      PROVE  IInv'
  BY <1>2, SendKeeps
<1>3. ASSUME NEW a \in Attempts, TransmitStep(a) PROVE IInv'
  <2>1. CASE CheckMember(a)   BY <2>1, CheckKeeps
  <2>2. CASE StoreCommits(a)  BY <2>2, CommitKeeps
  <2>3. CASE StoreDropped(a)  BY <2>3, DropKeeps
  <2>4. CASE Stored(a)
    <3>1. PastTheStore'
      BY <2>4 DEF Stored, logs, IInv, StoreTypeOK, PastTheStore
    <3> QED BY <2>4, <3>1, OnlyMoves DEF Stored, logs, IInv, StoreTypeOK, IdleUntouched
  <2>5. CASE MarkApplies(a)
    BY <2>5, Untouched DEF MarkApplies, Read, logs, invVars
  <2>6. CASE MarkDropped(a)
    BY <2>6, Untouched DEF MarkDropped, logs, invVars
  <2>7. CASE MarkReturns(a)
    <3>1. PastTheStore'
      BY <2>7 DEF MarkReturns, logs, IInv, StoreTypeOK, PastTheStore
    <3> QED BY <2>7, <3>1, OnlyMoves DEF MarkReturns, logs, IInv, StoreTypeOK, IdleUntouched
  <2>8. CASE ListMembers(a)
    <3>1. PastTheStore'
      BY <2>8 DEF ListMembers, logs, IInv, StoreTypeOK, PastTheStore
    <3> QED BY <2>8, <3>1, OnlyMoves DEF ListMembers, logs, IInv, StoreTypeOK, IdleUntouched
  <2>9. CASE TransmitFails(a)
    <3>1. PastTheStore'
      BY <2>9 DEF TransmitFails, logs, IInv, StoreTypeOK, PastTheStore
    <3> QED BY <2>9, <3>1, OnlyMoves DEF TransmitFails, logs, IInv, StoreTypeOK, IdleUntouched
  <2> QED
    BY <1>3, <2>1, <2>2, <2>3, <2>4, <2>5, <2>6, <2>7, <2>8, <2>9 DEF TransmitStep
<1>4. ASSUME NEW a \in Attempts, GatewayStep(a) PROVE IInv'
  <2>1. CASE StartPush(a)
    <3>1. PastTheStore'
      BY <2>1 DEF StartPush, logs, IInv, StoreTypeOK, PastTheStore
    <3> QED BY <2>1, <3>1, OnlyMoves DEF StartPush, logs, IInv, StoreTypeOK, IdleUntouched
  <2>2. CASE SendFails(a)
    <3>1. PastTheStore'
      BY <2>2 DEF SendFails, logs, IInv, StoreTypeOK, PastTheStore
    <3> QED BY <2>2, <3>1, OnlyMoves DEF SendFails, logs, IInv, StoreTypeOK, IdleUntouched
  <2>3. CASE Answer(a)
    <3>1. PastTheStore'
      BY <2>3 DEF Answer, logs, IInv, StoreTypeOK, PastTheStore
    <3> QED BY <2>3, <3>1, OnlyMoves DEF Answer, logs, IInv, StoreTypeOK, IdleUntouched
  <2>4. ASSUME NEW c \in Conns, Push(a, c) \/ PushFails(a, c) PROVE IInv'
    BY <2>4, Untouched DEF Push, PushFails, logs, invVars
  <2> QED
    BY <1>4, <2>1, <2>2, <2>3, <2>4 DEF GatewayStep
<1>5. ASSUME NEW c \in Conns,
             (\E u \in Users : Connect(c, u)) \/ SocketDies(c) \/ HandlerLeaves(c)
      PROVE  IInv'
  BY <1>5, Untouched DEF Connect, SocketDies, HandlerLeaves, logs, sendVars, invVars
<1>6. ASSUME GatewayCrash PROVE IInv'
  <2>1. PastTheStore'
    BY <1>6 DEF GatewayCrash, logs, IInv, StoreTypeOK, PastTheStore
  <2> QED BY <1>6, <2>1, OnlyMoves DEF GatewayCrash, logs, IInv, StoreTypeOK, IdleUntouched
<1>7. ASSUME UNCHANGED vars PROVE IInv'
  BY <1>7, Untouched DEF vars, logs, sendVars, invVars
<1> QED
  BY <1>1, <1>2, <1>3, <1>4, <1>5, <1>6, <1>7 DEF Next

\* The inductive invariant holds for ever.
THEOREM Inductive == Spec => []IInv
  BY InitEstablishes, StepPreserves, PTL DEF Spec

\* A request that was answered 200 is in its session's log, once, under the number
\* that was returned: whatever calls of SendStringMessage were lost or late.
THEOREM AcceptedIsStored == Spec => []AckedStoredOnce
<1>1. IInv => AckedStoredOnce
  BY DEF IInv, StoredAt, PastTheStore, AckedStoredOnce
<1> QED
  BY <1>1, Inductive, PTL

\* Every message of a session was sent by one of its members: no call is lost or
\* late in a way that stores a message past the membership test.
THEOREM MembersOnly == Spec => []OnlyMembersPost
<1>1. IInv => OnlyMembersPost
  BY DEF IInv, StoreTypeOK, StoredAt, StoreChecked, OnlyMembersPost
<1> QED
  BY <1>1, Inductive, PTL
-----------------------------------------------------------------------------
\* The types of the rest: connections, pushes and what they have shown.
PushTypeOK ==
    /\ HubTypeOK
    /\ position \in [Sessions -> [Users -> Nat]]
    /\ mark \in [Attempts -> Call]
    /\ targets \in [Attempts -> SUBSET Users]
    /\ clients \in [Attempts -> SUBSET Conns]
    /\ todo \in [Attempts -> SUBSET Conns]
    /\ inbox \in [Conns -> Seq(Attempts)]
    /\ before \in [Attempts -> SUBSET Attempts]

\* A connection that has not been made is in nobody's map and in no push.
NewUnknown == \A c \in Conns : socket[c] = "new" =>
    /\ \A u \in Users : c \notin users[u]
    /\ \A a \in Attempts : c \notin clients[a]

\* Only a push under way has connections left, of those it took.
TodoOfPush == \A a \in Attempts :
    /\ todo[a] \subseteq clients[a]
    /\ todo[a] # {} => gateway[a] = "pushing"

\* What a connection has been shown was stored before.
Shown(a, c) == \E k \in DOMAIN inbox[c] : inbox[c][k] = a
ShownStored == \A c \in Conns, a \in Attempts : Shown(a, c) => store[a] = "done"

\* A connection that a push has dealt with has the message or is closed.
Reached == \A a \in Attempts : gateway[a] \in {"pushing", "ok"} =>
    \A c \in clients[a] \ todo[a] : socket[c] = "closed" \/ Shown(a, c)

\* Those answered before a request came in are answered.
BeforeAnswered == \A b \in Attempts : \A a \in before[b] : gateway[a] = "ok"

\* The two halves of SequentialOrder: numbers and pushes.  The first has no need
\* of log: a message stands where seq says.
Numbered == \A b \in Attempts : \A a \in before[b] :
    store[b] = "done" /\ Room(a) = Room(b) => seq[a] < seq[b]
ShownInOrder == \A c \in Conns, b \in Attempts : \A a \in before[b] :
    \A j, k \in DOMAIN inbox[c] : inbox[c][j] = a /\ inbox[c][k] = b => j < k

PInv == /\ PushTypeOK
        /\ NewUnknown
        /\ TodoOfPush
        /\ ShownStored
        /\ Reached
        /\ BeforeAnswered
        /\ Numbered
        /\ ShownInOrder

\* Before anything happens.
LEMMA PushInit == Init => PInv
<1> SUFFICES ASSUME Init PROVE PInv
  OBVIOUS
<1> USE DEF Init, LogInit, HubInit
<1>1. << >> \in Seq(Attempts) /\ DOMAIN << >> = {}
  OBVIOUS
<1>2. PushTypeOK
  BY <1>1, NoUserAssumption DEF PushTypeOK, HubTypeOK, Call
<1>3. ShownStored /\ ShownInOrder
  BY <1>1 DEF ShownStored, ShownInOrder, Shown
<1> QED
  BY <1>2, <1>3 DEF PInv, NewUnknown, TodoOfPush, Reached, BeforeAnswered, Numbered

\* Steps of the transmit service and of the calls it makes, but the commit.
LEMMA QuietKeeps ==
    ASSUME PInv,
           UNCHANGED <<hubVars, request, gateway, seq, clients, todo, inbox, before>>,
           \A a \in Attempts : store'[a] = "done" <=> store[a] = "done",
           position' \in [Sessions -> [Users -> Nat]],
           mark' \in [Attempts -> Call],
           targets' \in [Attempts -> SUBSET Users]
    PROVE  PInv'
<1>1. PushTypeOK' /\ NewUnknown' /\ TodoOfPush'
  BY DEF PInv, PushTypeOK, HubTypeOK, hubVars, NewUnknown, TodoOfPush
<1>2. ShownStored' /\ Reached' /\ BeforeAnswered' /\ ShownInOrder'
  BY DEF PInv, hubVars, ShownStored, Reached, Shown, BeforeAnswered, ShownInOrder
<1>3. Numbered'
  BY DEF PInv, PushTypeOK, Numbered, Room
<1> QED
  BY <1>1, <1>2, <1>3 DEF PInv

\* A request comes in: it has shown nothing and no number yet.
LEMMA ArrivalKeeps ==
    ASSUME IInv, PInv, NEW b \in Attempts, NEW u \in Users, NEW s \in Sessions,
           SendMessage(b, u, s)
    PROVE  PInv'
<1>1. /\ gateway[b] = "idle"
      /\ request' = [request EXCEPT ![b] = [sender |-> u, session |-> s]]
      /\ gateway' = [gateway EXCEPT ![b] = "waiting"]
      /\ before' = [before EXCEPT ![b] = {a \in Attempts : gateway[a] = "ok"}]
      /\ UNCHANGED <<position, hubVars, store, mark, seq, targets, clients, todo, inbox>>
  BY DEF SendMessage, logs
<1>2. store[b] = "none" /\ gateway \in [Attempts -> {"idle", "waiting", "pushing", "ok", "failed"}]
  BY <1>1 DEF IInv, StoreTypeOK, IdleUntouched
<1>3. PushTypeOK' /\ NewUnknown' /\ TodoOfPush'
  BY <1>1, <1>2 DEF PInv, PushTypeOK, HubTypeOK, hubVars, NewUnknown, TodoOfPush
<1>4. ShownStored' /\ Reached'
  BY <1>1, <1>2 DEF PInv, hubVars, ShownStored, Reached, Shown
<1>5. BeforeAnswered'
  BY <1>1, <1>2 DEF PInv, PushTypeOK, BeforeAnswered
<1>6. \A a \in Attempts : store[a] = "done" => a # b
  BY <1>2
<1>7. \A c \in Attempts \ {b} : before'[c] = before[c] /\ request'[c] = request[c]
  BY <1>1 DEF PInv, PushTypeOK, IInv, StoreTypeOK
<1>8. Numbered'
  <2>1. \A c \in Attempts : before[c] \subseteq Attempts \ {b}
    BY <1>1, <1>2 DEF PInv, PushTypeOK, BeforeAnswered
  <2>2. ASSUME NEW d \in Attempts, NEW a \in before'[d], store'[d] = "done",
               request'[a].session = request'[d].session
        PROVE  seq'[a] < seq'[d]
    <3>1. d # b /\ store[d] = "done"
      BY <1>1, <1>2, <2>2
    <3>2. a \in before[d] /\ a # b /\ a \in Attempts
      BY <1>7, <2>1, <2>2, <3>1
    <3>. QED
      BY <1>1, <1>7, <2>2, <3>1, <3>2 DEF PInv, Numbered, Room
  <2>. QED
    BY <2>2 DEF Numbered, Room
<1>9. ShownInOrder'
  <2>1. \A c \in Conns : ~ Shown(b, c)
    BY <1>2 DEF PInv, ShownStored
  <2>. QED
    BY <1>1, <1>7, <2>1 DEF PInv, ShownInOrder, Shown
<1> QED
  BY <1>3, <1>4, <1>5, <1>8, <1>9 DEF PInv

\* A commit gives the next number, larger than all that were answered.
LEMMA CommitKeepsOrder ==
    ASSUME IInv, IInv', PInv, NEW b \in Attempts, StoreCommits(b)
    PROVE  PInv'
<1>1. /\ store[b] = "running"
      /\ Room(b) \in exists
      /\ log' = [log EXCEPT ![Room(b)] = Append(@, b)]
      /\ store' = [store EXCEPT ![b] = "done"]
      /\ seq' = [seq EXCEPT ![b] = Len(log'[Room(b)])]
      /\ UNCHANGED <<position, hubVars, request, gateway, mark, targets, clients, todo, inbox, before>>
  BY DEF StoreCommits, Post
<1>2. PushTypeOK' /\ NewUnknown' /\ TodoOfPush'
  BY <1>1 DEF PInv, PushTypeOK, HubTypeOK, hubVars, NewUnknown, TodoOfPush
<1>3. \A a \in Attempts : store[a] = "done" => store'[a] = "done" /\ a # b /\ seq'[a] = seq[a]
  BY <1>1 DEF IInv, StoreTypeOK
<1>4. ShownStored' /\ Reached' /\ BeforeAnswered' /\ ShownInOrder'
  BY <1>1, <1>3 DEF PInv, hubVars, ShownStored, Reached, Shown, BeforeAnswered, ShownInOrder
<1>5. Numbered'
  <2>1. ASSUME NEW d \in Attempts, NEW a \in before[d], store'[d] = "done", Room(a) = Room(d)
        PROVE  seq'[a] < seq'[d]
    <3>1. a \in Attempts /\ store[a] = "done" /\ seq'[a] = seq[a]
      BY <1>3 DEF PInv, PushTypeOK, BeforeAnswered, IInv, PastTheStore
    <3>2. CASE d = b
      <4>1. Room(b) \in Sessions /\ log[Room(b)] \in Seq(Attempts)
        BY <1>1 DEF IInv, StoreTypeOK
      <4>2. PICK n \in Nat : n = Len(log[Room(b)])
        BY <4>1
      <4>3. log'[Room(b)] = Append(log[Room(b)], b)
        BY <1>1, <4>1 DEF IInv, StoreTypeOK
      <4>4. seq'[b] = n + 1
        BY <1>1, <4>1, <4>2, <4>3, AppendEntries DEF IInv, StoreTypeOK
      <4>5. Positions(a) = {seq[a]}
        BY <3>1 DEF IInv, StoredAt
      <4>6. seq[a] \in DOMAIN log[Room(b)]
        BY <2>1, <3>2, <4>5 DEF Positions
      <4>7. seq[a] \in 1..n
        BY <4>1, <4>2, <4>6
      <4>. QED
        BY <3>1, <3>2, <4>4, <4>7
    <3>3. CASE d # b
      <4>1. store[d] = "done" /\ seq'[d] = seq[d]
        BY <1>1, <2>1, <3>3 DEF IInv, StoreTypeOK
      <4>. QED
        BY <2>1, <3>1, <4>1 DEF PInv, Numbered
    <3>. QED
      BY <3>2, <3>3
  <2>. QED
    BY <1>1, <2>1 DEF Numbered, Room
<1> QED
  BY <1>2, <1>4, <1>5 DEF PInv

\* The push begins with the connections the members have, none of them new.
LEMMA StartKeeps ==
    ASSUME IInv, PInv, NEW a \in Attempts, StartPush(a)
    PROVE  PInv'
<1> DEFINE conns == snapshotClients(targets[a])
<1>1. /\ gateway[a] = "waiting"
      /\ gateway' = [gateway EXCEPT ![a] = "pushing"]
      /\ clients' = [clients EXCEPT ![a] = conns]
      /\ todo' = [todo EXCEPT ![a] = conns]
      /\ UNCHANGED <<position, hubVars, request, store, mark, seq, targets, inbox, before>>
  BY DEF StartPush, logs
<1>2. conns \subseteq Conns /\ \A c \in conns : socket[c] # "new"
  BY DEF PInv, PushTypeOK, HubTypeOK, NewUnknown, snapshotClients
<1>3. gateway \in [Attempts -> {"idle", "waiting", "pushing", "ok", "failed"}]
  BY DEF IInv, StoreTypeOK
<1> HIDE DEF conns
<1>4. PushTypeOK' /\ NewUnknown' /\ TodoOfPush'
  BY <1>1, <1>2, <1>3 DEF PInv, PushTypeOK, HubTypeOK, hubVars, NewUnknown, TodoOfPush
<1>5. ShownStored' /\ BeforeAnswered' /\ Numbered' /\ ShownInOrder'
  BY <1>1, <1>3 DEF PInv, PushTypeOK, ShownStored, Shown, BeforeAnswered, Numbered, Room, ShownInOrder
<1>6. Reached'
  BY <1>1, <1>2, <1>3 DEF PInv, PushTypeOK, hubVars, Reached, Shown
<1> QED
  BY <1>4, <1>5, <1>6 DEF PInv

\* The gateway gives up or answers: not before the push is over.
LEMMA EndKeeps ==
    ASSUME IInv, PInv, NEW a \in Attempts, SendFails(a) \/ Answer(a)
    PROVE  PInv'
<1>1. /\ \/ gateway' = [gateway EXCEPT ![a] = "failed"] /\ gateway[a] = "waiting"
         \/ gateway' = [gateway EXCEPT ![a] = "ok"] /\ gateway[a] = "pushing" /\ todo[a] = {}
      /\ UNCHANGED <<position, hubVars, request, store, mark, seq, targets, clients, todo,
                     inbox, before>>
  BY DEF SendFails, Answer, logs
<1>2. gateway \in [Attempts -> {"idle", "waiting", "pushing", "ok", "failed"}]
  BY DEF IInv, StoreTypeOK
<1>3. PushTypeOK' /\ NewUnknown' /\ TodoOfPush'
  BY <1>1, <1>2 DEF PInv, PushTypeOK, HubTypeOK, hubVars, NewUnknown, TodoOfPush
<1>4. ShownStored' /\ BeforeAnswered' /\ Numbered' /\ ShownInOrder'
  BY <1>1, <1>2 DEF PInv, PushTypeOK, ShownStored, Shown, BeforeAnswered, Numbered, Room, ShownInOrder
<1>5. Reached'
  BY <1>1, <1>2 DEF PInv, hubVars, Reached, Shown
<1> QED
  BY <1>3, <1>4, <1>5 DEF PInv

\* A write puts the message after all that the connection has been shown.
LEMMA WriteKeeps ==
    ASSUME IInv, PInv, NEW a \in Attempts, NEW c \in Conns, Push(a, c)
    PROVE  PInv'
<1>1. /\ c \in todo[a]
      /\ todo' = [todo EXCEPT ![a] = @ \ {c}]
      /\ inbox' = IF socket[c] = "open" THEN [inbox EXCEPT ![c] = Append(@, a)] ELSE inbox
      /\ UNCHANGED <<position, hubVars, request, gateway, store, mark, seq, targets, clients, before>>
  BY DEF Push, logs
<1>2. /\ gateway[a] = "pushing" /\ store[a] = "done" /\ socket[c] # "new"
      /\ inbox[c] \in Seq(Attempts)
  BY <1>1 DEF PInv, PushTypeOK, TodoOfPush, NewUnknown, IInv, PastTheStore
<1>3. PICK n \in Nat : n = Len(inbox[c])
  BY <1>2
<1> DEFINE more == Append(inbox[c], a)
<1>4. /\ more \in Seq(Attempts)
      /\ DOMAIN more = DOMAIN inbox[c] \cup {n + 1}
      /\ more[n + 1] = a
      /\ \A k \in DOMAIN inbox[c] : more[k] = inbox[c][k]
      /\ DOMAIN inbox[c] = 1..n
  BY <1>2, <1>3, AppendEntries
<1> HIDE DEF more
<1>5. /\ \A d \in Conns \ {c} : inbox'[d] = inbox[d]
      /\ inbox'[c] = inbox[c] \/ inbox'[c] = more
      /\ socket[c] = "open" => inbox'[c] = more
  BY <1>1 DEF PInv, PushTypeOK, more
<1>6. PushTypeOK'
  <2>1. inbox' \in [Conns -> Seq(Attempts)]
    <3>1. inbox \in [Conns -> Seq(Attempts)]
      BY DEF PInv, PushTypeOK
    <3>2. inbox' = inbox \/ inbox' = [inbox EXCEPT ![c] = more]
      BY <1>1 DEF more
    <3>. QED
      BY <1>4, <3>1, <3>2
  <2>. QED
    BY <1>1, <2>1 DEF PInv, PushTypeOK, HubTypeOK, hubVars
<1>7. NewUnknown' /\ TodoOfPush' /\ BeforeAnswered' /\ Numbered'
  BY <1>1 DEF PInv, PushTypeOK, hubVars, NewUnknown, TodoOfPush, BeforeAnswered, Numbered, Room
<1>8. \A d \in Conns, b \in Attempts : Shown(b, d) => Shown(b, d)'
  BY <1>4, <1>5 DEF Shown
<1>9. \A d \in Conns, b \in Attempts : Shown(b, d)' => Shown(b, d) \/ b = a
  BY <1>4, <1>5 DEF Shown
<1>10. ShownStored'
  BY <1>1, <1>2, <1>9 DEF PInv, ShownStored
<1>11. Reached'
  <2>1. socket[c] = "closed" \/ Shown(a, c)'
    BY <1>2, <1>4, <1>5 DEF Shown, PInv, PushTypeOK, HubTypeOK
  <2>2. \A b \in Attempts : \A d \in Conns : d \notin todo'[b] => d \notin todo[b] \/ (b = a /\ d = c)
    BY <1>1 DEF PInv, PushTypeOK
  <2>3. ASSUME NEW b \in Attempts, gateway[b] \in {"pushing", "ok"},
               NEW d \in clients[b], d \notin todo'[b]
        PROVE  socket[d] = "closed" \/ Shown(b, d)'
    <3>1. d \in Conns
      BY DEF PInv, PushTypeOK
    <3>. QED
      BY <1>8, <2>1, <2>2, <2>3, <3>1 DEF PInv, Reached
  <2>. QED
    BY <1>1, <2>3 DEF Reached, hubVars
<1>12. ShownInOrder'
  <2>1. ASSUME NEW b \in Attempts, NEW e \in before[b], NEW j \in DOMAIN inbox'[c],
               NEW k \in DOMAIN inbox'[c], inbox'[c][j] = e, inbox'[c][k] = b,
               inbox'[c] = more
        PROVE  j < k
    <3>1. gateway[e] = "ok" /\ e # a
      BY <1>2 DEF PInv, BeforeAnswered
    <3>2. j \in DOMAIN inbox[c] /\ inbox[c][j] = e /\ j \in 1..n
      BY <1>4, <2>1, <3>1
    <3>3. CASE k = n + 1
      BY <3>2, <3>3
    <3>4. CASE k # n + 1
      BY <1>4, <2>1, <3>2, <3>4 DEF PInv, ShownInOrder
    <3>. QED
      BY <3>3, <3>4
  <2>. QED
    BY <1>1, <1>5, <2>1 DEF PInv, ShownInOrder
<1> QED
  BY <1>6, <1>7, <1>10, <1>11, <1>12 DEF PInv

\* Whom a connection leaves, and whom it joins, of the two views of the hub.
LEMMA WithoutTyped ==
    ASSUME HubTypeOK, NEW c \in Conns
    PROVE  /\ Without(c) \in [Users -> SUBSET Conns]
           /\ \A u \in Users : Without(c)[u] \subseteq users[u]
  BY DEF HubTypeOK, Without

\* A connection leaves the map and is closed, or is closed already: what it was
\* shown stays.
LEMMA ClosingKeeps ==
    ASSUME PInv, NEW c \in Conns, socket[c] # "new",
           users' = users \/ users' = Without(c),
           user_of' = user_of \/ user_of' = [user_of EXCEPT ![c] = NoUser],
           socket' = [socket EXCEPT ![c] = "closed"],
           UNCHANGED <<position, request, gateway, store, mark, seq, targets, clients, inbox, before>>,
           \/ todo' = todo
           \/ \E a \in Attempts : todo' = [todo EXCEPT ![a] = @ \ {c}]
    PROVE  PInv'
<1>0. HubTypeOK /\ todo \in [Attempts -> SUBSET Conns]
  BY DEF PInv, PushTypeOK
<1>1. HubTypeOK' /\ \A u \in Users : users'[u] \subseteq users[u]
  <2>1. users' \in [Users -> SUBSET Conns] /\ \A u \in Users : users'[u] \subseteq users[u]
    BY <1>0, WithoutTyped DEF HubTypeOK
  <2>2. user_of' \in [Conns -> Users \cup {NoUser}]
    BY <1>0 DEF HubTypeOK
  <2>. QED
    BY <1>0, <2>1, <2>2 DEF HubTypeOK
<1>2. /\ todo' \in [Attempts -> SUBSET Conns]
      /\ \A a \in Attempts : todo'[a] \subseteq todo[a] /\ todo[a] \subseteq todo'[a] \cup {c}
  <2>1. CASE todo' = todo
    BY <1>0, <2>1
  <2>2. ASSUME NEW a \in Attempts, todo' = [todo EXCEPT ![a] = todo[a] \ {c}]
        PROVE  /\ todo' \in [Attempts -> SUBSET Conns]
               /\ \A b \in Attempts : todo'[b] \subseteq todo[b] /\ todo[b] \subseteq todo'[b] \cup {c}
    <3>1. todo[a] \in SUBSET Conns
      BY <1>0
    <3>. QED
      BY <1>0, <2>2, <3>1
  <2>. QED
    BY <2>1, <2>2
<1>3. \A d \in Conns : (socket[d] # "new" <=> socket'[d] # "new") /\ (socket[d] = "closed" => socket'[d] = "closed")
  BY DEF PInv, PushTypeOK, HubTypeOK
<1>4. PushTypeOK'
  BY <1>1, <1>2 DEF PInv, PushTypeOK
<1>5. NewUnknown' /\ TodoOfPush'
  BY <1>1, <1>2, <1>3 DEF PInv, NewUnknown, TodoOfPush
<1>6. ShownStored' /\ BeforeAnswered' /\ Numbered' /\ ShownInOrder'
  BY DEF PInv, ShownStored, Shown, BeforeAnswered, Numbered, Room, ShownInOrder
<1>7. Reached'
  <2>1. socket'[c] = "closed"
    BY DEF PInv, PushTypeOK, HubTypeOK
  <2>2. ASSUME NEW a \in Attempts, gateway[a] \in {"pushing", "ok"},
               NEW d \in clients[a], d \notin todo'[a], d # c
        PROVE  socket'[d] = "closed" \/ Shown(a, d)
    BY <1>2, <1>3, <2>2 DEF PInv, PushTypeOK, Reached
  <2>. QED
    BY <2>1, <2>2 DEF Reached, Shown
<1> QED
  BY <1>4, <1>5, <1>6, <1>7 DEF PInv

\* A client connects: it is in no push that has begun.
LEMMA ConnectKeeps ==
    ASSUME PInv, NEW c \in Conns, NEW u \in Users, Connect(c, u)
    PROVE  PInv'
<1>1. /\ socket[c] = "new"
      /\ socket' = [socket EXCEPT ![c] = "open"]
      /\ bind(c, u)
      /\ UNCHANGED <<position, request, gateway, store, mark, seq, targets, clients, todo, inbox, before>>
  BY DEF Connect, logs, sendVars
<1>2. HubTypeOK' /\ \A v \in Users : users'[v] \subseteq users[v] \cup {c}
  <2>0. HubTypeOK
    BY DEF PInv, PushTypeOK
  <2>1. users' = [Without(c) EXCEPT ![u] = Without(c)[u] \cup {c}]
    BY <1>1 DEF bind
  <2>2. users' \in [Users -> SUBSET Conns] /\ \A v \in Users : users'[v] \subseteq users[v] \cup {c}
    <3>1. PICK w \in [Users -> SUBSET Conns] : w = Without(c)
      BY <2>0, WithoutTyped
    <3>2. users' = [w EXCEPT ![u] = w[u] \cup {c}] /\ \A v \in Users : w[v] \subseteq users[v]
      BY <2>0, <2>1, <3>1, WithoutTyped
    <3>. QED
      BY <3>2
  <2>3. user_of' = [user_of EXCEPT ![c] = u]
    BY <1>1 DEF bind
  <2>4. user_of' \in [Conns -> Users \cup {NoUser}]
    BY <2>0, <2>3 DEF HubTypeOK
  <2>5. socket' \in [Conns -> {"new", "open", "closed"}]
    BY <1>1, <2>0 DEF HubTypeOK
  <2>. QED
    BY <2>2, <2>4, <2>5 DEF HubTypeOK
<1>3. \A d \in Conns : (socket'[d] = "new" => socket[d] = "new" /\ d # c)
                       /\ (socket[d] = "closed" => socket'[d] = "closed")
  BY <1>1 DEF PInv, PushTypeOK, HubTypeOK
<1>4. PushTypeOK' /\ NewUnknown' /\ TodoOfPush'
  <2>1. PushTypeOK'
    BY <1>1, <1>2 DEF PInv, PushTypeOK
  <2>2. NewUnknown'
    BY <1>1, <1>2, <1>3 DEF PInv, NewUnknown
  <2>. QED
    BY <1>1, <2>1, <2>2 DEF PInv, TodoOfPush
<1>5. ShownStored' /\ BeforeAnswered' /\ Numbered' /\ ShownInOrder'
  BY <1>1 DEF PInv, ShownStored, Shown, BeforeAnswered, Numbered, Room, ShownInOrder
<1>6. Reached'
  BY <1>1, <1>3 DEF PInv, PushTypeOK, Reached, Shown
<1> QED
  BY <1>4, <1>5, <1>6 DEF PInv

\* When the gateway dies every push ends, and so does every connection.
LEMMA CrashKeeps ==
    ASSUME IInv, PInv, GatewayCrash
    PROVE  PInv'
<1>1. /\ gateway' = [a \in Attempts |-> IF gateway[a] \in {"waiting", "pushing"}
                                        THEN "failed" ELSE gateway[a]]
      /\ socket' = [c \in Conns |-> IF socket[c] = "new" THEN "new" ELSE "closed"]
      /\ users' = [u \in Users |-> {}]
      /\ user_of' = [c \in Conns |-> NoUser]
      /\ todo' = [a \in Attempts |-> {}]
      /\ UNCHANGED <<position, request, store, mark, seq, targets, clients, inbox, before>>
  BY DEF GatewayCrash, logs
<1>2. \A a \in Attempts : /\ gateway[a] = "ok" => gateway'[a] = "ok"
                          /\ gateway'[a] # "pushing"
  BY <1>1
<1>3. PushTypeOK' /\ NewUnknown' /\ TodoOfPush'
  BY <1>1 DEF PInv, PushTypeOK, HubTypeOK, NewUnknown, TodoOfPush
<1>4. BeforeAnswered'
  BY <1>1, <1>2 DEF PInv, PushTypeOK, BeforeAnswered
<1>5. ShownStored' /\ Numbered' /\ ShownInOrder'
  BY <1>1 DEF PInv, ShownStored, Shown, Numbered, Room, ShownInOrder
<1>6. Reached'
  BY <1>1 DEF PInv, PushTypeOK, HubTypeOK, NewUnknown, Reached
<1> QED
  BY <1>3, <1>4, <1>5, <1>6 DEF PInv

\* Every step keeps what is known of the pushes.
LEMMA PushStep == IInv /\ IInv' /\ PInv /\ [Next]_vars => PInv'
<1> SUFFICES ASSUME IInv, IInv', PInv, [Next]_vars PROVE PInv'
  OBVIOUS
<1>0. /\ position \in [Sessions -> [Users -> Nat]]
      /\ mark \in [Attempts -> Call]
      /\ targets \in [Attempts -> SUBSET Users]
  BY DEF PInv, PushTypeOK
<1>1. ASSUME NEW s \in Sessions, NEW ms \in SUBSET Users, CreateSession(s, ms) PROVE PInv'
  BY <1>0, <1>1, QuietKeeps DEF CreateSession, Create, sendVars
<1>2. ASSUME NEW a \in Attempts, NEW u \in Users, NEW s \in Sessions, SendMessage(a, u, s)
      PROVE  PInv'
  BY <1>2, ArrivalKeeps
<1>3. ASSUME NEW a \in Attempts, TransmitStep(a) PROVE PInv'
  <2>1. CASE StoreCommits(a)
    BY <2>1, CommitKeepsOrder
  <2>2. CASE CheckMember(a)
    <3>1. store[a] = "none" /\ store \in [Attempts -> Call]
      BY <2>2 DEF CheckMember, IInv, StoreTypeOK, PastTheStore
    <3>2. store' = store \/ store' = [store EXCEPT ![a] = "running"]
      BY <2>2 DEF CheckMember
    <3>3. \A b \in Attempts : store'[b] = "done" <=> store[b] = "done"
      BY <3>1, <3>2
    <3>. QED
      BY <1>0, <2>2, <3>3, QuietKeeps DEF CheckMember, logs
  <2>3. CASE StoreDropped(a)
    <3>1. \A b \in Attempts : store'[b] = "done" <=> store[b] = "done"
      BY <2>3 DEF StoreDropped, IInv, StoreTypeOK
    <3>. QED
      BY <1>0, <2>3, <3>1, QuietKeeps DEF StoreDropped, logs
  <2>4. CASE Stored(a)
    <3>1. mark' \in [Attempts -> Call]
      BY <1>0, <2>4 DEF Stored, Call
    <3>. QED
      BY <1>0, <2>4, <3>1, QuietKeeps DEF Stored, logs
  <2>5. CASE MarkApplies(a)
    <3>1. mark' \in [Attempts -> Call]
      BY <1>0, <2>5 DEF MarkApplies, Call
    <3>2. position' = position \/ position' = [position EXCEPT ![Room(a)][Sender(a)] = seq[a]]
      BY <2>5 DEF MarkApplies, Read, logs
    <3>3. seq[a] \in Nat
      BY DEF IInv, StoreTypeOK
    <3>4. position' \in [Sessions -> [Users -> Nat]]
      BY <1>0, <3>2, <3>3
    <3>. QED
      BY <1>0, <2>5, <3>1, <3>4, QuietKeeps DEF MarkApplies
  <2>6. CASE MarkDropped(a)
    <3>1. mark' \in [Attempts -> Call]
      BY <1>0, <2>6 DEF MarkDropped, Call
    <3>. QED
      BY <1>0, <2>6, <3>1, QuietKeeps DEF MarkDropped, logs
  <2>7. CASE ListMembers(a)
    <3>1. request[a] \in Request
      BY <2>7 DEF ListMembers, IInv, IdleUntouched, RequestKnown
    <3>2. targets' \in [Attempts -> SUBSET Users]
      BY <1>0, <2>7, <3>1 DEF ListMembers, ListSessionMemberIDs, Room, Request, IInv, StoreTypeOK
    <3>. QED
      BY <1>0, <2>7, <3>2, QuietKeeps DEF ListMembers, logs
  <2>8. CASE MarkReturns(a) \/ TransmitFails(a)
    BY <1>0, <2>8, QuietKeeps DEF MarkReturns, TransmitFails, logs
  <2>. QED
    BY <1>3, <2>1, <2>2, <2>3, <2>4, <2>5, <2>6, <2>7, <2>8 DEF TransmitStep
<1>4. ASSUME NEW a \in Attempts, GatewayStep(a) PROVE PInv'
  <2>1. ASSUME NEW c \in Conns, PushFails(a, c) PROVE PInv'
    <3>1. socket[c] # "new"
      BY <2>1 DEF PushFails, PInv, PushTypeOK, TodoOfPush, NewUnknown
    <3>2. UNCHANGED <<position, request, gateway, store, mark, seq, targets, clients, inbox, before>>
      BY <2>1 DEF PushFails, logs
    <3>. QED
      BY <2>1, <3>1, <3>2, ClosingKeeps DEF PushFails, remove
  <2>. QED
    BY <1>4, <2>1, StartKeeps, EndKeeps, WriteKeeps DEF GatewayStep
<1>5. ASSUME NEW c \in Conns, SocketDies(c) \/ HandlerLeaves(c) PROVE PInv'
  <2>1. UNCHANGED <<position, request, gateway, store, mark, seq, targets, clients, inbox, before, todo>>
    BY <1>5 DEF SocketDies, HandlerLeaves, logs, sendVars
  <2>2. socket[c] # "new" /\ socket' = [socket EXCEPT ![c] = "closed"]
    BY <1>5 DEF SocketDies, HandlerLeaves, PInv, PushTypeOK, HubTypeOK
  <2>3. /\ users' = users \/ users' = Without(c)
        /\ user_of' = user_of \/ user_of' = [user_of EXCEPT ![c] = NoUser]
    BY <1>5 DEF SocketDies, HandlerLeaves, remove
  <2>. QED
    BY <2>1, <2>2, <2>3, ClosingKeeps
<1>6. ASSUME UNCHANGED vars PROVE PInv'
  BY <1>0, <1>6, QuietKeeps DEF vars, logs, sendVars
<1> QED
  BY <1>1, <1>2, <1>3, <1>4, <1>5, <1>6, ConnectKeeps, CrashKeeps DEF Next

\* Both invariants hold for ever.
THEOREM PushInductive == Spec => [](IInv /\ PInv)
<1>1. Init => IInv /\ PInv
  BY InitEstablishes, PushInit
<1>2. IInv /\ PInv /\ [Next]_vars => (IInv /\ PInv)'
  BY StepPreserves, PushStep
<1> QED
  BY <1>1, <1>2, PTL DEF Spec

\* The variables keep their types.
THEOREM TypeCorrect == Spec => []TypeOK
<1>1. IInv /\ PInv => TypeOK
  BY DEF IInv, StoreTypeOK, PInv, PushTypeOK, TypeOK
<1> QED
  BY <1>1, PushInductive, PTL

\* What any WebSocket has shown is in the log of its session: the push comes after
\* the commit, whatever was lost or late.
THEOREM PushesAreStored == Spec => []PushedIsStored
<1>1. IInv /\ PInv => PushedIsStored
  <2> SUFFICES ASSUME IInv, PInv, NEW c \in Conns, NEW k \in DOMAIN inbox[c]
               PROVE  Positions(inbox[c][k]) # {}
    BY DEF PushedIsStored
  <2>1. inbox[c][k] \in Attempts
    BY DEF PInv, PushTypeOK
  <2>2. store[inbox[c][k]] = "done"
    BY <2>1 DEF PInv, ShownStored, Shown
  <2> QED
    BY <2>1, <2>2 DEF IInv, StoredAt
<1> QED
  BY <1>1, PushInductive, PTL

\* A 200 comes after every connection the push took has the message or is closed.
THEOREM PushesReachAll == Spec => []PushComplete
<1>1. IInv /\ PInv => PushComplete
  BY DEF PInv, PushTypeOK, TodoOfPush, Reached, Shown, PushComplete
<1> QED
  BY <1>1, PushInductive, PTL

\* A client that waits for its answers has its messages numbered and shown to
\* every connection in the order it sent them.
THEOREM AnswersKeepOrder == Spec => []SequentialOrder
<1>1. IInv /\ PInv => SequentialOrder
  <2> SUFFICES ASSUME IInv, PInv, NEW b \in Attempts, NEW a \in before[b], Room(a) = Room(b)
               PROVE  /\ \A j \in Positions(a), k \in Positions(b) : j < k
                      /\ \A c \in Conns : \A j, k \in DOMAIN inbox[c] :
                             inbox[c][j] = a /\ inbox[c][k] = b => j < k
    BY DEF SequentialOrder
  <2>1. a \in Attempts /\ store[a] = "done" /\ Positions(a) = {seq[a]}
    BY DEF PInv, PushTypeOK, BeforeAnswered, IInv, PastTheStore, StoredAt
  <2>2. ASSUME NEW k \in Positions(b) PROVE k = seq[b] /\ seq[a] < seq[b]
    <3>1. store[b] = "done"
      <4>1. k \in DOMAIN log[Room(b)] /\ log[Room(b)][k] = b
        BY <2>2 DEF Positions
      <4>2. Room(b) \in Sessions
        <5>1. request[a] \in Request
          BY <2>1 DEF IInv, StoreChecked
        <5> QED
          BY <5>1 DEF Room, Request
      <4> QED
        BY <4>1, <4>2 DEF IInv, StoredAt
    <3> QED
      BY <2>2, <3>1 DEF IInv, StoredAt, PInv, Numbered
  <2> QED
    BY <2>1, <2>2 DEF PInv, ShownInOrder
<1> QED
  BY <1>1, PushInductive, PTL

-----------------------------------------------------------------------------
\* A request that the gateway has not begun to push has been shown nowhere, and a
\* connection that a push has still to write to has not been shown the message.
Fresh == \A a \in Attempts, c \in Conns :
    gateway[a] \in {"idle", "waiting"} \/ c \in todo[a] => ~Shown(a, c)

\* A connection has been shown nothing twice.
ShownOnce == \A c \in Conns : NoneTwice(inbox[c])

\* Nothing has been shown at first.
LEMMA OnceInit == Init => Fresh /\ ShownOnce
<1>1. DOMAIN << >> = {}
  OBVIOUS
<1> QED
  BY <1>1 DEF Init, Fresh, ShownOnce, NoneTwice, Shown

\* A write shows the message on a connection that has not been shown it, and takes
\* the connection from the list.
LEMMA WriteOnce ==
    ASSUME IInv, PInv, Fresh, ShownOnce, NEW a \in Attempts, NEW c \in Conns, Push(a, c)
    PROVE  Fresh' /\ ShownOnce'
<1>1. /\ c \in todo[a]
      /\ todo' = [todo EXCEPT ![a] = @ \ {c}]
      /\ inbox' = IF socket[c] = "open" THEN [inbox EXCEPT ![c] = Append(@, a)] ELSE inbox
      /\ UNCHANGED gateway
  BY DEF Push
<1>2. /\ gateway[a] = "pushing" /\ ~Shown(a, c) /\ inbox \in [Conns -> Seq(Attempts)]
      /\ todo \in [Attempts -> SUBSET Conns]
  BY <1>1 DEF PInv, PushTypeOK, TodoOfPush, Fresh
<1>3. PICK n \in Nat : n = Len(inbox[c])
  BY <1>2
<1> DEFINE more == Append(inbox[c], a)
<1>4. /\ DOMAIN more = DOMAIN inbox[c] \cup {n + 1}
      /\ more[n + 1] = a
      /\ \A k \in DOMAIN inbox[c] : more[k] = inbox[c][k]
      /\ n + 1 \notin DOMAIN inbox[c]
  BY <1>2, <1>3, AppendEntries
<1>5. /\ \A d \in Conns \ {c} : inbox'[d] = inbox[d]
      /\ inbox'[c] = inbox[c] \/ inbox'[c] = more
  BY <1>1, <1>2
<1> HIDE DEF more
<1>6. \A d \in Conns, b \in Attempts : Shown(b, d)' => Shown(b, d) \/ (b = a /\ d = c)
  BY <1>4, <1>5 DEF Shown
<1>7. Fresh'
  <2>1. \A b \in Attempts : todo'[b] \subseteq todo[b] /\ (b = a => c \notin todo'[b])
    BY <1>1, <1>2
  <2> QED
    BY <1>1, <1>2, <1>6, <2>1 DEF Fresh
<1>8. ShownOnce'
  <2>1. \A k \in DOMAIN inbox[c] : inbox[c][k] # a
    BY <1>2 DEF Shown
  <2>2. \A j, k \in DOMAIN more : more[j] = more[k] => j = k
    BY <1>4, <2>1 DEF ShownOnce, NoneTwice
  <2> QED
    BY <1>5, <2>2 DEF ShownOnce, NoneTwice
<1> QED
  BY <1>7, <1>8

\* Every step keeps both.
LEMMA OnceStep == IInv /\ PInv /\ Fresh /\ ShownOnce /\ [Next]_vars => (Fresh /\ ShownOnce)'
<1> SUFFICES ASSUME IInv, PInv, Fresh, ShownOnce, [Next]_vars PROVE Fresh' /\ ShownOnce'
  OBVIOUS
<1>0. /\ gateway \in [Attempts -> {"idle", "waiting", "pushing", "ok", "failed"}]
      /\ todo \in [Attempts -> SUBSET Conns]
  BY DEF IInv, StoreTypeOK, PInv, PushTypeOK
<1>1. ASSUME UNCHANGED inbox,
             \A a \in Attempts : /\ gateway'[a] \in {"idle", "waiting"} =>
                                       gateway[a] \in {"idle", "waiting"}
                                 /\ \/ todo'[a] \subseteq todo[a]
                                    \/ gateway[a] = "waiting"
      PROVE  Fresh' /\ ShownOnce'
  BY <1>1 DEF Fresh, ShownOnce, NoneTwice, Shown
<1>2. ASSUME UNCHANGED <<gateway, todo, inbox>> PROVE Fresh' /\ ShownOnce'
  BY <1>1, <1>2
<1>3. ASSUME NEW s \in Sessions, NEW ms \in SUBSET Users, CreateSession(s, ms)
      PROVE  Fresh' /\ ShownOnce'
  BY <1>2, <1>3 DEF CreateSession, sendVars
<1>4. ASSUME NEW a \in Attempts, NEW u \in Users, NEW s \in Sessions, SendMessage(a, u, s)
      PROVE  Fresh' /\ ShownOnce'
  BY <1>0, <1>1, <1>4 DEF SendMessage
<1>5. ASSUME NEW a \in Attempts, TransmitStep(a) PROVE Fresh' /\ ShownOnce'
  BY <1>2, <1>5 DEF TransmitStep, CheckMember, StoreCommits, StoreDropped, Stored,
                    MarkApplies, MarkDropped, MarkReturns, ListMembers, TransmitFails
<1>6. ASSUME NEW a \in Attempts, GatewayStep(a) PROVE Fresh' /\ ShownOnce'
  <2>1. CASE StartPush(a)
    BY <1>0, <1>1, <2>1 DEF StartPush
  <2>2. CASE SendFails(a) \/ Answer(a)
    BY <1>0, <1>1, <2>2 DEF SendFails, Answer
  <2>3. ASSUME NEW c \in Conns, PushFails(a, c) PROVE Fresh' /\ ShownOnce'
    BY <1>0, <1>1, <2>3 DEF PushFails
  <2> QED
    BY <1>6, <2>1, <2>2, <2>3, WriteOnce DEF GatewayStep
<1>7. ASSUME NEW c \in Conns, \/ \E u \in Users : Connect(c, u)
                              \/ SocketDies(c) \/ HandlerLeaves(c)
      PROVE  Fresh' /\ ShownOnce'
  BY <1>2, <1>7 DEF Connect, SocketDies, HandlerLeaves, sendVars
<1>8. CASE GatewayCrash
  BY <1>0, <1>1, <1>8 DEF GatewayCrash
<1>9. CASE UNCHANGED vars
  BY <1>2, <1>9 DEF vars, sendVars
<1> QED
  BY <1>3, <1>4, <1>5, <1>6, <1>7, <1>8, <1>9 DEF Next

\* An attempt is stored and shown at most once, also when it failed for the sender
\* and its store came late.
THEOREM NeverTwice == Spec => []AtMostOnce
<1>1. IInv /\ ShownOnce => AtMostOnce
  <2> SUFFICES ASSUME IInv, NEW s \in Sessions, NEW j \in DOMAIN log[s],
                      NEW k \in DOMAIN log[s], log[s][j] = log[s][k]
               PROVE  j = k
    BY DEF ShownOnce, AtMostOnce, NoneTwice
  <2>1. PICK a \in Attempts : a = log[s][j]
    BY DEF IInv, StoreTypeOK
  <2>2. store[a] = "done" /\ Room(a) = s
    BY <2>1 DEF IInv, StoredAt
  <2>3. j \in Positions(a) /\ k \in Positions(a)
    BY <2>1, <2>2 DEF Positions
  <2> QED
    BY <2>2, <2>3 DEF IInv, StoredAt
<1>2. IInv /\ PInv /\ Fresh /\ ShownOnce /\ [Next]_vars => (Fresh /\ ShownOnce)'
  BY OnceStep
<1> QED
  BY <1>1, <1>2, OnceInit, PushInductive, PTL DEF Spec

=============================================================================
