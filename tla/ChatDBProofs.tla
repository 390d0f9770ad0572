---------------------------- MODULE ChatDBProofs ----------------------------
(* TLAPS proofs about ChatDB: for any users, sessions and concurrent         *)
(* handlers.                                                                 *)
EXTENDS ChatDB, Sequences, TLAPS

\* What the row locks are for.  A StoreStringMessage transaction past its SELECT
\* owns the row of an existing session and is about to write the next number.
StorerOwnsRow == \A w \in Storers : store_pc[w] \in {"locked", "updated", "inserted"} =>
    LET s == draft[w].session_id IN
    /\ s \in chat_sessions
    /\ row_lock[s] = w
    /\ draft[w].session_seq = last_seq[s] + 1

\* A CreateGroupChatSession transaction past its first INSERT owns the row of a
\* session that does not exist yet.
CreatorOwnsRow == \A c \in Creators : create_pc[c] = "inserting" =>
    /\ group[c].session \notin chat_sessions
    /\ row_lock[group[c].session] = c

\* A session without a row is empty.
AbsentIsEmpty == \A s \in Sessions \ chat_sessions :
    /\ last_seq[s] = 0 /\ RowsOf(s) = {}
    /\ members[s] = {} /\ last_read_seq[s] = [u \in Users |-> 0]

\* The inductive invariant behind GapFree.
IInv == TypeOK /\ StorerOwnsRow /\ CreatorOwnsRow /\ AbsentIsEmpty /\ GapFree

-----------------------------------------------------------------------------
\* Type correctness.
LEMMA InitTypeOK == Init => TypeOK
BY HandlerAssumption DEF Init, TablesInit, StorageInit, ServiceInit, TypeOK,
   TablesTypeOK, StorageTypeOK, ServiceTypeOK, NoSnapshot, StorePCs, CreatePCs

\* Whatever the services do to the tables, their columns keep their types.
LEMMA UnlockedType ==
    ASSUME NEW h, TablesTypeOK
    PROVE  Unlocked(h) \in [Sessions -> Storers \cup Creators \cup {NoHandler}]
BY DEF Unlocked, TablesTypeOK

\* Every step of the message storage service keeps the types.
LEMMA StorageTypes ==
    ASSUME TypeOK, StorageNext, UNCHANGED serviceVars
    PROVE  TypeOK'
<1> USE DEF TypeOK, TablesTypeOK, StorageTypeOK, StorePCs, tables
<1>0. ServiceTypeOK'
  BY DEF ServiceTypeOK, serviceVars
<1>1. ASSUME NEW w \in Storers, NEW s \in Sessions, NEW u \in Users,
             StoreStringMessage(w, s, u)
      PROVE  TypeOK'
  <2>1. [message_id |-> clock, session_id |-> s, session_seq |-> 0,
         sender_id |-> u, created_at |-> 0] \in Row
    BY DEF Row
  <2> QED BY <1>0, <1>1, <2>1 DEF StoreStringMessage
<1>2. ASSUME NEW w \in Storers, SelectForUpdate(w) PROVE TypeOK'
  <2>1. draft[w] \in Row BY <1>2 DEF SelectForUpdate
  <2>2. [draft[w] EXCEPT !.session_seq = last_seq[draft[w].session_id] + 1,
                         !.created_at = clock] \in Row
    <3>1. draft[w].session_id \in Sessions BY <2>1 DEF Row
    <3>2. last_seq[draft[w].session_id] + 1 \in Nat /\ clock \in Nat BY <3>1
    <3> QED BY <2>1, <3>2 DEF Row
  <2> QED BY <1>0, <1>2, <2>1, <2>2 DEF SelectForUpdate
<1>3. ASSUME NEW w \in Storers, UpdateSession(w) PROVE TypeOK'
  BY <1>0, <1>3 DEF UpdateSession
<1>4. ASSUME NEW w \in Storers, InsertMessage(w) PROVE TypeOK'
  BY <1>0, <1>4 DEF InsertMessage
<1>5. ASSUME NEW w \in Storers, Commit(w) PROVE TypeOK'
  <2>1. draft[w] \in Row BY <1>5 DEF Commit
  <2>2. /\ draft[w].session_id \in Sessions
        /\ draft[w].session_seq \in Nat /\ draft[w].created_at \in Nat
    BY <2>1 DEF Row
  <2> QED BY <1>0, <1>5, <2>1, <2>2, UnlockedType DEF Commit
<1>6. ASSUME NEW w \in Storers, Rollback(w) PROVE TypeOK'
  BY <1>0, <1>6, UnlockedType DEF Rollback
<1>7. ASSUME NEW ids \in SnapshotRequests, BatchGetSessionSnapshots(ids)
      PROVE  TypeOK'
  BY <1>0, <1>7, SnapshotAssumption DEF BatchGetSessionSnapshots, NoSnapshot
<1>8. ASSUME NEW s \in Sessions, SnapshotLastMessage(s) PROVE TypeOK'
  <2>1. GetSessionLastMessage(s) \in SUBSET Row
    BY DEF GetSessionLastMessage, RowsOf
  <2> QED BY <1>0, <1>8, <2>1 DEF SnapshotLastMessage
<1>9. ASSUME SnapshotFails PROVE TypeOK'
  BY <1>0, <1>9 DEF SnapshotFails, NoSnapshot
<1> QED BY <1>1, <1>2, <1>3, <1>4, <1>5, <1>6, <1>7, <1>8, <1>9
        DEF StorageNext, StoreStep, SessionMissing, InsertRejected, StoreFails

\* So does every step of the chat service.
LEMMA ServiceTypes ==
    ASSUME TypeOK, ServiceNext, UNCHANGED storageVars
    PROVE  TypeOK'
<1> USE DEF TypeOK, TablesTypeOK, ServiceTypeOK, CreatePCs, tables
<1>0. StorageTypeOK'
  BY DEF StorageTypeOK, storageVars
<1>1. ASSUME NEW c \in Creators, NEW s \in Sessions, NEW u \in Users,
             NEW ids \in SUBSET Users, CreateGroupChatSession(c, s, u, ids)
      PROVE  TypeOK'
  <2>1. [session |-> s, members |-> {u} \cup ids, left |-> {u} \cup ids] \in GroupDraft
    BY DEF GroupDraft
  <2> QED BY <1>0, <1>1, <2>1 DEF CreateGroupChatSession, normalizeMemberIDs
<1>2. ASSUME NEW c \in Creators, InsertSession(c) PROVE TypeOK'
  BY <1>0, <1>2 DEF InsertSession
<1>3. ASSUME NEW c \in Creators, NEW u \in Users, InsertMember(c, u) PROVE TypeOK'
  <2>1. group[c] \in GroupDraft BY <1>3 DEF InsertMember
  <2>2. [group[c] EXCEPT !.left = @ \ {u}] \in GroupDraft BY <2>1 DEF GroupDraft
  <2> QED BY <1>0, <1>3, <2>2 DEF InsertMember
<1>4. ASSUME NEW c \in Creators, CommitGroup(c) PROVE TypeOK'
  <2>1. group[c] \in GroupDraft BY <1>4 DEF CommitGroup
  <2>2. group[c].session \in Sessions /\ group[c].members \in SUBSET Users
    BY <2>1 DEF GroupDraft
  <2>3. [u \in Users |-> 0] \in [Users -> Nat] OBVIOUS
  <2> QED BY <1>0, <1>4, <2>2, <2>3, UnlockedType DEF CommitGroup
<1>5. ASSUME NEW c \in Creators, ReplyGroup(c) PROVE TypeOK'
  <2>1. group[c] \in GroupDraft BY <1>5 DEF ReplyGroup
  <2>2. [session |-> group[c].session, members |-> group[c].members,
         returned |-> members[group[c].session]] \in Group
    BY <2>1 DEF GroupDraft, Group
  <2> QED BY <1>0, <1>5, <2>2 DEF ReplyGroup
<1>6. ASSUME NEW c \in Creators, CreateFails(c) PROVE TypeOK'
  BY <1>0, <1>6, UnlockedType DEF CreateFails
<1>7. ASSUME NEW s \in Sessions, NEW u \in Users, NEW q \in ReadSeqs,
             MarkSessionRead(s, u, q)
      PROVE  TypeOK'
  <2>1. q \in Nat BY ReadSeqsAssumption
  <2>2. last_read_seq' \in [Sessions -> [Users -> Nat]]
    BY <1>7, <2>1 DEF MarkSessionRead
  <2>3. mark_reply' \subseteq MarkReply
    BY <1>7, <2>1 DEF MarkSessionRead, MarkReply
  <2> QED BY <1>0, <1>7, <2>2, <2>3 DEF MarkSessionRead
<1> QED BY <1>1, <1>2, <1>3, <1>4, <1>5, <1>6, <1>7
        DEF ServiceNext, CreateStep, InsertSessionRejected

\* So does the passing of time.
LEMMA TickTypes == TypeOK /\ Tick => TypeOK'
BY ClockAssumption DEF Tick, TypeOK, TablesTypeOK, StorageTypeOK, ServiceTypeOK,
   tables, storageVars, serviceVars

\* And a step that changes nothing.
LEMMA StutterTypes == TypeOK /\ UNCHANGED vars => TypeOK'
BY DEF vars, TypeOK, TablesTypeOK, StorageTypeOK, ServiceTypeOK,
   tables, storageVars, serviceVars

\* Every reachable state is well typed.
THEOREM TypeCorrect == Spec => []TypeOK
<1>1. TypeOK /\ [Next]_vars => TypeOK'
  BY StorageTypes, ServiceTypes, TickTypes, StutterTypes DEF Next
<1> QED BY InitTypeOK, <1>1, PTL DEF Spec

-----------------------------------------------------------------------------
\* The numbering of the messages.
LEMMA InitIInv == Init => IInv
<1>1. SUFFICES ASSUME Init PROVE IInv OBVIOUS
<1>2. TypeOK BY <1>1, InitTypeOK
<1>3. StorerOwnsRow /\ CreatorOwnsRow
  BY <1>1 DEF Init, StorageInit, ServiceInit, StorerOwnsRow, CreatorOwnsRow
<1>4. AbsentIsEmpty
  BY <1>1 DEF Init, TablesInit, AbsentIsEmpty, RowsOf
<1>5. GapFree
  BY <1>1 DEF Init, TablesInit, GapFree, RowsOf
<1> QED BY <1>2, <1>3, <1>4, <1>5 DEF IInv

\* A step that leaves the tables alone keeps what is said of the tables only.
LEMMA TablesAlone ==
    ASSUME IInv, UNCHANGED tables
    PROVE  AbsentIsEmpty' /\ GapFree'
BY DEF IInv, tables, AbsentIsEmpty, GapFree, RowsOf

\* A transaction that ends gives back its own rows and nobody else's.
LEMMA StorerUnlocks ==
    ASSUME IInv, NEW w \in Storers, row_lock' = Unlocked(w),
           store_pc' = [store_pc EXCEPT ![w] = "idle"],
           draft' = [draft EXCEPT ![w] = NoDraft],
           UNCHANGED <<chat_sessions, create_pc, group>>,
           \A v \in Storers \ {w} : store_pc[v] \in {"locked", "updated", "inserted"} =>
               last_seq'[draft[v].session_id] = last_seq[draft[v].session_id]
    PROVE  StorerOwnsRow' /\ CreatorOwnsRow'
<1> USE DEF IInv, TypeOK, TablesTypeOK, StorageTypeOK, ServiceTypeOK, Unlocked
<1>1. StorerOwnsRow'
  <2>1. SUFFICES ASSUME NEW v \in Storers,
                        store_pc'[v] \in {"locked", "updated", "inserted"}
                 PROVE  /\ draft'[v].session_id \in chat_sessions'
                        /\ row_lock'[draft'[v].session_id] = v
                        /\ draft'[v].session_seq = last_seq'[draft'[v].session_id] + 1
    BY DEF StorerOwnsRow
  <2>2. v # w /\ draft'[v] = draft[v] /\ store_pc'[v] = store_pc[v]
    BY <2>1
  <2> QED BY <2>1, <2>2 DEF StorerOwnsRow
<1>2. CreatorOwnsRow'
  <2>1. SUFFICES ASSUME NEW c \in Creators, create_pc[c] = "inserting"
                 PROVE  row_lock'[group[c].session] = c
    BY DEF CreatorOwnsRow
  <2>2. group[c].session \in Sessions BY <2>1 DEF GroupDraft
  <2>3. row_lock[group[c].session] = c BY <2>1 DEF CreatorOwnsRow
  <2> QED BY <2>2, <2>3, HandlerAssumption
<1> QED BY <1>1, <1>2

\* The commit of the row numbered last_seq + 1 extends the numbering by one.
LEMMA CommitGapFree ==
    ASSUME IInv, NEW w \in Storers, Commit(w)
    PROVE  GapFree'
<1> DEFINE r == draft[w]
           s == r.session_id
<1>1. r \in Row /\ s \in Sessions
  BY DEF IInv, TypeOK, StorageTypeOK, Commit, Row
<1>2. s \in chat_sessions /\ r.session_seq = last_seq[s] + 1
  BY DEF IInv, StorerOwnsRow, Commit
<1>3. messages' = messages \cup {r} /\ last_seq' = [last_seq EXCEPT ![s] = r.session_seq]
  BY DEF Commit
<1>4. last_seq \in [Sessions -> Nat] /\ messages \subseteq Row
  BY DEF IInv, TypeOK, TablesTypeOK
<1>5. SUFFICES ASSUME NEW t \in Sessions
               PROVE  /\ \A q \in RowsOf(t)' : q.session_seq \in 1..last_seq'[t]
                      /\ \A k \in 1..last_seq'[t] : \E q \in RowsOf(t)' : q.session_seq = k
                      /\ \A p, q \in RowsOf(t)' : p.session_seq = q.session_seq => p = q
  BY DEF GapFree
<1>6. /\ \A q \in RowsOf(t) : q.session_seq \in 1..last_seq[t]
      /\ \A k \in 1..last_seq[t] : \E q \in RowsOf(t) : q.session_seq = k
      /\ \A p, q \in RowsOf(t) : p.session_seq = q.session_seq => p = q
  BY DEF IInv, GapFree
<1>7. CASE t # s
  <2>1. RowsOf(t)' = RowsOf(t) /\ last_seq'[t] = last_seq[t]
    BY <1>3, <1>4, <1>7 DEF RowsOf
  <2> QED BY <1>6, <2>1
<1>8. CASE t = s
  <2>1. RowsOf(t)' = RowsOf(t) \cup {r} /\ last_seq'[t] = last_seq[t] + 1
    BY <1>1, <1>2, <1>3, <1>4, <1>8 DEF RowsOf
  <2>2. last_seq[t] \in Nat /\ r.session_seq = last_seq[t] + 1
    BY <1>2, <1>4, <1>8
  <2>3. \A q \in RowsOf(t)' : q.session_seq \in 1..last_seq'[t]
    BY <1>6, <2>1, <2>2
  <2>4. \A k \in 1..last_seq'[t] : \E q \in RowsOf(t)' : q.session_seq = k
    BY <1>6, <2>1, <2>2
  <2>5. \A p, q \in RowsOf(t)' : p.session_seq = q.session_seq => p = q
    BY <1>6, <2>1, <2>2
  <2> QED BY <2>3, <2>4, <2>5
<1> QED BY <1>7, <1>8

\* Every step of the message storage service keeps the invariant.
LEMMA StorageKeepsIInv ==
    ASSUME IInv, StorageNext, UNCHANGED serviceVars
    PROVE  IInv'
<1> USE DEF IInv
<1>0. TypeOK' /\ UNCHANGED <<create_pc, group>>
  BY StorageTypes DEF serviceVars
<1> DEFINE Owned == StorerOwnsRow' /\ CreatorOwnsRow'
<1>1. ASSUME NEW w \in Storers, NEW s \in Sessions, NEW u \in Users,
             StoreStringMessage(w, s, u)
      PROVE  IInv'
  <2>1. Owned
    BY <1>0, <1>1 DEF StoreStringMessage, StorerOwnsRow, CreatorOwnsRow, tables,
       TypeOK, StorageTypeOK
  <2> QED BY <1>0, <1>1, <2>1, TablesAlone DEF StoreStringMessage
<1>2. ASSUME NEW w \in Storers, SelectForUpdate(w) PROVE IInv'
  <2>1. draft[w] \in Row /\ draft[w].session_id \in Sessions
    BY <1>2 DEF SelectForUpdate, TypeOK, StorageTypeOK, Row
  <2>2. StorerOwnsRow'
    <3>1. SUFFICES ASSUME NEW v \in Storers,
                          store_pc'[v] \in {"locked", "updated", "inserted"}
                   PROVE  /\ draft'[v].session_id \in chat_sessions
                          /\ row_lock'[draft'[v].session_id] = v
                          /\ draft'[v].session_seq = last_seq[draft'[v].session_id] + 1
      BY <1>2 DEF StorerOwnsRow, SelectForUpdate, tables
    <3>2. CASE v = w
      <4>1. draft'[w] = [draft[w] EXCEPT !.session_seq = last_seq[draft[w].session_id] + 1,
                                         !.created_at = clock]
        BY <1>2 DEF SelectForUpdate, TypeOK, StorageTypeOK
      <4>2. draft'[w].session_id = draft[w].session_id
        BY <2>1, <4>1 DEF Row
      <4>3. draft'[w].session_seq = last_seq[draft[w].session_id] + 1
        BY <2>1, <4>1 DEF Row
      <4> QED BY <1>2, <2>1, <3>2, <4>2, <4>3 DEF SelectForUpdate, TypeOK, TablesTypeOK
    <3>3. CASE v # w
      <4>1. draft'[v] = draft[v] /\ store_pc'[v] = store_pc[v]
        BY <1>2, <3>3 DEF SelectForUpdate, TypeOK, StorageTypeOK
      <4>2. row_lock[draft[v].session_id] = v /\ draft[v].session_id \in Sessions
        BY <3>1, <4>1 DEF StorerOwnsRow, TypeOK, TablesTypeOK
      <4>3. row_lock'[draft[v].session_id] = v
        BY <1>2, <4>2, HandlerAssumption DEF SelectForUpdate, TypeOK, TablesTypeOK
      <4> QED BY <3>1, <4>1, <4>3 DEF StorerOwnsRow
    <3> QED BY <3>2, <3>3
  <2>3. CreatorOwnsRow'
    BY <1>0, <1>2, HandlerAssumption DEF SelectForUpdate, CreatorOwnsRow, tables,
       TypeOK, TablesTypeOK
  <2> QED BY <1>0, <1>2, <2>2, <2>3, TablesAlone DEF SelectForUpdate
<1>3. ASSUME NEW w \in Storers, UpdateSession(w) PROVE IInv'
  <2>1. row_lock' = row_lock
    BY <1>3 DEF UpdateSession, StorerOwnsRow, TypeOK, TablesTypeOK
  <2>2. Owned
    BY <1>0, <1>3, <2>1 DEF UpdateSession, StorerOwnsRow, CreatorOwnsRow, tables,
       TypeOK, StorageTypeOK
  <2> QED BY <1>0, <1>3, <2>2, TablesAlone DEF UpdateSession
<1>4. ASSUME NEW w \in Storers, InsertMessage(w) PROVE IInv'
  <2>1. Owned
    BY <1>0, <1>4 DEF InsertMessage, StorerOwnsRow, CreatorOwnsRow, tables,
       TypeOK, StorageTypeOK
  <2> QED BY <1>0, <1>4, <2>1, TablesAlone DEF InsertMessage
<1>5. ASSUME NEW w \in Storers, Commit(w) PROVE IInv'
  <2>1. draft[w] \in Row /\ draft[w].session_id \in chat_sessions
    BY <1>5 DEF Commit, StorerOwnsRow, TypeOK, StorageTypeOK
  <2>2. \A v \in Storers \ {w} : store_pc[v] \in {"locked", "updated", "inserted"} =>
            last_seq'[draft[v].session_id] = last_seq[draft[v].session_id]
    BY <1>5 DEF Commit, StorerOwnsRow, TypeOK, TablesTypeOK
  <2>3. Owned
    BY <1>0, <1>5, <2>2, StorerUnlocks DEF Commit
  <2>4. AbsentIsEmpty'
    BY <1>5, <2>1 DEF Commit, AbsentIsEmpty, RowsOf, TypeOK, TablesTypeOK
  <2> QED BY <1>0, <1>5, <2>3, <2>4, CommitGapFree
<1>6. ASSUME NEW w \in Storers, Rollback(w) PROVE IInv'
  <2>1. Owned
    BY <1>0, <1>6, StorerUnlocks DEF Rollback, tables
  <2> QED BY <1>0, <1>6, <2>1, TablesAlone DEF Rollback
<1>7. ASSUME UNCHANGED <<tables, row_lock, store_pc, draft>> PROVE IInv'
  BY <1>0, <1>7, TablesAlone DEF StorerOwnsRow, CreatorOwnsRow, tables
<1> QED BY <1>1, <1>2, <1>3, <1>4, <1>5, <1>6, <1>7
        DEF StorageNext, StoreStep, SessionMissing, InsertRejected, StoreFails,
            BatchGetSessionSnapshots, SnapshotLastMessage, SnapshotFails

\* Every step of the chat service keeps the invariant.
LEMMA ServiceKeepsIInv ==
    ASSUME IInv, ServiceNext, UNCHANGED storageVars
    PROVE  IInv'
<1> USE DEF IInv
<1>0. TypeOK' /\ UNCHANGED <<store_pc, draft>>
  BY ServiceTypes DEF storageVars
<1> DEFINE Owned == StorerOwnsRow' /\ CreatorOwnsRow'
<1>1. ASSUME NEW c \in Creators, NEW s \in Sessions, NEW u \in Users,
             NEW ids \in SUBSET Users, CreateGroupChatSession(c, s, u, ids)
      PROVE  IInv'
  <2>1. Owned
    BY <1>0, <1>1 DEF CreateGroupChatSession, StorerOwnsRow, CreatorOwnsRow, tables,
       TypeOK, ServiceTypeOK
  <2> QED BY <1>0, <1>1, <2>1, TablesAlone DEF CreateGroupChatSession
<1>2. ASSUME NEW c \in Creators, InsertSession(c) PROVE IInv'
  <2>1. group[c].session \in Sessions
    BY <1>2 DEF InsertSession, TypeOK, ServiceTypeOK, GroupDraft
  <2>2. StorerOwnsRow'
    BY <1>0, <1>2, <2>1, HandlerAssumption DEF InsertSession, StorerOwnsRow, tables,
       TypeOK, TablesTypeOK
  <2>3. CreatorOwnsRow'
    <3>1. SUFFICES ASSUME NEW d \in Creators, create_pc'[d] = "inserting"
                   PROVE  /\ group[d].session \notin chat_sessions
                          /\ row_lock'[group[d].session] = d
      BY <1>2 DEF InsertSession, CreatorOwnsRow, tables
    <3>2. CASE d = c
      BY <1>2, <2>1, <3>2 DEF InsertSession, TypeOK, TablesTypeOK
    <3>3. CASE d # c
      <4>1. create_pc[d] = "inserting"
        BY <1>2, <3>1, <3>3 DEF InsertSession, TypeOK, ServiceTypeOK
      <4>2. group[d].session \in Sessions
        BY <4>1 DEF TypeOK, ServiceTypeOK, GroupDraft
      <4> QED BY <1>2, <4>1, <4>2, HandlerAssumption
              DEF InsertSession, CreatorOwnsRow, TypeOK, TablesTypeOK
    <3> QED BY <3>2, <3>3
  <2> QED BY <1>0, <1>2, <2>2, <2>3, TablesAlone DEF InsertSession
<1>3. ASSUME NEW c \in Creators, NEW u \in Users, InsertMember(c, u) PROVE IInv'
  <2>1. group[c] \in GroupDraft
    BY <1>3 DEF InsertMember, TypeOK, ServiceTypeOK
  <2>2. group' = [group EXCEPT ![c] = [group[c] EXCEPT !.left = @ \ {u}]]
    BY <1>3 DEF InsertMember
  <2>3. \A d \in Creators : create_pc[d] = "inserting" =>
            group'[d].session = group[d].session
    BY <2>1, <2>2 DEF TypeOK, ServiceTypeOK, GroupDraft
  <2>4. Owned
    BY <1>0, <1>3, <2>3 DEF InsertMember, StorerOwnsRow, CreatorOwnsRow, tables
  <2> QED BY <1>0, <1>3, <2>4, TablesAlone DEF InsertMember
<1>4. ASSUME NEW c \in Creators, CommitGroup(c) PROVE IInv'
  <2> DEFINE s == group[c].session
  <2>1. s \in Sessions /\ s \notin chat_sessions /\ row_lock[s] = c
    BY <1>4 DEF CommitGroup, CreatorOwnsRow, TypeOK, ServiceTypeOK, GroupDraft
  <2>2. last_seq' = last_seq
    BY <1>4, <2>1 DEF CommitGroup, AbsentIsEmpty, TypeOK, TablesTypeOK
  <2>3. StorerOwnsRow'
    BY <1>0, <1>4, <2>1, <2>2, HandlerAssumption DEF CommitGroup, StorerOwnsRow,
       Unlocked, TypeOK, TablesTypeOK
  <2>4. CreatorOwnsRow'
    <3>1. SUFFICES ASSUME NEW d \in Creators, create_pc'[d] = "inserting"
                   PROVE  /\ group[d].session \notin chat_sessions'
                          /\ row_lock'[group[d].session] = d
      BY <1>4 DEF CommitGroup, CreatorOwnsRow
    <3>2. d # c /\ create_pc[d] = "inserting"
      BY <1>4, <3>1 DEF CommitGroup, TypeOK, ServiceTypeOK
    <3>3. group[d].session \in Sessions
      BY <3>2 DEF TypeOK, ServiceTypeOK, GroupDraft
    <3>4. row_lock[group[d].session] = d /\ group[d].session \notin chat_sessions
      BY <3>2 DEF CreatorOwnsRow
    <3> QED BY <1>4, <2>1, <3>2, <3>3, <3>4 DEF CommitGroup, Unlocked
  <2>5. AbsentIsEmpty'
    BY <1>4, <2>1, <2>2 DEF CommitGroup, AbsentIsEmpty, RowsOf, TypeOK, TablesTypeOK
  <2>6. GapFree'
    BY <1>4, <2>2 DEF CommitGroup, GapFree, RowsOf
  <2> QED BY <1>0, <2>3, <2>4, <2>5, <2>6
<1>5. ASSUME NEW c \in Creators, ReplyGroup(c) PROVE IInv'
  <2>1. Owned
    BY <1>0, <1>5 DEF ReplyGroup, StorerOwnsRow, CreatorOwnsRow, tables,
       TypeOK, ServiceTypeOK
  <2> QED BY <1>0, <1>5, <2>1, TablesAlone DEF ReplyGroup
<1>6. ASSUME NEW c \in Creators, CreateFails(c) PROVE IInv'
  <2>1. StorerOwnsRow'
    BY <1>0, <1>6, HandlerAssumption DEF CreateFails, StorerOwnsRow, Unlocked, tables,
       TypeOK, TablesTypeOK
  <2>2. CreatorOwnsRow'
    BY <1>0, <1>6 DEF CreateFails, CreatorOwnsRow, Unlocked, tables, TypeOK,
       TablesTypeOK, ServiceTypeOK, GroupDraft
  <2> QED BY <1>0, <1>6, <2>1, <2>2, TablesAlone DEF CreateFails
<1>7. ASSUME NEW s \in Sessions, NEW u \in Users, NEW q \in ReadSeqs,
             MarkSessionRead(s, u, q)
      PROVE  IInv'
  BY <1>0, <1>7 DEF MarkSessionRead, StorerOwnsRow, CreatorOwnsRow, AbsentIsEmpty,
     GapFree, RowsOf
<1> QED BY <1>1, <1>2, <1>3, <1>4, <1>5, <1>6, <1>7
        DEF ServiceNext, CreateStep, InsertSessionRejected

\* Time and steps that change nothing keep the inductive invariant.
LEMMA RestKeepsIInv == IInv /\ (Tick \/ UNCHANGED vars) => IInv'
<1>1. ASSUME IInv, Tick \/ UNCHANGED vars PROVE IInv'
  <2>1. TypeOK' /\ UNCHANGED <<tables, row_lock, store_pc, draft, create_pc, group>>
    BY <1>1, TickTypes, StutterTypes
       DEF IInv, Tick, vars, storageVars, serviceVars
  <2> QED BY <1>1, <2>1, TablesAlone
          DEF IInv, StorerOwnsRow, CreatorOwnsRow, tables
<1> QED BY <1>1

\* The invariant holds in every reachable state.
THEOREM Inductive == Spec => []IInv
<1>1. IInv /\ [Next]_vars => IInv'
  BY StorageKeepsIInv, ServiceKeepsIInv, RestKeepsIInv DEF Next
<1> QED BY InitIInv, <1>1, PTL DEF Spec

\* Repository.StoreStringMessage numbers the messages of every session
\* 1..last_seq without gap or repetition, however many handlers run at once.
THEOREM GapFreeNumbering == Spec => []GapFree
<1>1. IInv => GapFree BY DEF IInv
<1> QED BY Inductive, <1>1, PTL

\* While StoreStringMessage writes a (session_id, session_seq), no row and no
\* other transaction has it: the unique index never has to reject an insert.
THEOREM NoSeqContention == Spec => []SeqUncontended
<1>1. ASSUME IInv PROVE SeqUncontended
  <2>1. SUFFICES ASSUME NEW w \in Storers,
                        store_pc[w] \in {"locked", "updated", "inserted"}
                 PROVE  /\ \A r \in messages : ~ (/\ r.session_id = draft[w].session_id
                                                  /\ r.session_seq = draft[w].session_seq)
                        /\ \A v \in Storers \ {w} :
                              store_pc[v] \in {"locked", "updated", "inserted"} =>
                                  ~ (/\ draft[v].session_id = draft[w].session_id
                                     /\ draft[v].session_seq = draft[w].session_seq)
    BY DEF SeqUncontended
  <2>2. /\ draft[w].session_id \in Sessions
        /\ row_lock[draft[w].session_id] = w
        /\ draft[w].session_seq = last_seq[draft[w].session_id] + 1
    BY <1>1, <2>1 DEF IInv, StorerOwnsRow, TypeOK, TablesTypeOK
  <2>3. \A r \in RowsOf(draft[w].session_id) :
            r.session_seq \in 1..last_seq[draft[w].session_id]
    BY <1>1, <2>2 DEF IInv, GapFree
  <2>4. last_seq[draft[w].session_id] \in Nat
    BY <1>1, <2>2 DEF IInv, TypeOK, TablesTypeOK
  <2>5. \A r \in messages : ~ (/\ r.session_id = draft[w].session_id
                               /\ r.session_seq = draft[w].session_seq)
    BY <2>2, <2>3, <2>4 DEF RowsOf
  <2>6. ASSUME NEW v \in Storers \ {w},
               store_pc[v] \in {"locked", "updated", "inserted"}
        PROVE  draft[v].session_id # draft[w].session_id
    BY <1>1, <2>2, <2>6 DEF IInv, StorerOwnsRow
  <2> QED BY <2>5, <2>6
<1> QED BY Inductive, <1>1, PTL

-----------------------------------------------------------------------------
\* The tables implement the logs.

\* The membership a group is created with has its creator.
GroupsHaveMembers == \A c \in Creators : create_pc[c] # "idle" => group[c].members # {}

\* normalizeMemberIDs puts the creator in, and nothing takes a member out.
LEMMA GroupsHaveMembersStep ==
    ASSUME TypeOK, GroupsHaveMembers, [Next]_vars
    PROVE  GroupsHaveMembers'
<1> USE DEF GroupsHaveMembers, TypeOK, ServiceTypeOK
<1>1. CASE UNCHANGED serviceVars
  BY <1>1 DEF serviceVars
<1>2. CASE ServiceNext
  <2>1. ASSUME NEW c \in Creators, NEW s \in Sessions, NEW u \in Users,
               NEW ids \in SUBSET Users, CreateGroupChatSession(c, s, u, ids)
        PROVE  GroupsHaveMembers'
    BY <2>1 DEF CreateGroupChatSession, normalizeMemberIDs
  <2>2. ASSUME NEW c \in Creators, NEW u \in Users, InsertMember(c, u)
        PROVE  GroupsHaveMembers'
    <3>1. group[c] \in GroupDraft
      BY <2>2 DEF InsertMember
    <3>2. group' = [group EXCEPT ![c] = [group[c] EXCEPT !.left = @ \ {u}]]
      BY <2>2 DEF InsertMember
    <3>3. \A d \in Creators : create_pc[d] # "idle" => group'[d].members = group[d].members
      BY <3>1, <3>2 DEF GroupDraft
    <3> QED BY <2>2, <3>3 DEF InsertMember
  <2>3. ASSUME NEW c \in Creators,
               InsertSession(c) \/ CommitGroup(c) \/ ReplyGroup(c) \/ CreateFails(c)
        PROVE  GroupsHaveMembers'
    BY <2>3 DEF InsertSession, CommitGroup, ReplyGroup, CreateFails
  <2>4. ASSUME NEW s \in Sessions, NEW u \in Users, NEW q \in ReadSeqs,
               MarkSessionRead(s, u, q)
        PROVE  GroupsHaveMembers'
    BY <2>4 DEF MarkSessionRead
  <2> QED BY <1>2, <2>1, <2>2, <2>3, <2>4
          DEF ServiceNext, CreateStep, InsertSessionRejected
<1> QED BY <1>1, <1>2 DEF Next, Tick, vars

\* Appending the row numbered last_seq + 1 appends its sender to the log.
LEMMA CommitAppends ==
    ASSUME IInv, NEW w \in Storers, Commit(w)
    PROVE  LogOf' = [LogOf EXCEPT ![draft[w].session_id] =
                                      Append(@, draft[w].sender_id)]
<1>0. draft[w] \in Row /\ draft[w].session_id \in Sessions
  BY DEF IInv, TypeOK, StorageTypeOK, Commit, Row
<1> PICK r \in Row : r = draft[w]
  BY <1>0
<1> PICK s \in Sessions : s = r.session_id
  BY <1>0
<1> PICK n \in Nat : n = last_seq[s]
  BY DEF IInv, TypeOK, TablesTypeOK
<1>1. last_seq \in [Sessions -> Nat]
  BY DEF IInv, TypeOK, TablesTypeOK
<1>2. r.session_seq = n + 1
  BY DEF IInv, StorerOwnsRow, Commit
<1>3. messages' = messages \cup {r} /\ last_seq' = [last_seq EXCEPT ![s] = n + 1]
  BY <1>2 DEF Commit
<1>4. last_seq'[s] = n + 1 /\ \A t \in Sessions \ {s} : last_seq'[t] = last_seq[t]
  BY <1>1, <1>3
<1>5. GapFree /\ GapFree'
  BY CommitGapFree DEF IInv
<1>6. ASSUME NEW t \in Sessions, NEW k \in 1..last_seq[t]
      PROVE  SenderAt(t, k)' = SenderAt(t, k)
  <2>1. PICK q \in RowsOf(t) : q.session_seq = k
    BY <1>5 DEF GapFree
  <2>2. q \in RowsOf(t)'
    BY <1>3, <2>1 DEF RowsOf
  <2>3. \A p \in RowsOf(t) : p.session_seq = k => p = q
    BY <1>5, <2>1 DEF GapFree
  <2>4. \A p \in RowsOf(t)' : p.session_seq = k => p = q
    BY <1>5, <2>1, <2>2 DEF GapFree
  <2>5. SenderAt(t, k) = q.sender_id
    BY <2>1, <2>3 DEF SenderAt
  <2>6. SenderAt(t, k)' = q.sender_id
    BY <2>1, <2>2, <2>4 DEF SenderAt
  <2> QED BY <2>5, <2>6
<1>7. SenderAt(s, n + 1)' = r.sender_id
  <2>1. r \in RowsOf(s)'
    BY <1>3 DEF RowsOf
  <2>2. \A p \in RowsOf(s)' : p.session_seq = n + 1 => p = r
    BY <1>2, <1>5, <2>1 DEF GapFree
  <2> QED BY <1>2, <2>1, <2>2 DEF SenderAt
<1>8. ASSUME NEW t \in Sessions \ {s} PROVE LogOf'[t] = LogOf[t]
  <2>1. LogOf'[t] = [k \in 1..last_seq[t] |-> SenderAt(t, k)']
    BY <1>4 DEF LogOf
  <2> QED BY <1>6, <2>1 DEF LogOf
<1>9. LogOf'[s] = Append(LogOf[s], r.sender_id)
  <2> DEFINE old == [k \in 1..n |-> SenderAt(s, k)]
  <2>1. LogOf[s] = old /\ DOMAIN old = 1..n
    BY DEF LogOf
  <2>2. Len(old) = n
    BY <2>1
  <2>3. Append(old, r.sender_id) = [k \in 1..(n + 1) |-> IF k = n + 1 THEN r.sender_id
                                                                   ELSE old[k]]
    BY <2>2
  <2>4. LogOf'[s] = [k \in 1..(n + 1) |-> SenderAt(s, k)']
    BY <1>4 DEF LogOf
  <2>5. \A k \in 1..(n + 1) : SenderAt(s, k)' = IF k = n + 1 THEN r.sender_id ELSE old[k]
    BY <1>6, <1>7
  <2>6. [k \in 1..(n + 1) |-> SenderAt(s, k)']
            = [k \in 1..(n + 1) |-> IF k = n + 1 THEN r.sender_id ELSE old[k]]
    BY <2>5
  <2> HIDE DEF old
  <2> QED BY <2>1, <2>3, <2>4, <2>6
<1> QED BY <1>8, <1>9 DEF LogOf

\* A step that leaves messages and last_seq alone leaves the logs alone.
LEMMA SameLogs == UNCHANGED <<messages, last_seq>> => LogOf' = LogOf
BY DEF LogOf, SenderAt, RowsOf

\* Every step of the services is a step of the logs or none at all.
LEMMA StepSimulates ==
    ASSUME IInv, GroupsHaveMembers, [Next]_vars
    PROVE  [Log!LogNext]_(Log!logVars)
<1> USE DEF Log!logVars, Log!LogNext
<1>1. ASSUME NEW w \in Storers, Commit(w), UNCHANGED serviceVars
      PROVE  Log!LogNext
  <2>1. draft[w] \in Row BY <1>1 DEF Commit, IInv, TypeOK, StorageTypeOK
  <2>2. draft[w].session_id \in Sessions /\ draft[w].sender_id \in Users
    BY <2>1 DEF Row
  <2>3. Log!Post(draft[w].session_id, draft[w].sender_id)
    BY <1>1, CommitAppends DEF Log!Post, Commit, IInv, StorerOwnsRow
  <2> QED BY <2>2, <2>3
<1>2. ASSUME NEW c \in Creators, CommitGroup(c), UNCHANGED storageVars
      PROVE  Log!LogNext
  <2> DEFINE s == group[c].session
  <2>1. group[c] \in GroupDraft
    BY <1>2 DEF CommitGroup, IInv, TypeOK, ServiceTypeOK
  <2>2. s \in Sessions /\ group[c].members \in SUBSET Users /\ group[c].members # {}
    BY <1>2, <2>1 DEF GroupDraft, CommitGroup, GroupsHaveMembers
  <2>3. s \notin chat_sessions
    BY <1>2 DEF CommitGroup, IInv, CreatorOwnsRow
  <2>4. last_seq' = last_seq
    BY <1>2, <2>2, <2>3 DEF CommitGroup, IInv, AbsentIsEmpty, TypeOK, TablesTypeOK
  <2>5. LogOf' = LogOf
    BY <1>2, <2>4, SameLogs DEF CommitGroup
  <2>6. last_read_seq' = last_read_seq
    BY <1>2, <2>2, <2>3 DEF CommitGroup, IInv, AbsentIsEmpty, TypeOK, TablesTypeOK
  <2> QED BY <1>2, <2>2, <2>3, <2>5, <2>6 DEF Log!Create, CommitGroup
<1>3. ASSUME NEW s \in Sessions, NEW u \in Users, NEW q \in ReadSeqs,
             MarkSessionRead(s, u, q)
      PROVE  [Log!LogNext]_(Log!logVars)
  <2>1. LogOf' = LogOf BY <1>3, SameLogs DEF MarkSessionRead
  <2> QED BY <1>3, <2>1 DEF Log!Read, MarkSessionRead
<1>4. ASSUME UNCHANGED tables PROVE UNCHANGED Log!logVars
  BY <1>4, SameLogs DEF tables
<1>5. CASE StorageNext /\ UNCHANGED serviceVars
  <2>1. \/ \E w \in Storers : Commit(w)
        \/ UNCHANGED tables
    BY <1>5 DEF StorageNext, StoreStep, StoreStringMessage, SelectForUpdate,
       UpdateSession, InsertMessage, SessionMissing, InsertRejected, StoreFails,
       Rollback, BatchGetSessionSnapshots, SnapshotLastMessage, SnapshotFails
  <2> QED BY <1>1, <1>4, <1>5, <2>1
<1>6. CASE ServiceNext /\ UNCHANGED storageVars
  <2>1. \/ \E c \in Creators : CommitGroup(c)
        \/ \E s \in Sessions, u \in Users, q \in ReadSeqs : MarkSessionRead(s, u, q)
        \/ UNCHANGED tables
    BY <1>6 DEF ServiceNext, CreateStep, CreateGroupChatSession, InsertSession,
       InsertSessionRejected, InsertMember, ReplyGroup, CreateFails
  <2> QED BY <1>2, <1>3, <1>4, <1>6, <2>1
<1> QED BY <1>4, <1>5, <1>6 DEF Next, Tick, vars

\* The two services on one database implement the append-only logs of MessageLog.
THEOREM Refinement == Spec => ImplementsLog
<1>1. Init => Log!LogInit
  <2>1. Init => LogOf = [s \in Sessions |-> << >>]
    BY DEF Init, TablesInit, LogOf
  <2> QED BY <2>1 DEF Init, TablesInit, Log!LogInit
<1>2. Init => GroupsHaveMembers
  BY DEF Init, ServiceInit, GroupsHaveMembers
<1>3. IInv /\ GroupsHaveMembers /\ [Next]_vars => GroupsHaveMembers'
  BY GroupsHaveMembersStep DEF IInv
<1>4. IInv /\ GroupsHaveMembers /\ [Next]_vars => [Log!LogNext]_(Log!logVars)
  BY StepSimulates
<1> QED BY <1>1, <1>2, <1>3, <1>4, Inductive, PTL DEF Spec, ImplementsLog, Log!LogSpec
=============================================================================
