------------------------- MODULE ChatDBOutcomeProofs -------------------------
(* TLAPS proofs about what the callers of ChatDB see: stored messages, their *)
(* times, unread badges, snapshots and new groups.  They build on the        *)
(* inductive invariant of ChatDBProofs.                                      *)
EXTENDS ChatDBProofs, FiniteSetTheorems

-----------------------------------------------------------------------------
\* Steps seen from the tables.

\* A step commits a message, commits a group, marks a session read, or leaves the
\* tables alone.
LEMMA Kinds ==
    ASSUME [Next]_vars
    PROVE  \/ \E w \in Storers : Commit(w) /\ UNCHANGED serviceVars
           \/ \E c \in Creators : CommitGroup(c) /\ UNCHANGED storageVars
           \/ /\ \E s \in Sessions, u \in Users, q \in ReadSeqs : MarkSessionRead(s, u, q)
              /\ UNCHANGED storageVars
           \/ UNCHANGED tables
<1>1. CASE StorageNext /\ UNCHANGED serviceVars
  BY <1>1 DEF StorageNext, StoreStep, StoreStringMessage, SelectForUpdate,
     UpdateSession, InsertMessage, SessionMissing, InsertRejected, StoreFails,
     Rollback, BatchGetSessionSnapshots, SnapshotLastMessage, SnapshotFails
<1>2. CASE ServiceNext /\ UNCHANGED storageVars
  BY <1>2 DEF ServiceNext, CreateStep, CreateGroupChatSession, InsertSession,
     InsertSessionRejected, InsertMember, ReplyGroup, CreateFails
<1> QED
  BY <1>1, <1>2 DEF Next, Tick, vars

\* What a commit writes.
LEMMA CommitWrites ==
    ASSUME IInv, NEW w \in Storers, Commit(w)
    PROVE  LET r == draft[w] IN
           /\ r \in Row
           /\ r.session_seq = last_seq[r.session_id] + 1
           /\ messages' = messages \cup {r}
           /\ last_seq'[r.session_id] = r.session_seq
           /\ last_message_at'[r.session_id] = r.created_at
           /\ \A s \in Sessions \ {r.session_id} :
                  last_seq'[s] = last_seq[s] /\ last_message_at'[s] = last_message_at[s]
<1>1. draft[w] \in Row /\ draft[w].session_id \in Sessions
  BY DEF IInv, TypeOK, StorageTypeOK, Commit, Row
<1>2. draft[w].session_seq = last_seq[draft[w].session_id] + 1
  BY DEF IInv, StorerOwnsRow, Commit
<1>3. last_seq \in [Sessions -> Nat] /\ last_message_at \in [Sessions -> Nat]
  BY DEF IInv, TypeOK, TablesTypeOK
<1> QED
  BY <1>1, <1>2, <1>3 DEF Commit

\* A group that is committed is new: nothing of its session was in the tables.
LEMMA GroupIsNew ==
    ASSUME IInv, NEW c \in Creators, CommitGroup(c)
    PROVE  LET s == group[c].session IN
           /\ s \in Sessions /\ s \notin chat_sessions
           /\ chat_sessions' = chat_sessions \cup {s}
           /\ last_seq' = last_seq /\ messages' = messages
           /\ RowsOf(s) = {}
           /\ members'[s] = group[c].members
           /\ \A t \in Sessions \ {s} : /\ members'[t] = members[t]
                                        /\ last_message_at'[t] = last_message_at[t]
<1>1. group[c].session \in Sessions /\ group[c].session \notin chat_sessions
  BY DEF IInv, CreatorOwnsRow, CommitGroup, TypeOK, ServiceTypeOK, GroupDraft
<1>2. last_seq[group[c].session] = 0 /\ RowsOf(group[c].session) = {}
  BY <1>1 DEF IInv, AbsentIsEmpty
<1>3. /\ last_seq \in [Sessions -> Nat] /\ last_message_at \in [Sessions -> Nat]
      /\ members \in [Sessions -> SUBSET Users]
  BY DEF IInv, TypeOK, TablesTypeOK
<1> QED
  BY <1>1, <1>2, <1>3 DEF CommitGroup

\* Rows and sessions stay, numbers grow, memberships do not change.
LEMMA TablesGrow ==
    ASSUME IInv, [Next]_vars
    PROVE  /\ messages \subseteq messages'
           /\ chat_sessions \subseteq chat_sessions'
           /\ \A s \in Sessions : last_seq[s] <= last_seq'[s]
           /\ \A s \in chat_sessions : members'[s] = members[s]
<1>0. last_seq \in [Sessions -> Nat] /\ chat_sessions \subseteq Sessions
  BY DEF IInv, TypeOK, TablesTypeOK
<1>1. ASSUME NEW w \in Storers, Commit(w)
      PROVE  /\ messages \subseteq messages' /\ chat_sessions' = chat_sessions
             /\ members' = members
             /\ \A s \in Sessions : last_seq[s] <= last_seq'[s]
  <2>1. draft[w].session_id \in Sessions /\ last_seq'[draft[w].session_id] = last_seq[draft[w].session_id] + 1
    BY <1>1, CommitWrites DEF Row
  <2>2. \A s \in Sessions : last_seq[s] <= last_seq'[s]
    BY <1>0, <1>1, <2>1, CommitWrites
  <2>. QED
    BY <1>1, <2>2 DEF Commit
<1>2. ASSUME NEW c \in Creators, CommitGroup(c)
      PROVE  /\ messages' = messages /\ chat_sessions \subseteq chat_sessions'
             /\ last_seq' = last_seq
             /\ \A s \in chat_sessions : members'[s] = members[s]
  BY <1>0, <1>2, GroupIsNew
<1>3. ASSUME NEW s \in Sessions, NEW u \in Users, NEW q \in ReadSeqs, MarkSessionRead(s, u, q)
      PROVE  /\ messages' = messages /\ chat_sessions' = chat_sessions
             /\ last_seq' = last_seq /\ members' = members
  BY <1>3 DEF MarkSessionRead
<1>. QED
  BY <1>0, <1>1, <1>2, <1>3, Kinds DEF tables

-----------------------------------------------------------------------------
\* A message whose StoreStringMessage returned success is in the table for ever.
THEOREM StoredStays == Spec => []StoredDurable
<1>1. Init => StoredDurable
  BY DEF Init, StorageInit, StoredDurable
<1>2. ASSUME IInv, StoredDurable, [Next]_vars PROVE StoredDurable'
  <2>1. messages \subseteq messages'
    BY <1>2, TablesGrow
  <2>2. ASSUME NEW w \in Storers, Commit(w) PROVE stored' \subseteq messages'
    BY <1>2, <2>2 DEF Commit, StoredDurable
  <2>3. (\E w \in Storers : Commit(w)) \/ stored' = stored
    BY <1>2 DEF Next, StorageNext, StoreStep, StoreStringMessage, SelectForUpdate,
       UpdateSession, InsertMessage, SessionMissing, InsertRejected, StoreFails,
       Rollback, BatchGetSessionSnapshots, SnapshotLastMessage, SnapshotFails,
       Tick, vars, storageVars
  <2>. QED
    BY <1>2, <2>1, <2>2, <2>3 DEF StoredDurable
<1>. QED
  BY <1>1, <1>2, Inductive, PTL DEF Spec

-----------------------------------------------------------------------------
\* No row is from the future.
RowsPast == \A r \in messages : r.created_at <= clock

\* A transaction that has read the clock holds the row: what it is about to write
\* is as late as anything in its session.
Latest(d) == /\ d.created_at <= clock
             /\ \A r \in messages : r.session_id = d.session_id => r.created_at <= d.created_at
DraftLatest == \A w \in Storers :
    store_pc[w] \in {"locked", "updated", "inserted"} => Latest(draft[w])

TimeInv == RowsPast /\ DraftLatest /\ TimeFollowsSeq

\* Time passes and tables stand still: nothing to show but for the drafts.
LEMMA TimeStandsStill ==
    ASSUME IInv, TimeInv, UNCHANGED <<messages, last_message_at>>, clock <= clock',
           clock' \in Nat, DraftLatest'
    PROVE  TimeInv'
<1>1. \A r \in messages : r.created_at \in Nat
  BY DEF IInv, TypeOK, TablesTypeOK, Row
<1>2. clock \in Nat
  BY DEF IInv, TypeOK, TablesTypeOK
<1>3. RowsPast'
  BY <1>1, <1>2 DEF TimeInv, RowsPast
<1>4. TimeFollowsSeq'
  BY DEF TimeInv, TimeFollowsSeq, RowsOf, GetSessionLastMessage
<1>. QED
  BY <1>3, <1>4 DEF TimeInv

\* The commit of a message, with the time that was read under the lock.
LEMMA CommitKeepsTime ==
    ASSUME IInv, IInv', TimeInv, NEW w \in Storers, Commit(w)
    PROVE  TimeInv'
<1> PICK r \in Row : r = draft[w]
  BY CommitWrites
<1> PICK s \in Sessions : s = r.session_id
  BY DEF Row
<1>1. /\ messages' = messages \cup {r} /\ clock' = clock
      /\ r.session_seq = last_seq[s] + 1
      /\ last_message_at'[s] = r.created_at
      /\ \A t \in Sessions \ {s} : last_message_at'[t] = last_message_at[t]
  BY CommitWrites DEF Commit
<1>2. r.created_at <= clock /\ \A q \in RowsOf(s) : q.created_at <= r.created_at
  BY DEF TimeInv, DraftLatest, Latest, RowsOf, Commit
<1>3. RowsPast'
  BY <1>1, <1>2 DEF TimeInv, RowsPast
<1>4. /\ RowsOf(s)' = RowsOf(s) \cup {r}
      /\ \A t \in Sessions \ {s} : RowsOf(t)' = RowsOf(t)
  BY <1>1 DEF RowsOf
<1>5. DraftLatest'
  <2>1. SUFFICES ASSUME NEW v \in Storers, store_pc'[v] \in {"locked", "updated", "inserted"}
                 PROVE  Latest(draft[v])'
    BY DEF DraftLatest
  <2>2. v # w /\ store_pc[v] \in {"locked", "updated", "inserted"} /\ draft'[v] = draft[v]
    BY <2>1 DEF Commit, IInv, TypeOK, StorageTypeOK
  <2>3. row_lock[draft[v].session_id] = v /\ row_lock[s] = w
    BY <2>2 DEF IInv, StorerOwnsRow, Commit
  <2>4. Latest(draft[v])
    BY <2>2 DEF TimeInv, DraftLatest
  <2>5. r.session_id # draft[v].session_id
    BY <2>2, <2>3
  <2>. QED
    BY <1>1, <2>2, <2>4, <2>5 DEF Latest
<1>6. \A q \in RowsOf(s) : q.session_seq \in Nat /\ q.session_seq < r.session_seq
  <2>1. \A q \in RowsOf(s) : q.session_seq \in 1..last_seq[s]
    BY DEF IInv, GapFree
  <2>2. last_seq[s] \in Nat
    BY DEF IInv, TypeOK, TablesTypeOK
  <2>. QED
    BY <1>1, <2>1, <2>2
<1>7. TimeFollowsSeq'
  <2>1. ASSUME NEW p \in RowsOf(s)', NEW q \in RowsOf(s)', p.session_seq < q.session_seq
        PROVE  p.created_at <= q.created_at
    <3>1. p # r
      <4>1. r.session_seq \in Nat
        BY DEF Row
      <4>. QED
        BY <1>4, <1>6, <2>1, <4>1
    <3>2. CASE q = r
      BY <1>2, <1>4, <3>1, <3>2
    <3>3. CASE q # r
      BY <1>4, <2>1, <3>1, <3>3 DEF TimeInv, TimeFollowsSeq
    <3>. QED
      BY <3>2, <3>3
  <2>2. ASSUME NEW p \in GetSessionLastMessage(s)' PROVE p = r
    <3>1. p \in RowsOf(s)' /\ r.session_seq <= p.session_seq
      BY <1>4, <2>2 DEF GetSessionLastMessage
    <3>2. r.session_seq \in Nat
      BY DEF Row
    <3>. QED
      BY <1>4, <1>6, <3>1, <3>2
  <2>3. ASSUME NEW t \in Sessions \ {s}
        PROVE  /\ \A p, q \in RowsOf(t)' : p.session_seq < q.session_seq => p.created_at <= q.created_at
               /\ \A p \in GetSessionLastMessage(t)' : last_message_at'[t] = p.created_at
    BY <1>1, <1>4 DEF TimeInv, TimeFollowsSeq, GetSessionLastMessage
  <2>. QED
    BY <1>1, <2>1, <2>2, <2>3 DEF TimeFollowsSeq
<1>. QED
  BY <1>3, <1>5, <1>7 DEF TimeInv

\* A step that neither takes a row nor ends a transaction keeps DraftLatest, and
\* so does one that ends it: the other drafts stand as they were.
LEMMA DraftsStand ==
    ASSUME IInv, TimeInv, UNCHANGED messages, clock <= clock', clock' \in Nat,
           \A w \in Storers : store_pc'[w] \in {"locked", "updated", "inserted"} =>
               store_pc[w] \in {"locked", "updated", "inserted"} /\ draft'[w] = draft[w]
    PROVE  DraftLatest'
<1>1. SUFFICES ASSUME NEW w \in Storers, store_pc'[w] \in {"locked", "updated", "inserted"}
               PROVE  Latest(draft[w])'
  BY DEF DraftLatest
<1>2. draft'[w] = draft[w] /\ store_pc[w] \in {"locked", "updated", "inserted"}
  BY <1>1
<1>3. Latest(draft[w])
  BY <1>2 DEF TimeInv, DraftLatest
<1>4. clock \in Nat /\ draft[w] \in Row
  BY <1>2 DEF IInv, TypeOK, TablesTypeOK, StorageTypeOK
<1>5. draft[w].created_at \in Nat
  BY <1>4 DEF Row
<1>. QED
  BY <1>2, <1>3, <1>4, <1>5 DEF Latest

\* The SELECT FOR UPDATE reads the clock, which no row of the session is ahead of.
LEMMA SelectKeepsTime ==
    ASSUME IInv, TimeInv, NEW w \in Storers, SelectForUpdate(w)
    PROVE  DraftLatest'
<1>1. /\ draft[w] \in Row /\ draft \in [Storers -> Row \cup {NoDraft}]
      /\ store_pc \in [Storers -> StorePCs]
  BY DEF IInv, TypeOK, StorageTypeOK, SelectForUpdate
<1>2. PICK d \in Row : d = draft[w]
  BY <1>1
<1>3. /\ messages' = messages /\ clock' = clock
      /\ draft' = [draft EXCEPT ![w] = [d EXCEPT !.session_seq = last_seq[d.session_id] + 1,
                                                 !.created_at = clock]]
      /\ store_pc' = [store_pc EXCEPT ![w] = "locked"]
  BY <1>2 DEF SelectForUpdate, tables
<1>4. draft'[w].created_at = clock /\ draft'[w].session_id = d.session_id
  BY <1>1, <1>2, <1>3 DEF Row
<1>5. \A v \in Storers \ {w} : draft'[v] = draft[v] /\ store_pc'[v] = store_pc[v]
  BY <1>1, <1>3
<1>6. clock \in Nat
  BY DEF IInv, TypeOK, TablesTypeOK
<1>7. ASSUME NEW v \in Storers, store_pc'[v] \in {"locked", "updated", "inserted"}
      PROVE  Latest(draft[v])'
  <2>1. CASE v = w
    BY <1>3, <1>4, <1>6, <2>1 DEF TimeInv, RowsPast, Latest
  <2>2. CASE v # w
    BY <1>3, <1>5, <1>7, <2>2 DEF TimeInv, DraftLatest, Latest
  <2>. QED
    BY <2>1, <2>2
<1>. QED
  BY <1>7 DEF DraftLatest

\* Every step keeps numbers and times in one order.
LEMMA TimeStep ==
    ASSUME IInv, IInv', TimeInv, [Next]_vars
    PROVE  TimeInv'
<1>0. clock \in Nat /\ clock' \in Nat
  BY DEF IInv, TypeOK, TablesTypeOK
<1>1. ASSUME NEW w \in Storers, SelectForUpdate(w) PROVE TimeInv'
  <2>1. UNCHANGED <<messages, last_message_at, clock>>
    BY <1>1 DEF SelectForUpdate, tables
  <2>2. DraftLatest'
    BY <1>1, SelectKeepsTime
  <2>3. clock <= clock'
    BY <1>0, <2>1
  <2>. QED
    BY <1>0, <2>1, <2>2, <2>3, TimeStandsStill
<1>2. ASSUME NEW w \in Storers, Commit(w) PROVE TimeInv'
  BY <1>2, CommitKeepsTime
<1>3. ASSUME NEW w \in Storers,
             UpdateSession(w) \/ InsertMessage(w) \/ Rollback(w)
               \/ \E s \in Sessions, u \in Users : StoreStringMessage(w, s, u)
      PROVE  TimeInv'
  <2>1. UNCHANGED <<messages, last_message_at, clock>>
    BY <1>3 DEF UpdateSession, InsertMessage, Rollback, StoreStringMessage, tables
  <2>2. store_pc \in [Storers -> StorePCs] /\ draft \in [Storers -> Row \cup {NoDraft}]
    BY DEF IInv, TypeOK, StorageTypeOK
  <2>3. \A v \in Storers : store_pc'[v] \in {"locked", "updated", "inserted"} =>
            store_pc[v] \in {"locked", "updated", "inserted"} /\ draft'[v] = draft[v]
    BY <1>3, <2>2 DEF UpdateSession, InsertMessage, Rollback, StoreStringMessage
  <2>. QED
    BY <1>0, <2>1, <2>3, DraftsStand, TimeStandsStill
<1>4. ASSUME UNCHANGED <<messages, last_message_at, clock, store_pc, draft>> PROVE TimeInv'
  BY <1>0, <1>4, DraftsStand, TimeStandsStill
<1>5. ASSUME NEW c \in Creators, CommitGroup(c), UNCHANGED storageVars PROVE TimeInv'
  <2>1. /\ UNCHANGED <<clock, messages, store_pc, draft>>
        /\ \A t \in Sessions : RowsOf(t) # {} => last_message_at'[t] = last_message_at[t]
    BY <1>5, GroupIsNew DEF CommitGroup, storageVars
  <2>2. TimeFollowsSeq'
    BY <2>1 DEF TimeInv, TimeFollowsSeq, RowsOf, GetSessionLastMessage
  <2>3. DraftLatest'
    BY <1>0, <2>1, DraftsStand
  <2>. QED
    BY <2>1, <2>2, <2>3 DEF TimeInv, RowsPast
<1>6. CASE Tick
  <2>1. UNCHANGED <<messages, last_message_at, store_pc, draft>> /\ clock <= clock'
    BY <1>0, <1>6 DEF Tick, tables, storageVars
  <2>. QED
    BY <1>0, <2>1, DraftsStand, TimeStandsStill
<1>7. CASE StorageNext /\ UNCHANGED serviceVars
  <2>1. \/ \E w \in Storers : \/ SelectForUpdate(w) \/ Commit(w)
                              \/ UpdateSession(w) \/ InsertMessage(w) \/ Rollback(w)
                              \/ \E s \in Sessions, u \in Users : StoreStringMessage(w, s, u)
        \/ UNCHANGED <<messages, last_message_at, clock, store_pc, draft>>
    BY <1>7 DEF StorageNext, StoreStep, SessionMissing, InsertRejected, StoreFails,
       BatchGetSessionSnapshots, SnapshotLastMessage, SnapshotFails, tables
  <2>. QED
    BY <1>1, <1>2, <1>3, <1>4, <2>1
<1>8. CASE ServiceNext /\ UNCHANGED storageVars
  <2>1. \/ \E c \in Creators : CommitGroup(c)
        \/ UNCHANGED <<messages, last_message_at, clock, store_pc, draft>>
    BY <1>8 DEF ServiceNext, CreateStep, CreateGroupChatSession, InsertSession, tables,
       InsertSessionRejected, InsertMember, ReplyGroup, CreateFails, MarkSessionRead, storageVars
  <2>. QED
    BY <1>4, <1>5, <1>8, <2>1
<1>9. CASE UNCHANGED vars
  BY <1>4, <1>9 DEF vars, tables, storageVars
<1>. QED
  BY <1>6, <1>7, <1>8, <1>9 DEF Next

\* Within a session later numbers have no earlier timestamps, and last_message_at
\* is that of the last message: now is read while the row is held.
THEOREM TimesInOrder == Spec => []TimeFollowsSeq
<1>1. Init => TimeInv
  BY DEF Init, TablesInit, StorageInit, TimeInv, RowsPast, DraftLatest, TimeFollowsSeq,
     RowsOf, GetSessionLastMessage
<1>2. IInv /\ IInv' /\ TimeInv /\ [Next]_vars => TimeInv'
  BY TimeStep
<1>3. TimeInv => TimeFollowsSeq
  BY DEF TimeInv
<1>. QED
  BY <1>1, <1>2, <1>3, Inductive, PTL DEF Spec

-----------------------------------------------------------------------------
\* The first statement of a snapshot read a last_seq that has only grown since.
SnapBounded == \A s \in Sessions : snap.max[s] <= last_seq[s]

\* The last message of a session that has messages has the number last_seq.
LEMMA LastHasLastSeq ==
    ASSUME IInv, NEW s \in Sessions, last_seq[s] > 0
    PROVE  \E r \in GetSessionLastMessage(s) : r.session_seq = last_seq[s]
<1>1. last_seq[s] \in Nat
  BY DEF IInv, TypeOK, TablesTypeOK
<1>2. PICK r \in RowsOf(s) : r.session_seq = last_seq[s]
  BY <1>1 DEF IInv, GapFree
<1>3. \A q \in RowsOf(s) : q.session_seq <= r.session_seq
  BY <1>1, <1>2 DEF IInv, GapFree
<1>. QED
  BY <1>2, <1>3 DEF GetSessionLastMessage

\* One statement of BatchGetSessionSnapshots, or a commit beside it.
LEMMA SnapStep ==
    ASSUME IInv, IInv', SnapBounded, SnapshotNotBehind, [Next]_vars
    PROVE  SnapBounded' /\ SnapshotNotBehind'
<1>0. /\ snap \in [todo : SUBSET Sessions, max : [Sessions -> Nat],
                   last : [Sessions -> SUBSET Row]]
      /\ last_seq \in [Sessions -> Nat] /\ last_seq' \in [Sessions -> Nat]
      /\ \A s \in Sessions : last_seq[s] <= last_seq'[s]
  BY TablesGrow DEF IInv, TypeOK, TablesTypeOK, StorageTypeOK
<1>1. ASSUME snap' = snap PROVE SnapBounded' /\ SnapshotNotBehind'
  <2>1. \A s \in Sessions : snap.max[s] \in Nat
    BY <1>0
  <2>. QED
    BY <1>0, <1>1, <2>1 DEF SnapBounded, SnapshotNotBehind
<1>2. ASSUME NEW ids \in SnapshotRequests, BatchGetSessionSnapshots(ids)
      PROVE  SnapBounded' /\ SnapshotNotBehind'
  <2>1. \A s \in Sessions : snap'.max[s] = IF s \in ids \cap chat_sessions THEN last_seq[s] ELSE 0
    BY <1>2 DEF BatchGetSessionSnapshots
  <2>2. snap'.todo = ids /\ last_seq' = last_seq
    BY <1>2 DEF BatchGetSessionSnapshots, tables
  <2>. QED
    BY <1>0, <2>1, <2>2 DEF SnapBounded, SnapshotNotBehind
<1>3. ASSUME NEW s \in Sessions, SnapshotLastMessage(s)
      PROVE  SnapBounded' /\ SnapshotNotBehind'
  <2>1. /\ s \in snap.todo /\ last_seq' = last_seq
        /\ snap'.todo = snap.todo \ {s} /\ snap'.max = snap.max
        /\ snap'.last[s] = GetSessionLastMessage(s)
        /\ \A t \in Sessions \ {s} : snap'.last[t] = snap.last[t]
    BY <1>0, <1>3 DEF SnapshotLastMessage, tables
  <2>2. SnapBounded'
    BY <2>1 DEF SnapBounded
  <2>3. ASSUME snap.max[s] > 0 PROVE \E r \in snap'.last[s] : r.session_seq >= snap.max[s]
    <3>1. last_seq[s] >= snap.max[s] /\ snap.max[s] \in Nat /\ last_seq[s] \in Nat
      BY <1>0 DEF SnapBounded
    <3>2. PICK r \in GetSessionLastMessage(s) : r.session_seq = last_seq[s]
      BY <2>3, <3>1, LastHasLastSeq
    <3>. QED
      BY <2>1, <3>1, <3>2
  <2>4. SnapshotNotBehind'
    BY <2>1, <2>3 DEF SnapshotNotBehind
  <2>. QED
    BY <2>2, <2>4
<1>4. ASSUME SnapshotFails PROVE SnapBounded' /\ SnapshotNotBehind'
  BY <1>0, <1>4 DEF SnapshotFails, NoSnapshot, SnapBounded, SnapshotNotBehind, tables
<1>5. \/ snap' = snap \/ SnapshotFails
      \/ \E ids \in SnapshotRequests : BatchGetSessionSnapshots(ids)
      \/ \E s \in Sessions : SnapshotLastMessage(s)
  BY DEF Next, StorageNext, StoreStep, StoreStringMessage, SelectForUpdate, UpdateSession,
     InsertMessage, Commit, SessionMissing, InsertRejected, StoreFails, Rollback,
     Tick, vars, storageVars
<1>. QED
  BY <1>1, <1>2, <1>3, <1>4, <1>5

\* A snapshot, read in several statements while messages are stored, never reports
\* a last message behind the max_seq it reports.
THEOREM SnapshotsAreCurrent == Spec => []SnapshotNotBehind
<1>1. Init => SnapBounded /\ SnapshotNotBehind
  BY DEF Init, TablesInit, StorageInit, NoSnapshot, SnapBounded, SnapshotNotBehind
<1>2. IInv /\ IInv' /\ SnapBounded /\ SnapshotNotBehind /\ [Next]_vars
          => SnapBounded' /\ SnapshotNotBehind'
  BY SnapStep
<1>. QED
  BY <1>1, <1>2, Inductive, PTL DEF Spec

-----------------------------------------------------------------------------
\* Between the commit and the read that follows it the group is there, with the
\* members it was created with.
CommittedGroup == \A c \in Creators : create_pc[c] = "committed" =>
    /\ group[c].session \in chat_sessions
    /\ members[group[c].session] = group[c].members

GroupInv == CommittedGroup /\ CreatedExact

\* Sessions stay and keep their members: what is known of a group stays known.
LEMMA GroupsStay ==
    ASSUME IInv, GroupInv, [Next]_vars, created' = created,
           \A c \in Creators : create_pc'[c] = "committed" =>
               /\ create_pc[c] = "committed"
               /\ group'[c].session = group[c].session
               /\ group'[c].members = group[c].members
    PROVE  GroupInv'
<1>1. /\ chat_sessions \subseteq chat_sessions'
      /\ \A s \in chat_sessions : members'[s] = members[s]
  BY TablesGrow
<1>. QED
  BY <1>1 DEF GroupInv, CommittedGroup, CreatedExact

\* Every step keeps what callers have been told of their groups.
LEMMA GroupStep ==
    ASSUME IInv, GroupInv, [Next]_vars
    PROVE  GroupInv'
<1>0. /\ create_pc \in [Creators -> CreatePCs]
      /\ group \in [Creators -> GroupDraft \cup {NoDraft}]
      /\ \A c \in Creators : create_pc[c] # "idle" => group[c] \in GroupDraft
  BY DEF IInv, TypeOK, ServiceTypeOK
<1>1. ASSUME NEW c \in Creators, CommitGroup(c) PROVE GroupInv'
  <2>1. /\ created' = created /\ group' = group
        /\ create_pc' = [create_pc EXCEPT ![c] = "committed"]
    BY <1>1 DEF CommitGroup
  <2>2. /\ group[c].session \in chat_sessions'
        /\ members'[group[c].session] = group[c].members
    BY <1>1, GroupIsNew
  <2>3. /\ chat_sessions \subseteq chat_sessions'
        /\ \A s \in chat_sessions : members'[s] = members[s]
    BY TablesGrow
  <2>4. \A d \in Creators : create_pc'[d] = "committed" => create_pc[d] = "committed" \/ d = c
    BY <1>0, <2>1
  <2>. QED
    BY <2>1, <2>2, <2>3, <2>4 DEF GroupInv, CommittedGroup, CreatedExact
<1>2. ASSUME NEW c \in Creators, ReplyGroup(c) PROVE GroupInv'
  <2> DEFINE s == group[c].session
             g == [session |-> s, members |-> group[c].members, returned |-> members[s]]
  <2>1. /\ create_pc[c] = "committed" /\ created' = created \cup {g}
        /\ create_pc' = [create_pc EXCEPT ![c] = "idle"]
        /\ group' = [group EXCEPT ![c] = NoDraft]
        /\ members' = members /\ chat_sessions' = chat_sessions
    BY <1>2 DEF ReplyGroup, tables
  <2>2. s \in chat_sessions /\ members[s] = group[c].members
    BY <2>1 DEF GroupInv, CommittedGroup
  <2>3. CreatedExact'
    BY <2>1, <2>2 DEF GroupInv, CreatedExact
  <2>4. \A d \in Creators : create_pc'[d] = "committed" =>
            d # c /\ create_pc[d] = "committed" /\ group'[d] = group[d]
    BY <1>0, <2>1
  <2>5. CommittedGroup'
    BY <2>1, <2>4 DEF GroupInv, CommittedGroup
  <2>. QED
    BY <2>3, <2>5 DEF GroupInv
<1>3. ASSUME NEW c \in Creators, NEW u \in Users, InsertMember(c, u) PROVE GroupInv'
  <2>1. created' = created /\ create_pc' = create_pc /\ create_pc[c] = "inserting"
    BY <1>3 DEF InsertMember
  <2>2. \A d \in Creators : d # c => group'[d] = group[d]
    BY <1>0, <1>3 DEF InsertMember
  <2>. QED
    BY <2>1, <2>2, GroupsStay
<1>4. ASSUME NEW c \in Creators,
             \/ InsertSession(c) \/ CreateFails(c)
             \/ \E s \in Sessions, u \in Users, ids \in SUBSET Users :
                    CreateGroupChatSession(c, s, u, ids)
      PROVE  GroupInv'
  <2>1. created' = created
    BY <1>4 DEF InsertSession, CreateFails, CreateGroupChatSession
  <2>2. \A d \in Creators : create_pc'[d] = "committed" =>
            create_pc[d] = "committed" /\ group'[d] = group[d]
    BY <1>0, <1>4 DEF InsertSession, CreateFails, CreateGroupChatSession
  <2>. QED
    BY <2>1, <2>2, GroupsStay
<1>5. ASSUME UNCHANGED <<created, create_pc, group>> PROVE GroupInv'
  BY <1>5, GroupsStay
<1>6. CASE ServiceNext
  <2>1. ASSUME NEW s \in Sessions, NEW u \in Users, NEW q \in ReadSeqs, MarkSessionRead(s, u, q)
        PROVE  GroupInv'
    BY <1>5, <2>1 DEF MarkSessionRead
  <2>. QED
    BY <1>1, <1>2, <1>3, <1>4, <1>6, <2>1 DEF ServiceNext, CreateStep, InsertSessionRejected
<1>. QED
  BY <1>5, <1>6 DEF Next, Tick, vars, serviceVars

\* A group answered with success is there with exactly the members asked for, and
\* no other creation ever touches it.
THEOREM GroupsAreWhole == Spec => []CreatedExact
<1>1. Init => GroupInv
  BY DEF Init, ServiceInit, GroupInv, CommittedGroup, CreatedExact
<1>2. IInv /\ GroupInv /\ [Next]_vars => GroupInv'
  BY GroupStep
<1>3. GroupInv => CreatedExact
  BY DEF GroupInv
<1>. QED
  BY <1>1, <1>2, <1>3, Inductive, PTL DEF Spec

-----------------------------------------------------------------------------
\* The badge counts rows: without gaps there is one for each number after the read
\* position, up to last_seq.
LEMMA RowsAfter ==
    ASSUME IInv, NEW s \in Sessions, NEW p \in Nat
    PROVE  Cardinality({r \in RowsOf(s) : r.session_seq > p})
               = IF last_seq[s] > p THEN last_seq[s] - p ELSE 0
<1> PICK n \in Nat : n = last_seq[s]
  BY DEF IInv, TypeOK, TablesTypeOK
<1> DEFINE R == {r \in RowsOf(s) : r.session_seq > p}
           f == [k \in (p + 1)..n |-> CHOOSE r \in R : r.session_seq = k]
<1>1. /\ \A r \in RowsOf(s) : r.session_seq \in 1..n
      /\ \A k \in 1..n : \E r \in RowsOf(s) : r.session_seq = k
      /\ \A r, q \in RowsOf(s) : r.session_seq = q.session_seq => r = q
  BY DEF IInv, GapFree
<1>2. f \in Bijection((p + 1)..n, R)
  <2>1. ASSUME NEW k \in (p + 1)..n PROVE f[k] \in R /\ f[k].session_seq = k
    <3>1. \E r \in R : r.session_seq = k
      BY <1>1
    <3>. QED
      BY <3>1
  <2>2. f \in [(p + 1)..n -> R]
    BY <2>1
  <2>3. \A j, k \in (p + 1)..n : f[j] = f[k] => j = k
    BY <2>1
  <2>4. ASSUME NEW r \in R PROVE \E k \in (p + 1)..n : f[k] = r
    <3>1. r.session_seq \in (p + 1)..n
      BY <1>1
    <3>. QED
      BY <1>1, <2>1, <3>1
  <2> HIDE DEF f
  <2>5. f \in Injection((p + 1)..n, R)
    BY <2>2, <2>3 DEF Injection, IsInjective
  <2>6. f \in Surjection((p + 1)..n, R)
    BY <2>2, <2>4 DEF Surjection
  <2>. QED
    BY <2>5, <2>6 DEF Bijection
<1>3. /\ IsFiniteSet((p + 1)..n)
      /\ Cardinality((p + 1)..n) = IF p + 1 > n THEN 0 ELSE n - (p + 1) + 1
  <2>1. p + 1 \in Int /\ n \in Int
    OBVIOUS
  <2>. QED
    BY <2>1, FS_Interval, Zenon
<1>4. Cardinality(R) = Cardinality((p + 1)..n)
  <2> HIDE DEF f, R
  <2>1. ExistsBijection((p + 1)..n, R)
    BY <1>2 DEF ExistsBijection
  <2>. QED
    BY <1>3, <2>1, FS_Bijection
<1>5. (IF p + 1 > n THEN 0 ELSE n - (p + 1) + 1) = IF n > p THEN n - p ELSE 0
  OBVIOUS
<1>. QED
  BY <1>3, <1>4, <1>5

\* The unread badge, a difference of two columns, is the number of rows after the
\* read position, even when that lies beyond the last message.
THEOREM BadgesAreExact == Spec => []UnreadExact
<1>1. ASSUME IInv PROVE UnreadExact
  <2>1. SUFFICES ASSUME NEW u \in Users, NEW s \in chat_sessions
                 PROVE  UnreadCount(s, u) = Cardinality({r \in RowsOf(s) :
                                                r.session_seq > last_read_seq[s][u]})
    BY DEF UnreadExact, GetChatSessionList
  <2>2. s \in Sessions /\ last_read_seq[s][u] \in Nat
    BY <1>1, <2>1 DEF IInv, TypeOK, TablesTypeOK
  <2>. QED
    BY <1>1, <2>2, RowsAfter DEF UnreadCount
<1>. QED
  BY <1>1, Inductive, PTL

-----------------------------------------------------------------------------
\* The rows of the tables are never taken back.

\* Messages and sessions stay, members stay members and nobody joins, numbers and
\* read positions only grow.
NothingTakenBack ==
    /\ messages \subseteq messages'
    /\ chat_sessions \subseteq chat_sessions'
    /\ \A s \in Sessions : last_seq[s] <= last_seq'[s]
    /\ \A s \in chat_sessions : members'[s] = members[s]
    /\ \A s \in Sessions, u \in Users : last_read_seq[s][u] <= last_read_seq'[s][u]

\* A group's commit, which sets the positions of its members to 0, finds them there.
LEMMA PositionsGrow ==
    ASSUME IInv, [Next]_vars
    PROVE  \A s \in Sessions, u \in Users : last_read_seq[s][u] <= last_read_seq'[s][u]
<1>0. last_read_seq \in [Sessions -> [Users -> Nat]]
  BY DEF IInv, TypeOK, TablesTypeOK
<1>1. ASSUME NEW c \in Creators, CommitGroup(c)
      PROVE  last_read_seq' = last_read_seq
  <2>1. group[c].session \in Sessions \ chat_sessions
    BY <1>1, GroupIsNew
  <2>2. last_read_seq[group[c].session] = [u \in Users |-> 0]
    BY <2>1 DEF IInv, AbsentIsEmpty
  <2>3. last_read_seq' = [last_read_seq EXCEPT ![group[c].session] = [u \in Users |-> 0]]
    BY <1>1 DEF CommitGroup
  <2>. QED
    BY <1>0, <2>1, <2>2, <2>3
<1>2. ASSUME NEW t \in Sessions, NEW v \in Users, NEW q \in ReadSeqs, MarkSessionRead(t, v, q)
      PROVE  \A s \in Sessions, u \in Users : last_read_seq[s][u] <= last_read_seq'[s][u]
  <2>1. \/ last_read_seq' = last_read_seq
        \/ /\ q > last_read_seq[t][v]
           /\ last_read_seq' = [last_read_seq EXCEPT ![t][v] = q]
    BY <1>2 DEF MarkSessionRead
  <2>2. q \in Nat
    BY ReadSeqsAssumption
  <2>. QED
    BY <1>0, <2>1, <2>2
<1>3. ASSUME last_read_seq' = last_read_seq
      PROVE  \A s \in Sessions, u \in Users : last_read_seq[s][u] <= last_read_seq'[s][u]
  BY <1>0, <1>3
<1>4. ASSUME NEW w \in Storers, Commit(w) PROVE last_read_seq' = last_read_seq
  BY <1>4 DEF Commit
<1>. QED
  BY <1>1, <1>2, <1>3, <1>4, Kinds DEF tables

\* No step of either service, committed or rolled back, takes anything back.
THEOREM RowsStay == Spec => [][NothingTakenBack]_vars
<1>1. IInv /\ [Next]_vars => [NothingTakenBack]_vars
  BY TablesGrow, PositionsGrow DEF NothingTakenBack
<1>. QED
  BY <1>1, Inductive, PTL DEF Spec

-----------------------------------------------------------------------------
\* Waiting for rows.

\* The transaction of handler h is at work with the row of session s.
AtWork(h, s) ==
    \/ /\ h \in Storers
       /\ store_pc[h] \in {"locked", "updated", "inserted"}
       /\ draft[h].session_id = s
    \/ /\ h \in Creators
       /\ create_pc[h] = "inserting"
       /\ group[h].session = s

\* A row is owned by nobody or by a transaction at work with it: whichever way a
\* handler ends, it gives its row back.
RowsInUse == \A s \in Sessions : row_lock[s] # NoHandler => AtWork(row_lock[s], s)

\* One handler moves, and takes or gives back only rows it is at work with.
LEMMA OneMoves ==
    ASSUME RowsInUse, NEW h,
           \A s \in Sessions : row_lock'[s] \in {row_lock[s], NoHandler, h},
           \A s \in Sessions : row_lock'[s] = h => AtWork(h, s)',
           \A k, s : k # h /\ AtWork(k, s) => AtWork(k, s)'
    PROVE  RowsInUse'
<1> SUFFICES ASSUME NEW s \in Sessions, row_lock'[s] # NoHandler, row_lock'[s] # h
             PROVE  AtWork(row_lock[s], s)' 
  BY DEF RowsInUse, AtWork
<1>1. row_lock'[s] = row_lock[s]
  OBVIOUS
<1>2. PICK k : k = row_lock[s]
  OBVIOUS
<1>3. k # h /\ AtWork(k, s)
  BY <1>1, <1>2 DEF RowsInUse
<1>4. AtWork(k, s)'
  BY <1>3
<1> QED
  BY <1>1, <1>2, <1>4 DEF AtWork

\* A handler that is not at work with any row, or gives back all it has, keeps it.
LEMMA StorerMoves ==
    ASSUME IInv, RowsInUse, NEW w \in Storers,
           \A v \in Storers \ {w} : store_pc'[v] = store_pc[v] /\ draft'[v] = draft[v],
           UNCHANGED <<create_pc, group>>,
           \/ row_lock' = Unlocked(w)
           \/ /\ row_lock' = row_lock
              /\ \A s \in Sessions : AtWork(w, s) => AtWork(w, s)'
    PROVE  RowsInUse'
<1>1. row_lock \in [Sessions -> Storers \cup Creators \cup {NoHandler}]
  BY DEF IInv, TypeOK, TablesTypeOK
<1>2. \A s \in Sessions : row_lock'[s] \in {row_lock[s], NoHandler, w}
  BY <1>1 DEF Unlocked
<1>3. \A k, s : k # w /\ AtWork(k, s) => AtWork(k, s)'
  BY DEF AtWork
<1>4. \A s \in Sessions : row_lock'[s] = w => AtWork(w, s)'
  <2> TAKE s \in Sessions
  <2>1. CASE row_lock' = Unlocked(w)
    BY <1>1, <2>1, HandlerAssumption DEF Unlocked
  <2>2. CASE row_lock' = row_lock /\ (AtWork(w, s) => AtWork(w, s)')
    BY <2>2, HandlerAssumption DEF RowsInUse
  <2> QED
    BY <2>1, <2>2
<1> QED
  BY <1>2, <1>3, <1>4, OneMoves

\* The same for a CreateGroupChatSession handler.
LEMMA CreatorMoves ==
    ASSUME IInv, RowsInUse, NEW c \in Creators,
           \A e \in Creators \ {c} : create_pc'[e] = create_pc[e] /\ group'[e] = group[e],
           UNCHANGED <<store_pc, draft>>,
           \/ row_lock' = Unlocked(c)
           \/ /\ row_lock' = row_lock
              /\ \A s \in Sessions : AtWork(c, s) => AtWork(c, s)'
    PROVE  RowsInUse'
<1>1. row_lock \in [Sessions -> Storers \cup Creators \cup {NoHandler}]
  BY DEF IInv, TypeOK, TablesTypeOK
<1>2. \A s \in Sessions : row_lock'[s] \in {row_lock[s], NoHandler, c}
  BY <1>1 DEF Unlocked
<1>3. \A k, s : k # c /\ AtWork(k, s) => AtWork(k, s)'
  BY DEF AtWork
<1>4. \A s \in Sessions : row_lock'[s] = c => AtWork(c, s)'
  <2> TAKE s \in Sessions
  <2>1. CASE row_lock' = Unlocked(c)
    BY <1>1, <2>1, HandlerAssumption DEF Unlocked
  <2>2. CASE row_lock' = row_lock /\ (AtWork(c, s) => AtWork(c, s)')
    BY <2>2, HandlerAssumption DEF RowsInUse
  <2> QED
    BY <2>1, <2>2
<1> QED
  BY <1>2, <1>3, <1>4, OneMoves

\* Both SELECT ... FOR UPDATE and INSERT INTO chat_sessions take a free row.
LEMMA RowIsTaken ==
    ASSUME IInv, RowsInUse, NEW h \in Storers \cup Creators, NEW s \in Sessions,
           row_lock' = [row_lock EXCEPT ![s] = h],
           \A t : ~AtWork(h, t), AtWork(h, s)',
           \A k, t : k # h /\ AtWork(k, t) => AtWork(k, t)'
    PROVE  RowsInUse'
<1>1. row_lock \in [Sessions -> Storers \cup Creators \cup {NoHandler}]
  BY DEF IInv, TypeOK, TablesTypeOK
<1>2. \A t \in Sessions : row_lock'[t] = IF t = s THEN h ELSE row_lock[t]
  BY <1>1
<1>3. \A t \in Sessions : row_lock[t] # h
  BY HandlerAssumption DEF RowsInUse
<1>4. \A t \in Sessions : row_lock'[t] \in {row_lock[t], NoHandler, h}
  BY <1>2
<1>5. \A t \in Sessions : row_lock'[t] = h => AtWork(h, t)'
  <2> SUFFICES ASSUME NEW t \in Sessions, row_lock'[t] = h PROVE AtWork(h, t)'
    OBVIOUS
  <2>1. t = s
    BY <1>2, <1>3
  <2> QED
    BY <2>1
<1> QED
  BY <1>4, <1>5, OneMoves

\* Every step of the message storage service keeps rows with those at work.
LEMMA StorageUsesRows ==
    ASSUME IInv, RowsInUse, StorageNext, UNCHANGED serviceVars
    PROVE  RowsInUse'
<1>0. /\ store_pc \in [Storers -> StorePCs] /\ draft \in [Storers -> Row \cup {NoDraft}]
      /\ UNCHANGED <<create_pc, group>>
  BY DEF IInv, TypeOK, StorageTypeOK, serviceVars
<1>1. ASSUME NEW w \in Storers, NEW s \in Sessions, NEW u \in Users, StoreStringMessage(w, s, u)
      PROVE  RowsInUse'
  <2>1. \A v \in Storers \ {w} : store_pc'[v] = store_pc[v] /\ draft'[v] = draft[v]
    BY <1>0, <1>1 DEF StoreStringMessage
  <2>2. \A t : ~AtWork(w, t)
    BY <1>1, HandlerAssumption DEF StoreStringMessage, AtWork
  <2> QED
    BY <1>0, <1>1, <2>1, <2>2, StorerMoves DEF StoreStringMessage
<1>2. ASSUME NEW w \in Storers, SelectForUpdate(w) PROVE RowsInUse'
  <2>0. draft[w] \in Row
    BY <1>2 DEF SelectForUpdate, IInv, TypeOK, StorageTypeOK
  <2>1. PICK s \in Sessions : s = draft[w].session_id
    BY <2>0 DEF Row
  <2>2. draft'[w] = [draft[w] EXCEPT !.session_seq = last_seq[s] + 1, !.created_at = clock]
    BY <1>0, <1>2, <2>1 DEF SelectForUpdate
  <2>3. draft'[w].session_id = s
    BY <2>0, <2>1, <2>2 DEF Row
  <2>4. \A v \in Storers \ {w} : store_pc'[v] = store_pc[v] /\ draft'[v] = draft[v]
    BY <1>0, <1>2 DEF SelectForUpdate
  <2>5. store_pc[w] = "begun" /\ store_pc'[w] = "locked" /\ row_lock' = [row_lock EXCEPT ![s] = w]
    BY <1>0, <1>2, <2>1 DEF SelectForUpdate
  <2>6. \A t : ~AtWork(w, t)
    BY <2>5, HandlerAssumption DEF AtWork
  <2>7. AtWork(w, s)'
    BY <2>3, <2>5 DEF AtWork
  <2>8. \A k, t : k # w /\ AtWork(k, t) => AtWork(k, t)'
    BY <1>0, <2>4 DEF AtWork
  <2> QED
    BY <2>5, <2>6, <2>7, <2>8, RowIsTaken
<1>3. ASSUME NEW w \in Storers, UpdateSession(w) \/ InsertMessage(w) PROVE RowsInUse'
  <2>1. row_lock' = row_lock
    BY <1>3 DEF UpdateSession, InsertMessage, IInv, StorerOwnsRow, TypeOK, TablesTypeOK
  <2>2. /\ store_pc'[w] \in {"updated", "inserted"} /\ draft' = draft
        /\ \A v \in Storers \ {w} : store_pc'[v] = store_pc[v]
    BY <1>0, <1>3 DEF UpdateSession, InsertMessage
  <2>3. \A t \in Sessions : AtWork(w, t) => AtWork(w, t)'
    BY <1>0, <2>2, HandlerAssumption DEF AtWork
  <2> QED
    BY <1>0, <2>1, <2>2, <2>3, StorerMoves
<1>4. ASSUME NEW w \in Storers, Commit(w) \/ Rollback(w) PROVE RowsInUse'
  <2>1. /\ row_lock' = Unlocked(w)
        /\ \A v \in Storers \ {w} : store_pc'[v] = store_pc[v] /\ draft'[v] = draft[v]
    BY <1>0, <1>4 DEF Commit, Rollback
  <2> QED
    BY <1>0, <2>1, StorerMoves
<1>5. ASSUME UNCHANGED <<row_lock, store_pc, draft>> PROVE RowsInUse'
  BY <1>0, <1>5 DEF RowsInUse, AtWork
<1> QED
  BY <1>1, <1>2, <1>3, <1>4, <1>5
     DEF StorageNext, StoreStep, SessionMissing, InsertRejected, StoreFails,
         BatchGetSessionSnapshots, SnapshotLastMessage, SnapshotFails

\* So does every step of the chat service.
LEMMA ServiceUsesRows ==
    ASSUME IInv, RowsInUse, ServiceNext, UNCHANGED storageVars
    PROVE  RowsInUse'
<1>0. /\ create_pc \in [Creators -> CreatePCs] /\ group \in [Creators -> GroupDraft \cup {NoDraft}]
      /\ UNCHANGED <<store_pc, draft>>
  BY DEF IInv, TypeOK, ServiceTypeOK, storageVars
<1>1. ASSUME NEW c \in Creators, NEW s \in Sessions, NEW u \in Users, NEW ids \in SUBSET Users,
             CreateGroupChatSession(c, s, u, ids)
      PROVE  RowsInUse'
  <2>1. \A e \in Creators \ {c} : create_pc'[e] = create_pc[e] /\ group'[e] = group[e]
    BY <1>0, <1>1 DEF CreateGroupChatSession
  <2>2. \A t : ~AtWork(c, t)
    BY <1>1, HandlerAssumption DEF CreateGroupChatSession, AtWork
  <2> QED
    BY <1>0, <1>1, <2>1, <2>2, CreatorMoves DEF CreateGroupChatSession
<1>2. ASSUME NEW c \in Creators, InsertSession(c) PROVE RowsInUse'
  <2>1. PICK s \in Sessions : s = group[c].session
    BY <1>2 DEF InsertSession, IInv, TypeOK, ServiceTypeOK, GroupDraft
  <2>2. /\ create_pc[c] = "begun" /\ create_pc'[c] = "inserting" /\ group' = group
        /\ row_lock' = [row_lock EXCEPT ![s] = c]
        /\ \A e \in Creators \ {c} : create_pc'[e] = create_pc[e]
    BY <1>0, <1>2, <2>1 DEF InsertSession
  <2>3. \A t : ~AtWork(c, t)
    BY <2>2, HandlerAssumption DEF AtWork
  <2>4. AtWork(c, s)'
    BY <2>1, <2>2 DEF AtWork
  <2>5. \A k, t : k # c /\ AtWork(k, t) => AtWork(k, t)'
    BY <1>0, <2>2 DEF AtWork
  <2> QED
    BY <2>2, <2>3, <2>4, <2>5, RowIsTaken
<1>3. ASSUME NEW c \in Creators, NEW u \in Users, InsertMember(c, u) PROVE RowsInUse'
  <2>1. group[c] \in GroupDraft
    BY <1>3 DEF InsertMember, IInv, TypeOK, ServiceTypeOK
  <2>2. group'[c].session = group[c].session
    BY <1>0, <1>3, <2>1 DEF InsertMember, GroupDraft
  <2>3. /\ create_pc' = create_pc /\ row_lock' = row_lock
        /\ \A e \in Creators \ {c} : group'[e] = group[e]
    BY <1>0, <1>3 DEF InsertMember
  <2>4. \A t \in Sessions : AtWork(c, t) => AtWork(c, t)'
    BY <1>0, <2>2, <2>3 DEF AtWork
  <2> QED
    BY <1>0, <2>3, <2>4, CreatorMoves
<1>4. ASSUME NEW c \in Creators, CommitGroup(c) \/ CreateFails(c) PROVE RowsInUse'
  <2>1. /\ row_lock' = Unlocked(c)
        /\ \A e \in Creators \ {c} : create_pc'[e] = create_pc[e] /\ group'[e] = group[e]
    BY <1>0, <1>4 DEF CommitGroup, CreateFails
  <2> QED
    BY <1>0, <2>1, CreatorMoves
<1>5. ASSUME NEW c \in Creators, ReplyGroup(c) PROVE RowsInUse'
  <2>1. /\ row_lock' = row_lock /\ create_pc[c] = "committed"
        /\ \A e \in Creators \ {c} : create_pc'[e] = create_pc[e] /\ group'[e] = group[e]
    BY <1>0, <1>5 DEF ReplyGroup
  <2>2. \A t \in Sessions : ~AtWork(c, t)
    BY <2>1, HandlerAssumption DEF AtWork
  <2> QED
    BY <1>0, <2>1, <2>2, CreatorMoves
<1>6. ASSUME UNCHANGED <<row_lock, create_pc, group>> PROVE RowsInUse'
  BY <1>0, <1>6 DEF RowsInUse, AtWork
<1>7. ASSUME NEW s \in Sessions, NEW u \in Users, NEW q \in ReadSeqs, MarkSessionRead(s, u, q)
      PROVE  RowsInUse'
  BY <1>6, <1>7 DEF MarkSessionRead
<1> QED
  BY <1>1, <1>2, <1>3, <1>4, <1>5, <1>7 DEF ServiceNext, CreateStep, InsertSessionRejected

\* However handlers end, with a commit, an error or a killed process, no row stays
\* locked behind them.
THEOREM RowsAreGivenBack == Spec => []RowsInUse
<1>1. Init => RowsInUse
  BY DEF Init, TablesInit, RowsInUse
<1>2. ASSUME IInv, RowsInUse, [Next]_vars PROVE RowsInUse'
  <2>1. ASSUME UNCHANGED <<row_lock, store_pc, draft, create_pc, group>> PROVE RowsInUse'
    BY <1>2, <2>1 DEF RowsInUse, AtWork
  <2> QED
    BY <1>2, <2>1, StorageUsesRows, ServiceUsesRows
       DEF Next, Tick, vars, storageVars, serviceVars
<1>. QED
  BY <1>1, <1>2, Inductive, PTL DEF Spec

-----------------------------------------------------------------------------
\* Nobody waits for ever: the safety part of HandlersReturn.

Handlers == Storers \cup Creators

\* A call is open.
Open(h) == \/ h \in Storers /\ store_pc[h] # "idle"
           \/ h \in Creators /\ create_pc[h] # "idle"

\* The next statement of handler h needs what the transaction of k has: the row of
\* its session, or the key of a message k has inserted and not committed.
WaitsFor(h, k) ==
    \/ h \in Storers /\ store_pc[h] = "begun" /\ k = row_lock[draft[h].session_id]
    \/ h \in Storers /\ store_pc[h] = "locked" /\ k = row_lock[draft[h].session_id] /\ k # h
    \/ /\ h \in Storers /\ store_pc[h] = "updated" /\ ~ DuplicateKey(h)
       /\ k \in Storers \ {h} /\ store_pc[k] = "inserted" /\ SameKey(draft[k], draft[h])
    \/ /\ h \in Creators /\ create_pc[h] = "begun"
       /\ group[h].session \notin chat_sessions /\ k = row_lock[group[h].session]

\* The next statement of handler h waits for nobody.
Ready(h) == Open(h) /\ \A k \in Handlers : ~ WaitsFor(h, k)

\* Who is waited for is another open call, which is ready or itself waits only for
\* calls that are: no two waits end where they began.
WaitsEnd ==
    \A h, k \in Handlers : WaitsFor(h, k) =>
        /\ k # h /\ Open(k)
        /\ \A j \in Handlers : WaitsFor(k, j) => Ready(j)

\* An owner of a row neither waits for the row again nor for any other.
LEMMA OwnersDoNotWait ==
    ASSUME IInv, NEW k \in Handlers, NEW s \in Sessions, AtWork(k, s),
           NEW j \in Handlers, WaitsFor(k, j)
    PROVE  /\ k \in Storers /\ store_pc[k] = "updated"
           /\ j \in Storers \ {k} /\ store_pc[j] = "inserted"
<1>1. CASE k \in Storers
  <2>1. store_pc[k] \in {"locked", "updated", "inserted"}
    BY <1>1, HandlerAssumption DEF AtWork
  <2>2. row_lock[draft[k].session_id] = k
    BY <1>1, <2>1 DEF IInv, StorerOwnsRow
  <2> QED
    BY <1>1, <2>1, <2>2, HandlerAssumption DEF WaitsFor
<1>2. CASE k \in Creators
  <2>1. k \notin Storers /\ create_pc[k] = "inserting"
    BY <1>2, HandlerAssumption DEF AtWork
  <2> QED
    BY <2>1 DEF WaitsFor
<1> QED
  BY <1>1, <1>2 DEF Handlers

\* A message that is inserted waits only for its own commit.
LEMMA InsertedIsReady ==
    ASSUME NEW j \in Storers, store_pc[j] = "inserted"
    PROVE  Ready(j)
BY HandlerAssumption DEF Ready, Open, WaitsFor

\* A handler waits only for one that is at work with a row.
LEMMA WaitsForOwner ==
    ASSUME IInv, RowsInUse, NEW h \in Handlers, NEW k \in Handlers, WaitsFor(h, k)
    PROVE  k # h /\ \E s \in Sessions : AtWork(k, s)
<1>0. /\ \A w \in Storers : store_pc[w] # "idle" => draft[w].session_id \in Sessions
      /\ \A c \in Creators : create_pc[c] # "idle" => group[c].session \in Sessions
  <2>1. \A w \in Storers : store_pc[w] # "idle" => draft[w] \in Row
    BY DEF IInv, TypeOK, StorageTypeOK
  <2>2. \A c \in Creators : create_pc[c] # "idle" => group[c] \in GroupDraft
    BY DEF IInv, TypeOK, ServiceTypeOK
  <2> QED
    BY <2>1, <2>2 DEF Row, GroupDraft
<1>1. k # NoHandler
  BY HandlerAssumption DEF Handlers
<1>2. ASSUME NEW s \in Sessions, row_lock[s] = k, ~ AtWork(h, s)
      PROVE  k # h /\ \E t \in Sessions : AtWork(k, t)
  BY <1>1, <1>2 DEF RowsInUse
<1>3. CASE h \in Storers /\ store_pc[h] = "begun"
  <2>1. draft[h].session_id \in Sessions /\ k = row_lock[draft[h].session_id]
    BY <1>0, <1>3, HandlerAssumption DEF WaitsFor
  <2>2. ~ AtWork(h, draft[h].session_id)
    BY <1>3, HandlerAssumption DEF AtWork
  <2> QED
    BY <1>2, <2>1, <2>2
<1>4. CASE h \in Storers /\ store_pc[h] = "locked"
  <2>1. draft[h].session_id \in Sessions /\ k = row_lock[draft[h].session_id] /\ k # h
    BY <1>0, <1>4, HandlerAssumption DEF WaitsFor
  <2> QED
    BY <1>1, <2>1 DEF RowsInUse
<1>5. CASE h \in Storers /\ store_pc[h] = "updated"
  <2>1. k \in Storers \ {h} /\ store_pc[k] = "inserted"
    BY <1>5, HandlerAssumption DEF WaitsFor
  <2>2. draft[k].session_id \in Sessions
    BY <1>0, <2>1
  <2> QED
    BY <2>1, <2>2 DEF AtWork
<1>6. CASE h \in Creators
  <2>1. /\ h \notin Storers /\ create_pc[h] = "begun"
        /\ group[h].session \in Sessions /\ k = row_lock[group[h].session]
    BY <1>0, <1>6, HandlerAssumption DEF WaitsFor
  <2>2. ~ AtWork(h, group[h].session)
    BY <2>1 DEF AtWork
  <2> QED
    BY <1>2, <2>1, <2>2
<1> QED
  BY <1>3, <1>4, <1>5, <1>6 DEF WaitsFor

\* No deadlock: no handler waits for itself, and behind any handler that waits is
\* one that can go on, at most two waits away.
THEOREM NoDeadlock == Spec => []WaitsEnd
<1>1. ASSUME IInv, RowsInUse PROVE WaitsEnd
  <2> SUFFICES ASSUME NEW h \in Handlers, NEW k \in Handlers, WaitsFor(h, k)
               PROVE  /\ k # h /\ Open(k)
                      /\ \A j \in Handlers : WaitsFor(k, j) => Ready(j)
    BY DEF WaitsEnd
  <2>1. k # h
    BY <1>1, WaitsForOwner
  <2>2. PICK s \in Sessions : AtWork(k, s)
    BY <1>1, WaitsForOwner
  <2>3. ASSUME NEW j \in Handlers, WaitsFor(k, j) PROVE Ready(j)
    <3>1. j \in Storers /\ store_pc[j] = "inserted"
      BY <1>1, <2>2, <2>3, OwnersDoNotWait
    <3> QED
      BY <3>1, InsertedIsReady
  <2>4. Open(k)
    BY <2>2 DEF AtWork, Open
  <2> QED
    BY <2>1, <2>3, <2>4
<1>. QED
  BY <1>1, Inductive, RowsAreGivenBack, PTL

=============================================================================
