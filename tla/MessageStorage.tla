--------------------------- MODULE MessageStorage ---------------------------
(* The message storage service: the StoreStringMessage transaction, one      *)
(* statement per step, and the two-statement read behind                     *)
(* BatchGetSessionSnapshots.  A handler may fail at any statement (error,    *)
(* cancelled context, killed process): the deferred Rollback then discards   *)
(* what it wrote.  Committing and hearing of the commit are not the same:    *)
(* the reply may be lost after the rows are durable.                         *)
EXTENDS Tables

CONSTANT SnapshotRequests  \* the session id lists snapshots are asked for

ASSUME SnapshotAssumption == SnapshotRequests \subseteq SUBSET Sessions

VARIABLES
    store_pc,  \* how far each StoreStringMessage handler is
    draft,     \* the row each handler is about to insert
    stored,    \* history: the rows whose handler returned success
    snap       \* the BatchGetSessionSnapshots call in progress or last made

storageVars == <<store_pc, draft, stored, snap>>

StorePCs == {"idle", "begun", "locked", "updated", "inserted"}

NoSnapshot == [todo |-> {}, max |-> [s \in Sessions |-> 0],
               last |-> [s \in Sessions |-> {}]]

StorageInit == /\ store_pc = [w \in Storers |-> "idle"]
               /\ draft = [w \in Storers |-> NoDraft]
               /\ stored = {}
               /\ snap = NoSnapshot

StorageTypeOK == /\ store_pc \in [Storers -> StorePCs]
                 /\ draft \in [Storers -> Row \cup {NoDraft}]
                 /\ \A w \in Storers : store_pc[w] # "idle" => draft[w] \in Row
                 /\ stored \subseteq Row
                 /\ snap \in [todo : SUBSET Sessions, max : [Sessions -> Nat],
                              last : [Sessions -> SUBSET Row]]

-----------------------------------------------------------------------------
\* The request is accepted: the message id is the clock, read before the
\* transaction begins.
StoreStringMessage(w, s, u) ==
    /\ store_pc[w] = "idle"
    /\ store_pc' = [store_pc EXCEPT ![w] = "begun"]
    /\ draft' = [draft EXCEPT ![w] = [message_id |-> clock, session_id |-> s,
                                      session_seq |-> 0, sender_id |-> u,
                                      created_at |-> 0]]
    /\ UNCHANGED <<clock, tables, row_lock, stored, snap>>

\* Mutant: a plain SELECT, which neither waits for the row nor owns it.
SelectWithoutLock(w) ==
    LET s == draft[w].session_id IN
    /\ store_pc[w] = "begun"
    /\ s \in chat_sessions
    /\ draft' = [draft EXCEPT ![w] = [@ EXCEPT !.session_seq = last_seq[s] + 1,
                                               !.created_at = clock]]
    /\ store_pc' = [store_pc EXCEPT ![w] = "locked"]
    /\ UNCHANGED <<clock, tables, row_lock, stored, snap>>

\* Mutant: now is read when the request arrives, not under the lock.
SelectWithEarlyNow(w) ==
    LET s == draft[w].session_id IN
    /\ store_pc[w] = "begun"
    /\ s \in chat_sessions
    /\ row_lock[s] = NoHandler
    /\ row_lock' = [row_lock EXCEPT ![s] = w]
    /\ draft' = [draft EXCEPT ![w] = [@ EXCEPT !.session_seq = last_seq[s] + 1,
                                               !.created_at = draft[w].message_id]]
    /\ store_pc' = [store_pc EXCEPT ![w] = "locked"]
    /\ UNCHANGED <<clock, tables, stored, snap>>

\* SELECT last_seq ... FOR UPDATE waits for the row, then newSeq and now are
\* computed while it is held.
SelectForUpdate(w) ==
    LET s == draft[w].session_id IN
    /\ store_pc[w] = "begun"
    /\ s \in chat_sessions
    /\ row_lock[s] = NoHandler
    /\ row_lock' = [row_lock EXCEPT ![s] = w]
    /\ draft' = [draft EXCEPT ![w] = [@ EXCEPT !.session_seq = last_seq[s] + 1,
                                               !.created_at = clock]]
    /\ store_pc' = [store_pc EXCEPT ![w] = "locked"]
    /\ UNCHANGED <<clock, tables, stored, snap>>

\* Mutant: the UPDATE runs on r.db instead of tx and commits by itself.
UpdateOutsideTx(w) ==
    LET s == draft[w].session_id IN
    /\ store_pc[w] = "locked"
    /\ last_seq' = [last_seq EXCEPT ![s] = draft[w].session_seq]
    /\ store_pc' = [store_pc EXCEPT ![w] = "updated"]
    /\ UNCHANGED <<clock, chat_sessions, last_message_at, members, last_read_seq,
                   messages, row_lock, draft, stored, snap>>

\* UPDATE chat_sessions: needs the row, as any write to it does.
UpdateSession(w) ==
    LET s == draft[w].session_id IN
    /\ store_pc[w] = "locked"
    /\ row_lock[s] \in {w, NoHandler}
    /\ row_lock' = [row_lock EXCEPT ![s] = w]
    /\ store_pc' = [store_pc EXCEPT ![w] = "updated"]
    /\ UNCHANGED <<clock, tables, draft, stored, snap>>

\* The two unique keys of messages.
SameKey(r, q) == \/ r.message_id = q.message_id
                 \/ r.session_id = q.session_id /\ r.session_seq = q.session_seq

DuplicateKey(w) == \E r \in messages : SameKey(r, draft[w])

\* INSERT INTO messages: waits for an uncommitted row with the same key.
InsertMessage(w) ==
    /\ store_pc[w] = "updated"
    /\ ~ DuplicateKey(w)
    /\ \A v \in Storers \ {w} :
           store_pc[v] = "inserted" => ~ SameKey(draft[v], draft[w])
    /\ store_pc' = [store_pc EXCEPT ![w] = "inserted"]
    /\ UNCHANGED <<clock, tables, row_lock, draft, stored, snap>>

\* Mutant: the error of tx.Commit is ignored, success is returned anyway.
CommitErrorIgnored(w) ==
    LET r == draft[w] IN
    /\ store_pc[w] = "inserted"
    /\ \/ /\ messages' = messages \cup {r}
          /\ last_seq' = [last_seq EXCEPT ![r.session_id] = r.session_seq]
          /\ last_message_at' = [last_message_at EXCEPT ![r.session_id] = r.created_at]
       \/ UNCHANGED <<messages, last_seq, last_message_at>>
    /\ row_lock' = Unlocked(w)
    /\ stored' = stored \cup {r}
    /\ store_pc' = [store_pc EXCEPT ![w] = "idle"]
    /\ draft' = [draft EXCEPT ![w] = NoDraft]
    /\ UNCHANGED <<clock, chat_sessions, members, last_read_seq, snap>>

\* tx.Commit makes both writes visible at once and gives the row back; the
\* caller may or may not hear of it.
Commit(w) ==
    LET r == draft[w] IN
    /\ store_pc[w] = "inserted"
    /\ messages' = messages \cup {r}
    /\ last_seq' = [last_seq EXCEPT ![r.session_id] = r.session_seq]
    /\ last_message_at' = [last_message_at EXCEPT ![r.session_id] = r.created_at]
    /\ row_lock' = Unlocked(w)
    /\ stored' \in {stored, stored \cup {r}}
    /\ store_pc' = [store_pc EXCEPT ![w] = "idle"]
    /\ draft' = [draft EXCEPT ![w] = NoDraft]
    /\ UNCHANGED <<clock, chat_sessions, members, last_read_seq, snap>>

\* Mutant: the transaction is dropped without a rollback and keeps its row.
NoRollback(w) == /\ store_pc' = [store_pc EXCEPT ![w] = "idle"]
                 /\ draft' = [draft EXCEPT ![w] = NoDraft]
                 /\ UNCHANGED <<clock, tables, row_lock, stored, snap>>

\* Mutant: the transaction is rolled back and the handler carries on.
RollbackAndGoOn(w) == /\ row_lock' = Unlocked(w)
                      /\ draft' = [draft EXCEPT ![w] = NoDraft]
                      /\ UNCHANGED <<clock, tables, store_pc, stored, snap>>

\* The deferred tx.Rollback.
Rollback(w) ==
    /\ row_lock' = Unlocked(w)
    /\ store_pc' = [store_pc EXCEPT ![w] = "idle"]
    /\ draft' = [draft EXCEPT ![w] = NoDraft]
    /\ UNCHANGED <<clock, tables, stored, snap>>

\* No such session: Scan returns ErrNoRows.
SessionMissing(w) == /\ store_pc[w] = "begun"
                     /\ draft[w].session_id \notin chat_sessions
                     /\ row_lock[draft[w].session_id] = NoHandler
                     /\ Rollback(w)

InsertRejected(w) == store_pc[w] = "updated" /\ DuplicateKey(w) /\ Rollback(w)

\* Any statement may fail, the context may be cancelled, the process may die.
StoreFails(w) == store_pc[w] # "idle" /\ Rollback(w)

-----------------------------------------------------------------------------
\* Mutant: ordered by message_id, which is drawn before the row is locked.
LastMessageById(s) ==
    {r \in RowsOf(s) : \A q \in RowsOf(s) : q.message_id <= r.message_id}

\* The row with the greatest session_seq, or nothing for an empty session.
GetSessionLastMessage(s) ==
    {r \in RowsOf(s) : \A q \in RowsOf(s) : q.session_seq <= r.session_seq}

\* First statement: last_seq of all the sessions asked for.
BatchGetSessionSnapshots(ids) ==
    /\ snap.todo = {}
    /\ ids # {}
    /\ snap' = [todo |-> ids, last |-> NoSnapshot.last,
                max |-> [s \in Sessions |-> IF s \in ids \cap chat_sessions
                                            THEN last_seq[s] ELSE 0]]
    /\ UNCHANGED <<clock, tables, row_lock, store_pc, draft, stored>>

\* Then one statement per session, each seeing what has committed since.
SnapshotLastMessage(s) ==
    /\ s \in snap.todo
    /\ snap' = [snap EXCEPT !.todo = @ \ {s},
                            !.last = [@ EXCEPT ![s] = GetSessionLastMessage(s)]]
    /\ UNCHANGED <<clock, tables, row_lock, store_pc, draft, stored>>

SnapshotFails == /\ snap.todo # {}
                 /\ snap' = NoSnapshot
                 /\ UNCHANGED <<clock, tables, row_lock, store_pc, draft, stored>>

StoreStep(w) == \/ SelectForUpdate(w) \/ UpdateSession(w) \/ InsertMessage(w)
                \/ Commit(w) \/ SessionMissing(w) \/ InsertRejected(w)

StorageNext ==
    \/ \E w \in Storers : \/ \E s \in Sessions, u \in Users : StoreStringMessage(w, s, u)
                          \/ StoreStep(w)
                          \/ StoreFails(w)
    \/ \E ids \in SnapshotRequests : BatchGetSessionSnapshots(ids)
    \/ \E s \in Sessions : SnapshotLastMessage(s)
    \/ SnapshotFails
=============================================================================
