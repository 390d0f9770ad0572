------------------------------- MODULE ChatDB -------------------------------
(* The chat service and the message storage service at work on one database: *)
(* their steps interleave freely, and time passes between any two of them.   *)
EXTENDS MessageStorage, ChatService

vars == <<clock, tables, row_lock, storageVars, serviceVars>>

Init == TablesInit /\ StorageInit /\ ServiceInit

\* Time passes.  MaxClock bounds the runs, and with them the messages, whose
\* ids are clock readings.
Tick == /\ clock < MaxClock
        /\ clock' = clock + 1
        /\ UNCHANGED <<tables, row_lock, storageVars, serviceVars>>

Next == \/ StorageNext /\ UNCHANGED serviceVars
        \/ ServiceNext /\ UNCHANGED storageVars
        \/ Tick

Spec == Init /\ [][Next]_vars

\* A handler that can go on does, and one that waits for a row is granted it in
\* turn (InnoDB queues lock requests): strong fairness.  Nothing obliges a
\* statement to fail.
Fairness == /\ \A w \in Storers : SF_vars(StoreStep(w) /\ UNCHANGED serviceVars)
            /\ \A c \in Creators : SF_vars(CreateStep(c) /\ UNCHANGED storageVars)

FairSpec == Spec /\ Fairness

-----------------------------------------------------------------------------
\* Every variable stays in the set its column or its handler allows.
TypeOK == TablesTypeOK /\ StorageTypeOK /\ ServiceTypeOK

\* The rows of a session are numbered 1..last_seq, each number once, whatever
\* transactions interleave, fail or collide: the transaction of
\* Repository.StoreStringMessage keeps messages and chat_sessions in step.
GapFree == \A s \in Sessions :
    /\ \A r \in RowsOf(s) : r.session_seq \in 1..last_seq[s]
    /\ \A k \in 1..last_seq[s] : \E r \in RowsOf(s) : r.session_seq = k
    /\ \A r, q \in RowsOf(s) : r.session_seq = q.session_seq => r = q

\* The unread badge of GetChatSessionList, computed from two columns, is the
\* number of messages GetUnreadMessages would find after the read position.
UnreadExact == \A u \in Users : \A e \in GetChatSessionList(u) :
    e.unread = Cardinality({r \in RowsOf(e.session) :
                               r.session_seq > last_read_seq[e.session][u]})

\* A message whose StoreStringMessage returned success is in the table, in the
\* session and under the number that were reported.
StoredDurable == stored \subseteq messages

\* Within a session later numbers have no earlier timestamps, and
\* last_message_at is the timestamp of the last message: StoreStringMessage
\* reads the clock while it holds the row.
TimeFollowsSeq == \A s \in Sessions :
    /\ \A r, q \in RowsOf(s) :
           r.session_seq < q.session_seq => r.created_at <= q.created_at
    /\ \A r \in GetSessionLastMessage(s) : last_message_at[s] = r.created_at

\* No two transactions ever write the same (session_id, session_seq): FOR UPDATE
\* spares StoreStringMessage the duplicate key its unique index would raise.
SeqUncontended == \A w \in Storers : store_pc[w] \in {"locked", "updated", "inserted"} =>
    LET same(r) == /\ r.session_id = draft[w].session_id
                   /\ r.session_seq = draft[w].session_seq IN
    /\ \A r \in messages : ~ same(r)
    /\ \A v \in Storers \ {w} :
           store_pc[v] \in {"locked", "updated", "inserted"} => ~ same(draft[v])

\* BatchGetSessionSnapshots reads last_seq first and the messages later: the
\* last message it reports is never behind the max_seq it reports.
SnapshotNotBehind == \A s \in Sessions \ snap.todo :
    snap.max[s] > 0 => \E r \in snap.last[s] : r.session_seq >= snap.max[s]

\* A group whose creation was answered with success is there, has exactly the
\* members asked for, and was returned with them: CreateGroupChatSession is
\* atomic and no session id is ever given to two groups.
CreatedExact == \A g \in created : /\ g.session \in chat_sessions
                                   /\ g.returned = g.members
                                   /\ members[g.session] = g.members

\* MarkSessionRead answers "session member not found" (chatservice/main.go)
\* only for a user who is not a member of the session when its UPDATE runs.
NotFoundMeansNotMember == \A m \in mark_reply : m.status = "not_found" => ~m.member

\* Every StoreStringMessage and CreateGroupChatSession call ends: nobody waits
\* for a row for ever.
HandlersReturn == /\ \A w \in Storers : store_pc[w] # "idle" ~> store_pc[w] = "idle"
                  /\ \A c \in Creators : create_pc[c] # "idle" ~> create_pc[c] = "idle"

-----------------------------------------------------------------------------
\* The tables implement the append-only logs.
SenderAt(s, k) == (CHOOSE r \in RowsOf(s) : r.session_seq = k).sender_id

\* The log of each session.
LogOf == [s \in Sessions |-> [k \in 1..last_seq[s] |-> SenderAt(s, k)]]

Log == INSTANCE MessageLog WITH
           Entries <- Users, Seqs <- ReadSeqs, exists <- chat_sessions, membership <- members,
           position <- last_read_seq,
           log <- LogOf

\* Seen through the tables, the services only create sessions with a membership
\* that then stays, append to the logs one message at a time, and move read
\* positions forward.
ImplementsLog == Log!LogSpec
=============================================================================
