----------------------------- MODULE ChatService -----------------------------
(* The chat service's writes: the CreateGroupChatSession transaction, one    *)
(* statement per step, with the member read that follows its commit, and     *)
(* MarkSessionRead, one autocommit UPDATE.  The session list and the         *)
(* membership queries are single SELECTs: state functions of the tables.     *)
EXTENDS Tables

CONSTANT ReadSeqs  \* the last_read_seq values clients send

ASSUME ReadSeqsAssumption == ReadSeqs \subseteq Nat

VARIABLES
    create_pc,  \* how far each CreateGroupChatSession handler is
    group,      \* the session it creates, its members, those not inserted yet
    created,    \* history: the groups whose handler returned success
    mark_reply  \* the last MarkSessionRead: whether the row was there, and the answer

serviceVars == <<create_pc, group, created, mark_reply>>

CreatePCs == {"idle", "begun", "inserting", "committed"}
GroupDraft == [session : Sessions, members : SUBSET Users, left : SUBSET Users]
Group == [session : Sessions, members : SUBSET Users, returned : SUBSET Users]
MarkReply == [member : BOOLEAN, status : {"ok", "not_found"}]

ServiceInit == /\ create_pc = [c \in Creators |-> "idle"]
               /\ group = [c \in Creators |-> NoDraft]
               /\ created = {}
               /\ mark_reply = {}

ServiceTypeOK == /\ create_pc \in [Creators -> CreatePCs]
                 /\ group \in [Creators -> GroupDraft \cup {NoDraft}]
                 /\ \A c \in Creators : create_pc[c] # "idle" => group[c] \in GroupDraft
                 /\ created \subseteq Group
                 /\ mark_reply \subseteq MarkReply

-----------------------------------------------------------------------------
\* normalizeMemberIDs: the creator and the listed users, each once.
normalizeMemberIDs(creator, ids) == {creator} \cup ids

\* The session id is a clock reading: two handlers, or a handler and a row
\* left by an earlier process, may come by the same one.
CreateGroupChatSession(c, s, creator, ids) ==
    /\ create_pc[c] = "idle"
    /\ create_pc' = [create_pc EXCEPT ![c] = "begun"]
    /\ LET all == normalizeMemberIDs(creator, ids) IN
       group' = [group EXCEPT ![c] = [session |-> s, members |-> all, left |-> all]]
    /\ UNCHANGED <<clock, tables, row_lock, created, mark_reply>>

\* Mutant: session_id has no unique key.
InsertSessionNoKey(c) ==
    LET s == group[c].session IN
    /\ create_pc[c] = "begun"
    /\ row_lock[s] = NoHandler
    /\ row_lock' = [row_lock EXCEPT ![s] = c]
    /\ create_pc' = [create_pc EXCEPT ![c] = "inserting"]
    /\ UNCHANGED <<clock, tables, group, created, mark_reply>>

\* INSERT INTO chat_sessions: unique on session_id, waits for an uncommitted
\* row with the same id.
InsertSession(c) ==
    LET s == group[c].session IN
    /\ create_pc[c] = "begun"
    /\ s \notin chat_sessions
    /\ row_lock[s] = NoHandler
    /\ row_lock' = [row_lock EXCEPT ![s] = c]
    /\ create_pc' = [create_pc EXCEPT ![c] = "inserting"]
    /\ UNCHANGED <<clock, tables, group, created, mark_reply>>

InsertMember(c, u) ==
    /\ create_pc[c] = "inserting"
    /\ u \in group[c].left
    /\ group' = [group EXCEPT ![c].left = @ \ {u}]
    /\ UNCHANGED <<clock, tables, row_lock, create_pc, created, mark_reply>>

CommitGroup(c) ==
    LET s == group[c].session IN
    /\ create_pc[c] = "inserting"
    /\ group[c].left = {}
    /\ chat_sessions' = chat_sessions \cup {s}
    /\ last_seq' = [last_seq EXCEPT ![s] = 0]
    /\ last_message_at' = [last_message_at EXCEPT ![s] = 0]
    /\ members' = [members EXCEPT ![s] = group[c].members]
    /\ last_read_seq' = [last_read_seq EXCEPT ![s] = [u \in Users |-> 0]]
    /\ row_lock' = Unlocked(c)
    /\ create_pc' = [create_pc EXCEPT ![c] = "committed"]
    /\ UNCHANGED <<clock, messages, group, created, mark_reply>>

\* The member rows are read back, outside the transaction, and returned.
ReplyGroup(c) ==
    LET s == group[c].session IN
    /\ create_pc[c] = "committed"
    /\ created' = created \cup {[session |-> s, members |-> group[c].members,
                                returned |-> members[s]]}
    /\ create_pc' = [create_pc EXCEPT ![c] = "idle"]
    /\ group' = [group EXCEPT ![c] = NoDraft]
    /\ UNCHANGED <<clock, tables, row_lock, mark_reply>>

\* Before the commit an error rolls everything back; after it the caller gets
\* an error for a session that exists.
CreateFails(c) ==
    /\ create_pc[c] # "idle"
    /\ row_lock' = Unlocked(c)
    /\ create_pc' = [create_pc EXCEPT ![c] = "idle"]
    /\ group' = [group EXCEPT ![c] = NoDraft]
    /\ UNCHANGED <<clock, tables, created, mark_reply>>

InsertSessionRejected(c) == /\ create_pc[c] = "begun"
                            /\ group[c].session \in chat_sessions
                            /\ CreateFails(c)

-----------------------------------------------------------------------------
\* Mutant: the position is overwritten, without GREATEST.
MarkSessionReadAny(s, u, q) ==
    LET changed == u \in members[s] /\ q # last_read_seq[s][u] IN
    /\ last_read_seq' = IF changed THEN [last_read_seq EXCEPT ![s][u] = q]
                                   ELSE last_read_seq
    /\ mark_reply' = {[member |-> u \in members[s],
                       status |-> IF changed THEN "ok" ELSE "not_found"]}
    /\ UNCHANGED <<clock, chat_sessions, last_seq, last_message_at, members,
                   messages, row_lock, create_pc, group, created>>

\* UPDATE ... SET last_read_seq = GREATEST(last_read_seq, q).  The driver
\* counts changed rows, and 0 of them is answered NotFound.
MarkSessionRead(s, u, q) ==
    LET changed == u \in members[s] /\ q > last_read_seq[s][u] IN
    /\ last_read_seq' = IF changed THEN [last_read_seq EXCEPT ![s][u] = q]
                                   ELSE last_read_seq
    /\ mark_reply' = {[member |-> u \in members[s],
                       status |-> IF changed THEN "ok" ELSE "not_found"]}
    /\ UNCHANGED <<clock, chat_sessions, last_seq, last_message_at, members,
                   messages, row_lock, create_pc, group, created>>

\* Mutant: no test for a read position beyond the last message.
UnreadDifference(s, u) == last_seq[s] - last_read_seq[s][u]

\* One row of GetChatSessionList(u).
UnreadCount(s, u) == IF last_seq[s] > last_read_seq[s][u]
                     THEN last_seq[s] - last_read_seq[s][u] ELSE 0

GetChatSessionList(u) ==
    {[session |-> s, unread |-> UnreadCount(s, u)] :
        s \in {t \in chat_sessions : u \in members[t]}}

CreateStep(c) == \/ InsertSession(c) \/ InsertSessionRejected(c)
                 \/ \E u \in Users : InsertMember(c, u)
                 \/ CommitGroup(c) \/ ReplyGroup(c)

ServiceNext ==
    \/ \E c \in Creators :
          \/ \E s \in Sessions, u \in Users, ids \in SUBSET Users :
                 CreateGroupChatSession(c, s, u, ids)
          \/ CreateStep(c)
          \/ CreateFails(c)
    \/ \E s \in Sessions, u \in Users, q \in ReadSeqs : MarkSessionRead(s, u, q)
=============================================================================
