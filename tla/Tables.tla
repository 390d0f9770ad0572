------------------------------- MODULE Tables -------------------------------
(* The MySQL schema shared by the chat service and the message storage       *)
(* service (migrations/), as committed state.  Row locks are InnoDB's: a     *)
(* transaction that inserts, updates or selects a chat_sessions row FOR      *)
(* UPDATE owns it until it commits or rolls back.  What a transaction has    *)
(* written and not committed is kept with the transaction (MessageStorage,   *)
(* ChatService), since no other transaction can see it.                      *)
EXTENDS Integers, FiniteSets

CONSTANTS
    Users,      \* user ids
    Sessions,   \* session ids: the values "s_<UnixNano>" can take
    Storers,    \* concurrent StoreStringMessage handlers
    Creators,   \* concurrent CreateGroupChatSession handlers
    NoHandler,  \* "nobody holds this row"
    NoDraft,    \* "no transaction is open"
    MaxClock    \* bound on the clock

ASSUME HandlerAssumption == /\ NoHandler \notin Storers \cup Creators
                            /\ Storers \cap Creators = {}
ASSUME ClockAssumption == MaxClock \in Nat \ {0}

VARIABLES
    clock,            \* the wall clock, in the unit of UnixNano
    chat_sessions,    \* the session ids that have a row
    last_seq,         \* chat_sessions.last_seq
    last_message_at,  \* chat_sessions.last_message_at, 0 for NULL
    members,          \* chat_session_members: the user ids of each session
    last_read_seq,    \* chat_session_members.last_read_seq
    messages,         \* the rows of messages
    row_lock          \* who owns each chat_sessions row

tables == <<chat_sessions, last_seq, last_message_at, members,
            last_read_seq, messages>>

\* A row of the messages table.
Row == [message_id : Nat, session_id : Sessions, session_seq : Nat,
        sender_id : Users, created_at : Nat]

RowsOf(s) == {r \in messages : r.session_id = s}

\* A transaction that ends gives back every row it owns.
Unlocked(h) == [s \in Sessions |-> IF row_lock[s] = h THEN NoHandler
                                                      ELSE row_lock[s]]

TablesInit == /\ clock = 1
              /\ chat_sessions = {}
              /\ last_seq = [s \in Sessions |-> 0]
              /\ last_message_at = [s \in Sessions |-> 0]
              /\ members = [s \in Sessions |-> {}]
              /\ last_read_seq = [s \in Sessions |-> [u \in Users |-> 0]]
              /\ messages = {}
              /\ row_lock = [s \in Sessions |-> NoHandler]

TablesTypeOK == /\ clock \in Nat
                /\ chat_sessions \subseteq Sessions
                /\ last_seq \in [Sessions -> Nat]
                /\ last_message_at \in [Sessions -> Nat]
                /\ members \in [Sessions -> SUBSET Users]
                /\ last_read_seq \in [Sessions -> [Users -> Nat]]
                /\ messages \subseteq Row
                /\ row_lock \in [Sessions -> Storers \cup Creators \cup {NoHandler}]
=============================================================================
