------------------------------ MODULE Reading ------------------------------
(* How the devices of the members of one session read its messages: pages of *)
(* recent, earlier and unread messages, cut to the limit that was asked for, *)
(* while messages are stored and read marks arrive from several sides.  The  *)
(* log and the marks are those of MessageLog, which ChatDB implements: every *)
(* page is one SELECT, and a message is known by its session_seq.            *)
EXTENDS Integers, FiniteSets, SequencesExt

CONSTANTS
    Users, Devices,
    Another,       \* the other members: their marks concern nobody here
    OwnerOf,       \* whose device it is
    Limits,        \* the limits asked for; 0 for none given
    Width,         \* limits are cut to this many bits (32)
    RecentDefault, \* 20, in the gateway and in the repository
    UnreadDefault, \* 50, in both
    MaxSeq         \* bound: messages of the session

ASSUME AnotherAssumption == Another \notin Users
ASSUME OwnerAssumption == OwnerOf \in [Devices -> Users]
ASSUME LimitAssumption == /\ Limits \subseteq Nat
                          /\ Width \in Nat
                          /\ 2^Width \in Nat
                          /\ RecentDefault \in 1 .. 2^Width - 1
                          /\ UnreadDefault \in 1 .. 2^Width - 1
                          /\ MaxSeq \in Nat

VARIABLES
    log,     \* the sender of each message, by session_seq
    mark,    \* last_read_seq of each member
    scrollers, \* devices that scroll back; the others read on (never changes: a
               \* device that does both does two things that share no state)
    marking, \* marks of senders that messagetransmit has still to make
    shown,   \* history: the unread messages that the devices of each user have got
    cursor,  \* the last message a device has read
    scroll,  \* the messages a device shows, as it got them: earlier pages first
    answer   \* the page on its way to each device

vars == <<scrollers, log, mark, marking, shown, cursor, scroll, answer>>

NoPage == [kind |-> "none", at |-> 0, asked |-> 0, seqs |-> <<>>, end |-> 0]

Init == /\ scrollers \in SUBSET Devices
        /\ log = <<>>
        /\ mark = [u \in Users |-> 0]
        /\ marking = {}
        /\ shown = [u \in Users |-> {}]
        /\ cursor = [d \in Devices |-> 0]
        /\ scroll = [d \in Devices |-> <<>>]
        /\ answer = [d \in Devices |-> NoPage]

Stored == 1..Len(log)

TypeOK == /\ scrollers \subseteq Devices
          /\ log \in Seq(Users \cup {Another})
          /\ mark \in [Users -> 0..Len(log)]
          /\ marking \subseteq Users \X Stored
          /\ shown \in [Users -> SUBSET Stored]
          /\ cursor \in [Devices -> 0..Len(log)]
          /\ scroll \in [Devices -> Seq(Stored)]
          /\ answer \in [Devices -> [kind : {"none", "recent", "history", "unread"},
                                     at : 0..Len(log), asked : Nat,
                                     seqs : Seq(Stored), end : 0..Len(log)]]

-----------------------------------------------------------------------------
(* messagetransmit and the read marks                                        *)

\* Mutant: the mark takes the number the next message will have.
SendMarksNext(u) == /\ Len(log) < MaxSeq
                    /\ log' = Append(log, u)
                    /\ marking' = marking \cup ({u} \ {Another}) \X {Len(log) + 2}
                    /\ UNCHANGED <<scrollers, mark, shown, cursor, scroll, answer>>

\* SendStringMessage stores the message, then marks it read for its sender.
SendStringMessage(u) == /\ Len(log) < MaxSeq
                        /\ log' = Append(log, u)
                        /\ marking' = marking \cup ({u} \ {Another}) \X {Len(log) + 1}
                        /\ UNCHANGED <<scrollers, mark, shown, cursor, scroll, answer>>

\* SET last_read_seq = GREATEST(last_read_seq, ?): a position only advances.
Advance(u, q) == mark' = [mark EXCEPT ![u] = IF q > @ THEN q ELSE @]

\* Best effort: the mark is made, or lost with the call.
MarkSender(m) == /\ m \in marking
                 /\ marking' = marking \ {m}
                 /\ Advance(m[1], m[2]) \/ UNCHANGED mark
                 /\ UNCHANGED <<scrollers, log, shown, cursor, scroll, answer>>

\* POST /read, for all that the device has read.  The gateway takes any number:
\* that a device sends no other is an assumption about the client.
MarkSessionRead(d) == /\ cursor[d] > 0
                      /\ Advance(OwnerOf[d], cursor[d])
                      /\ UNCHANGED <<scrollers, log, marking, shown, cursor, scroll, answer>>

-----------------------------------------------------------------------------
(* Pages                                                                     *)

\* Mutant: the limit is cut to half the bits.
CutShort(n) == n % 2^(Width \div 2)

\* uint32(v) of a positive int.
CutLimit(n) == n % 2^Width

\* The limit of a request: the gateway's default when none is given.
Asked(n, default) == IF n = 0 THEN default ELSE n

\* Mutant: LIMIT 0 when the limit is 0.
LimitAsIs(n, default) == n

\* The repository's own default for a limit of 0.
RowLimit(n, default) == IF n = 0 THEN default ELSE n

\* ORDER BY session_seq: the i-th row has i - 1 rows before it.
RowAsc(rows, i) == CHOOSE k \in rows : Cardinality({j \in rows : j < k}) = i - 1
RowDesc(rows, i) == CHOOSE k \in rows : Cardinality({j \in rows : j > k}) = i - 1

\* LIMIT n.
Fewer(rows, n) == IF n < Cardinality(rows) THEN n ELSE Cardinality(rows)
Ascending(rows, n) == [i \in 1..Fewer(rows, n) |-> RowAsc(rows, i)]
Descending(rows, n) == [i \in 1..Fewer(rows, n) |-> RowDesc(rows, i)]

GetRecentMessages(n) == Reverse(Descending(Stored, RowLimit(n, RecentDefault)))

\* Mutant: the rows are not put back in order.
HistoryNotReversed(before, n) ==
    IF before = 0 THEN GetRecentMessages(RowLimit(n, RecentDefault))
    ELSE Descending({k \in Stored : k < before}, RowLimit(n, RecentDefault))

GetHistoryMessages(before, n) ==
    IF before = 0 THEN GetRecentMessages(RowLimit(n, RecentDefault))
    ELSE Reverse(Descending({k \in Stored : k < before}, RowLimit(n, RecentDefault)))

\* Mutant: the newest of the unread messages, as in the query of the recent ones.
UnreadNewest(after, n) ==
    Reverse(Descending({k \in Stored : k > after}, RowLimit(n, UnreadDefault)))

GetUnreadMessages(after, n) ==
    Ascending({k \in Stored : k > after}, RowLimit(n, UnreadDefault))

Reply(d, kind, at, asked, seqs) ==
    /\ answer[d] = NoPage
    /\ answer' = [answer EXCEPT ![d] = [kind |-> kind, at |-> at, asked |-> asked,
                                        seqs |-> seqs, end |-> Len(log)]]
    /\ UNCHANGED <<scrollers, log, mark, marking, shown, cursor, scroll>>

handleGetRecentMessages(d, n) ==
    LET asked == Asked(n, RecentDefault)
    IN  Reply(d, "recent", 0, asked, GetRecentMessages(CutLimit(asked)))

handleGetUnreadMessages(d, n) ==
    LET asked == Asked(n, UnreadDefault)
    IN  Reply(d, "unread", cursor[d], asked, GetUnreadMessages(cursor[d], CutLimit(asked)))

\* A gRPC only call: its limit is a uint32, and 0 takes the repository's default.
GetHistory(d, n) ==
    LET before == IF scroll[d] = <<>> THEN 0 ELSE Head(scroll[d])
    IN  /\ n < 2^Width
        /\ Reply(d, IF before = 0 THEN "recent" ELSE "history", before,
                 Asked(n, RecentDefault), GetHistoryMessages(before, n))

-----------------------------------------------------------------------------
(* Devices: they take last_read_seq from the list of sessions, go on from the *)
(* last message they have, and scroll back from the first.                   *)

GetChatSessionList(d) == /\ cursor' = [cursor EXCEPT ![d] = mark[OwnerOf[d]]]
                         /\ UNCHANGED <<scrollers, log, mark, marking, shown, scroll, answer>>

Receive(d) ==
    LET page == answer[d]
    IN  /\ page # NoPage
        /\ answer' = [answer EXCEPT ![d] = NoPage]
        /\ IF page.kind = "unread" /\ page.seqs # <<>>
           THEN /\ shown' = [shown EXCEPT ![OwnerOf[d]] = @ \cup ToSet(page.seqs)]
                /\ cursor' = [cursor EXCEPT ![d] = Last(page.seqs)]
           ELSE UNCHANGED <<shown, cursor>>
        /\ scroll' = CASE page.kind = "recent" -> [scroll EXCEPT ![d] = page.seqs]
                       [] page.kind = "history" -> [scroll EXCEPT ![d] = page.seqs \o @]
                       [] OTHER -> scroll
        /\ UNCHANGED <<scrollers, log, mark, marking>>

\* The call fails or times out, or its answer is lost.
Lose(d) == /\ answer[d] # NoPage
           /\ answer' = [answer EXCEPT ![d] = NoPage]
           /\ UNCHANGED <<scrollers, log, mark, marking, shown, cursor, scroll>>

\* What the gateway routes under /api/sessions/{id}/.
handleSessionSubroutes(d) ==
    \/ /\ d \notin scrollers
       /\ MarkSessionRead(d) \/ \E n \in Limits : handleGetUnreadMessages(d, n)
    \/ /\ d \in scrollers
       /\ \E n \in Limits : handleGetRecentMessages(d, n)

routes == \/ \E u \in Users \cup {Another} : SendStringMessage(u)
          \/ \E d \in Devices \ scrollers : GetChatSessionList(d)
          \/ \E d \in Devices : handleSessionSubroutes(d)

Next == \/ routes
        \/ \E d \in scrollers, n \in Limits : GetHistory(d, n)
        \/ \E m \in marking : MarkSender(m)
        \/ \E d \in Devices : Receive(d) \/ Lose(d)

Spec == Init /\ [][Next]_vars

-----------------------------------------------------------------------------
\* Nothing is marked read unseen: every message up to a member's last_read_seq has
\* reached a device of the member, or came before a message of the member's own,
\* whose automatic mark passes it (README.md, section 4.2).
MarkedWasShown == \A u \in Users : \A k \in 1..mark[u] :
    k \in shown[u] \/ \E own \in k..mark[u] : log[own] = u

\* How many rows there were to be read, in the direction of the page, when it was.
RowsFor(page) == CASE page.kind = "unread"  -> page.end - page.at
                   [] page.kind = "recent"  -> page.end
                   [] page.kind = "history" -> page.at - 1
                   [] OTHER -> 0

\* No page is longer than was asked for, and one that is shorter is the last: it
\* reaches the end of the log, or its beginning, as it was when the page was read.
\* A limit that does not fit its width is cut, and then a short page says nothing.
ShortIsLast == \A d \in Devices :
    LET page == answer[d]
    IN  /\ Len(page.seqs) <= page.asked
        /\ page.asked < 2^Width /\ Len(page.seqs) < RowsFor(page) =>
               Len(page.seqs) = page.asked

\* Whatever limit is accepted, even one that is cut to 0, an empty page means that
\* there is nothing left to read: a device that goes on always gets somewhere.
EmptyIsEnd == \A d \in Devices : answer[d].seqs = <<>> => RowsFor(answer[d]) = 0

\* Scrolling back while the log grows neither repeats nor skips a message: what a
\* device shows is one stretch of the log, in order.
ScrollContiguous == \A d \in Devices : \A i \in 1 .. Len(scroll[d]) - 1 :
    scroll[d][i + 1] = scroll[d][i] + 1
=============================================================================
