--------------------------- MODULE ReadingProofs ---------------------------
(* TLAPS proofs about Reading: for any users, devices, limits and width of a *)
(* limit.                                                                    *)
EXTENDS Reading, FiniteSetTheorems, TLAPS

\* What user u needs not be shown any more up to message q: u was, or u sent it or
\* a later one of the first q.
Passed(u, q) == \A k \in 1..q : k \in shown[u] \/ \E own \in k..q : log[own] = u

\* MarkedWasShown, and the same of all that a mark can still become: a device's
\* cursor, the start of an unread page on its way, the message a sender's mark is
\* for.
NothingMissed ==
    /\ \A u \in Users : Passed(u, mark[u])
    /\ \A d \in Devices : Passed(OwnerOf[d], cursor[d])
    /\ \A d \in Devices : answer[d].kind = "unread" => Passed(OwnerOf[d], answer[d].at)
    /\ \A m \in marking : log[m[2]] = m[1]

\* The message before the first of a page.
Before(page) == CASE page.kind = "unread"  -> page.at
                  [] page.kind = "recent"  -> page.end - Len(page.seqs)
                  [] page.kind = "history" -> page.at - 1 - Len(page.seqs)
                  [] OTHER -> 0

\* A page is one stretch of the log.
IsStretch(page) == \A i \in 1..Len(page.seqs) : page.seqs[i] = Before(page) + i

\* Where a page was asked from: an earlier page ends where the scroll begins, which
\* stands still until the page is there.
IsAnswer(d, page) ==
    /\ page.kind = "none" => page = NoPage
    /\ page.kind = "unread" => page.at <= page.end
    /\ page.kind = "history" => scroll[d] # <<>> /\ page.at = Head(scroll[d])

PagesFit == \A d \in Devices : IsStretch(answer[d]) /\ IsAnswer(d, answer[d])

\* The inductive invariant.
IInv == TypeOK /\ NothingMissed /\ PagesFit /\ ShortIsLast /\ EmptyIsEnd /\ ScrollContiguous

-----------------------------------------------------------------------------
(* Limits                                                                    *)

\* A limit that is cut fits its width and is no larger; one that fits is not cut.
LEMMA CutLimitFits ==
    ASSUME NEW n \in Nat
    PROVE  /\ CutLimit(n) \in 0 .. 2^Width - 1
           /\ CutLimit(n) <= n
           /\ n < 2^Width => CutLimit(n) = n
<1> DEFINE M == 2^Width
<1>1. M \in Nat /\ M > 0
  BY LimitAssumption
<1> HIDE DEF M
<1>2. /\ n % M \in 0 .. M - 1
      /\ n % M <= n
      /\ n < M => n % M = n
  BY <1>1, SMT
<1> QED
  BY <1>2 DEF CutLimit, M

\* Neither default is 0, so no page is asked for with a limit of 0.
LEMMA LimitIsPositive ==
    ASSUME NEW n \in Nat, NEW default \in 1 .. 2^Width - 1
    PROVE  /\ Asked(n, default) \in Nat \ {0}
           /\ RowLimit(n, default) \in Nat \ {0}
           /\ RowLimit(n, default) = Asked(n, default)
           /\ RowLimit(RowLimit(n, default), default) = RowLimit(n, default)
<1>1. 2^Width \in Nat
  BY LimitAssumption
<1> QED
  BY <1>1 DEF Asked, RowLimit

\* The limit a SELECT runs with, after the gateway's default, the cut and the
\* repository's default: at least one row, never more than were asked for, and just
\* as many when the limit fits its width.
LEMMA SelectLimit ==
    ASSUME NEW n \in Nat, NEW default \in 1 .. 2^Width - 1
    PROVE  LET asked == Asked(n, default)
               rows  == RowLimit(CutLimit(asked), default)
           IN  /\ rows \in 1..asked
               /\ asked < 2^Width => rows = asked
<1> DEFINE asked == Asked(n, default)
           M == 2^Width
<1>1. M \in Nat /\ asked \in Nat \ {0}
  BY LimitAssumption, LimitIsPositive
<1>2. /\ CutLimit(asked) \in 0 .. M - 1
      /\ CutLimit(asked) <= asked
      /\ asked < M => CutLimit(asked) = asked
  BY <1>1, CutLimitFits
<1>3. default \in 1 .. M - 1
  OBVIOUS
<1> HIDE DEF asked, M
<1>4. /\ RowLimit(CutLimit(asked), default) \in 1..asked
      /\ asked < M => RowLimit(CutLimit(asked), default) = asked
  <2>1. CASE CutLimit(asked) = 0
    <3>1. asked >= M
      BY <1>1, <1>2, <2>1
    <3> QED
      BY <1>1, <1>3, <2>1, <3>1 DEF RowLimit
  <2>2. CASE CutLimit(asked) # 0
    BY <1>1, <1>2, <2>2 DEF RowLimit
  <2> QED
    BY <2>1, <2>2
<1> QED
  BY <1>4 DEF asked, M

-----------------------------------------------------------------------------
(* Pages of a stretch of the log                                             *)

\* In a..b, the row with i - 1 rows before it is the i-th of the stretch.
LEMMA RowAscOfStretch ==
    ASSUME NEW a \in Int, NEW b \in Int, NEW i \in 1 .. b - a + 1
    PROVE  RowAsc(a..b, i) = a + i - 1
<1>1. \A k \in a..b : Cardinality({j \in a..b : j < k}) = k - a
  <2> TAKE k \in a..b
  <2>1. {j \in a..b : j < k} = a .. (k - 1)
    OBVIOUS
  <2>2. Cardinality(a .. (k - 1)) = IF a > k - 1 THEN 0 ELSE (k - 1) - a + 1
    BY FS_Interval
  <2>3. Cardinality(a .. (k - 1)) = k - a
    BY <2>2
  <2> QED
    BY <2>1, <2>3
<1>2. a + i - 1 \in a..b
  OBVIOUS
<1>3. \A k \in a..b : Cardinality({j \in a..b : j < k}) = i - 1 <=> k = a + i - 1
  BY <1>1
<1> QED
  BY <1>2, <1>3 DEF RowAsc

\* And from the other end.
LEMMA RowDescOfStretch ==
    ASSUME NEW a \in Int, NEW b \in Int, NEW i \in 1 .. b - a + 1
    PROVE  RowDesc(a..b, i) = b - i + 1
<1>1. \A k \in a..b : Cardinality({j \in a..b : j > k}) = b - k
  <2> TAKE k \in a..b
  <2>1. {j \in a..b : j > k} = (k + 1) .. b
    OBVIOUS
  <2>2. Cardinality((k + 1) .. b) = IF k + 1 > b THEN 0 ELSE b - (k + 1) + 1
    BY FS_Interval
  <2>3. Cardinality((k + 1) .. b) = b - k
    BY <2>2
  <2> QED
    BY <2>1, <2>3
<1>2. b - i + 1 \in a..b
  OBVIOUS
<1>3. \A k \in a..b : Cardinality({j \in a..b : j > k}) = i - 1 <=> k = b - i + 1
  BY <1>1
<1> QED
  BY <1>2, <1>3 DEF RowDesc

\* LIMIT n leaves as many rows as there are, or n.
LEMMA FewerOfStretch ==
    ASSUME NEW a \in Nat, NEW b \in Nat, a <= b + 1, NEW n \in Nat
    PROVE  /\ Fewer(a..b, n) \in Nat
           /\ Fewer(a..b, n) = IF n < b - a + 1 THEN n ELSE b - a + 1
<1>1. Cardinality(a..b) = IF a > b THEN 0 ELSE b - a + 1
  BY FS_Interval
<1> QED
  BY <1>1 DEF Fewer

\* Ascending, a page of a stretch is its beginning.
LEMMA AscendingOfStretch ==
    ASSUME NEW a \in Nat, NEW b \in Nat, a <= b + 1, NEW n \in Nat
    PROVE  LET page == Ascending(a..b, n)
           IN  /\ page \in Seq(a..b)
               /\ Len(page) = IF n < b - a + 1 THEN n ELSE b - a + 1
               /\ \A i \in 1..Len(page) : page[i] = a + i - 1
<1> DEFINE len == Fewer(a..b, n)
<1>1. /\ len \in Nat
      /\ len = IF n < b - a + 1 THEN n ELSE b - a + 1
  BY FewerOfStretch
<1> HIDE DEF len
<1>2. \A i \in 1..len : RowAsc(a..b, i) = a + i - 1 /\ a + i - 1 \in a..b
  BY <1>1, RowAscOfStretch
<1>3. Ascending(a..b, n) = [i \in 1..len |-> RowAsc(a..b, i)]
  BY DEF Ascending, len
<1> QED
  BY <1>1, <1>2, <1>3

\* Descending and put back in order, it is its end.
LEMMA DescendingOfStretch ==
    ASSUME NEW a \in Nat, NEW b \in Nat, a <= b + 1, NEW n \in Nat
    PROVE  LET page == Reverse(Descending(a..b, n))
           IN  /\ page \in Seq(a..b)
               /\ Len(page) = IF n < b - a + 1 THEN n ELSE b - a + 1
               /\ \A i \in 1..Len(page) : page[i] = b - Len(page) + i
<1> DEFINE len == Fewer(a..b, n)
           rows == Descending(a..b, n)
<1>1. /\ len \in Nat
      /\ len = IF n < b - a + 1 THEN n ELSE b - a + 1
  BY FewerOfStretch
<1>2. rows = [i \in 1..len |-> RowDesc(a..b, i)]
  BY DEF Descending
<1> HIDE DEF len, rows
<1>3. \A i \in 1..len : RowDesc(a..b, i) = b - i + 1 /\ b - i + 1 \in a..b
  BY <1>1, RowDescOfStretch
<1>4. /\ rows \in Seq(a..b)
      /\ Len(rows) = len
      /\ \A i \in 1..len : rows[i] = b - i + 1
  BY <1>1, <1>2, <1>3
<1>5. Reverse(rows) = [i \in 1..len |-> rows[(len - i) + 1]]
  BY <1>4 DEF Reverse
<1>6. \A i \in 1..len : rows[(len - i) + 1] = b - len + i /\ b - len + i \in a..b
  BY <1>1, <1>4
<1>7. /\ Reverse(rows) \in Seq(a..b)
      /\ Len(Reverse(rows)) = len
      /\ \A i \in 1..len : Reverse(rows)[i] = b - len + i
  BY <1>1, <1>5, <1>6
<1> QED
  BY <1>1, <1>7 DEF rows

\* The latest messages: the end of the log.
LEMMA RecentPage ==
    ASSUME log \in Seq(Users \cup {Another}), NEW n \in Nat
    PROVE  LET page == GetRecentMessages(n)
               rows == RowLimit(n, RecentDefault)
           IN  /\ page \in Seq(Stored)
               /\ Len(page) = IF rows < Len(log) THEN rows ELSE Len(log)
               /\ \A i \in 1..Len(page) : page[i] = Len(log) - Len(page) + i
<1> DEFINE rows == RowLimit(n, RecentDefault)
           L == Len(log)
           a == 1
<1>1. rows \in Nat /\ L \in Nat /\ a \in Nat /\ a <= L + 1
  BY LimitAssumption, LimitIsPositive
<1>2. GetRecentMessages(n) = Reverse(Descending(a..L, rows))
  BY DEF GetRecentMessages, Stored
<1>3. Stored = a..L
  BY DEF Stored
<1> HIDE DEF rows, L, a
<1>4. LET page == Reverse(Descending(a..L, rows))
      IN  /\ page \in Seq(a..L)
          /\ Len(page) = IF rows < L - a + 1 THEN rows ELSE L - a + 1
          /\ \A i \in 1..Len(page) : page[i] = L - Len(page) + i
  BY <1>1, DescendingOfStretch
<1> QED
  BY <1>1, <1>2, <1>3, <1>4 DEF rows, L, a

\* The messages before one: the stretch that ends there.
LEMMA HistoryPage ==
    ASSUME log \in Seq(Users \cup {Another}), NEW n \in Nat,
           NEW before \in 1..Len(log)
    PROVE  LET page == GetHistoryMessages(before, n)
               rows == RowLimit(n, RecentDefault)
           IN  /\ page \in Seq(Stored)
               /\ Len(page) = IF rows < before - 1 THEN rows ELSE before - 1
               /\ \A i \in 1..Len(page) : page[i] = before - 1 - Len(page) + i
<1> DEFINE rows == RowLimit(n, RecentDefault)
           b == before - 1
           a == 1
<1>1. rows \in Nat /\ b \in Nat /\ a \in Nat /\ a <= b + 1
  BY LimitAssumption, LimitIsPositive
<1>2. {k \in Stored : k < before} = a..b
  BY DEF Stored
<1>3. GetHistoryMessages(before, n) = Reverse(Descending(a..b, rows))
  <2>1. before # 0
    OBVIOUS
  <2> HIDE DEF a, b
  <2> QED
    BY <1>2, <2>1 DEF GetHistoryMessages
<1>4. Seq(a..b) \subseteq Seq(Stored)
  <2>1. a..b \subseteq Stored
    BY DEF Stored
  <2> QED
    BY <2>1
<1> HIDE DEF rows, b, a
<1>5. LET page == Reverse(Descending(a..b, rows))
      IN  /\ page \in Seq(a..b)
          /\ Len(page) = IF rows < b - a + 1 THEN rows ELSE b - a + 1
          /\ \A i \in 1..Len(page) : page[i] = b - Len(page) + i
  BY <1>1, DescendingOfStretch
<1> QED
  BY <1>1, <1>3, <1>4, <1>5 DEF rows, b, a

\* The messages after one: the stretch that begins there.
LEMMA UnreadPage ==
    ASSUME log \in Seq(Users \cup {Another}), NEW n \in Nat,
           NEW after \in 0..Len(log)
    PROVE  LET page == GetUnreadMessages(after, n)
               rows == RowLimit(n, UnreadDefault)
           IN  /\ page \in Seq(Stored)
               /\ Len(page) = IF rows < Len(log) - after THEN rows ELSE Len(log) - after
               /\ \A i \in 1..Len(page) : page[i] = after + i
<1> DEFINE rows == RowLimit(n, UnreadDefault)
           a == after + 1
           L == Len(log)
<1>1. rows \in Nat /\ a \in Nat /\ L \in Nat /\ a <= L + 1
  BY LimitAssumption, LimitIsPositive
<1>2. {k \in Stored : k > after} = a..L
  BY DEF Stored
<1>3. GetUnreadMessages(after, n) = Ascending(a..L, rows)
  BY <1>2 DEF GetUnreadMessages
<1>4. Seq(a..L) \subseteq Seq(Stored)
  <2>1. a..L \subseteq Stored
    BY DEF Stored
  <2> QED
    BY <2>1
<1> HIDE DEF rows, a, L
<1>5. LET page == Ascending(a..L, rows)
      IN  /\ page \in Seq(a..L)
          /\ Len(page) = IF rows < L - a + 1 THEN rows ELSE L - a + 1
          /\ \A i \in 1..Len(page) : page[i] = a + i - 1
  BY <1>1, AscendingOfStretch
<1> QED
  BY <1>1, <1>3, <1>4, <1>5 DEF rows, a, L

-----------------------------------------------------------------------------
(* What a handler answers                                                    *)

Pages == [kind : {"none", "recent", "history", "unread"}, at : 0..Len(log),
          asked : Nat, seqs : Seq(Stored), end : 0..Len(log)]

\* What ShortIsLast and EmptyIsEnd say of one page.
IsCut(page) == /\ Len(page.seqs) <= page.asked
               /\ page.asked < 2^Width /\ Len(page.seqs) < RowsFor(page) =>
                      Len(page.seqs) = page.asked
               /\ page.seqs = <<>> => RowsFor(page) = 0

\* What the answer to a device satisfies when it is made.
IsGood(d, page) == /\ page \in Pages
                   /\ page.kind = "unread" => page.at = cursor[d]
                   /\ IsStretch(page) /\ IsAnswer(d, page) /\ IsCut(page)

\* A page of as many rows as the SELECT's limit, or as there are, is cut as it should
\* be: the limit is at most what was asked for, and just that if it fits its width.
LEMMA PageIsCut ==
    ASSUME NEW page, page.seqs \in Seq(Stored), page.asked \in Nat \ {0},
           RowsFor(page) \in Nat, NEW rows \in 1..page.asked,
           page.asked < 2^Width => rows = page.asked,
           Len(page.seqs) = IF rows < RowsFor(page) THEN rows ELSE RowsFor(page)
    PROVE  IsCut(page)
<1>1. 2^Width \in Nat
  BY LimitAssumption
<1> DEFINE R == RowsFor(page)
           M == 2^Width
           L == Len(page.seqs)
           A == page.asked
<1>2. page.seqs = <<>> => L = 0
  OBVIOUS
<1>3. /\ R \in Nat /\ M \in Nat /\ A \in Nat \ {0} /\ rows \in 1..A
      /\ A < M => rows = A
      /\ L = IF rows < R THEN rows ELSE R
  BY <1>1
<1> HIDE DEF R, M, L, A
<1>4. L <= A /\ (A < M /\ L < R => L = A) /\ (L = 0 => R = 0)
  BY <1>3
<1> QED
  BY <1>2, <1>4 DEF IsCut, R, M, L, A

\* handleGetRecentMessages answers the end of the log.
LEMMA RecentIsGood ==
    ASSUME IInv, NEW d \in Devices, NEW n \in Limits, handleGetRecentMessages(d, n)
    PROVE  \E page : IsGood(d, page) /\ answer' = [answer EXCEPT ![d] = page]
<1> DEFINE asked == Asked(n, RecentDefault)
           rows == RowLimit(CutLimit(asked), RecentDefault)
           seqs == GetRecentMessages(CutLimit(asked))
           page == [kind |-> "recent", at |-> 0, asked |-> asked,
                    seqs |-> seqs, end |-> Len(log)]
<1>1. n \in Nat /\ RecentDefault \in 1 .. 2^Width - 1
  BY LimitAssumption
<1>2. log \in Seq(Users \cup {Another}) /\ Len(log) \in Nat
  BY DEF IInv, TypeOK
<1>3. asked \in Nat \ {0} /\ CutLimit(asked) \in Nat
  <2>1. asked \in Nat \ {0}
    BY <1>1, LimitIsPositive
  <2>2. CutLimit(asked) \in 0 .. 2^Width - 1 /\ 2^Width \in Nat
    BY <2>1, CutLimitFits, LimitAssumption
  <2> QED
    BY <2>1, <2>2
<1>4. rows \in 1..asked /\ (asked < 2^Width => rows = asked)
  BY <1>1, SelectLimit
<1>5. /\ seqs \in Seq(Stored)
      /\ Len(seqs) = IF rows < Len(log) THEN rows ELSE Len(log)
      /\ \A i \in 1..Len(seqs) : seqs[i] = Len(log) - Len(seqs) + i
  BY <1>2, <1>3, RecentPage
<1>6. answer' = [answer EXCEPT ![d] = page]
  BY DEF handleGetRecentMessages, Reply
<1> HIDE DEF asked, rows, seqs
<1>7. IsCut(page)
  <2>1. RowsFor(page) = Len(log)
    BY DEF RowsFor
  <2>2. page.seqs = seqs /\ page.asked = asked
    OBVIOUS
  <2> HIDE DEF page
  <2> QED
    BY <1>2, <1>3, <1>4, <1>5, <2>1, <2>2, PageIsCut
<1>8. IsStretch(page)
  BY <1>5 DEF IsStretch, Before
<1>9. page \in Pages /\ IsAnswer(d, page) /\ page.kind # "unread"
  BY <1>2, <1>3, <1>5 DEF Pages, IsAnswer
<1> QED
  BY <1>6, <1>7, <1>8, <1>9 DEF IsGood

\* handleGetUnreadMessages answers the messages after the device's cursor.
LEMMA UnreadIsGood ==
    ASSUME IInv, NEW d \in Devices, NEW n \in Limits, handleGetUnreadMessages(d, n)
    PROVE  \E page : IsGood(d, page) /\ answer' = [answer EXCEPT ![d] = page]
<1> DEFINE asked == Asked(n, UnreadDefault)
           rows == RowLimit(CutLimit(asked), UnreadDefault)
           after == cursor[d]
           seqs == GetUnreadMessages(after, CutLimit(asked))
           page == [kind |-> "unread", at |-> after, asked |-> asked,
                    seqs |-> seqs, end |-> Len(log)]
<1>1. n \in Nat /\ UnreadDefault \in 1 .. 2^Width - 1
  BY LimitAssumption
<1>2. log \in Seq(Users \cup {Another}) /\ Len(log) \in Nat /\ after \in 0..Len(log)
  BY DEF IInv, TypeOK
<1>3. asked \in Nat \ {0} /\ CutLimit(asked) \in Nat
  <2>1. asked \in Nat \ {0}
    BY <1>1, LimitIsPositive
  <2>2. CutLimit(asked) \in 0 .. 2^Width - 1 /\ 2^Width \in Nat
    BY <2>1, CutLimitFits, LimitAssumption
  <2> QED
    BY <2>1, <2>2
<1>4. rows \in 1..asked /\ (asked < 2^Width => rows = asked)
  BY <1>1, SelectLimit
<1> DEFINE left == Len(log) - after
<1>5. /\ seqs \in Seq(Stored)
      /\ Len(seqs) = IF rows < left THEN rows ELSE left
      /\ \A i \in 1..Len(seqs) : seqs[i] = after + i
  <2> HIDE DEF after
  <2> QED
    BY <1>2, <1>3, UnreadPage
<1>6. answer' = [answer EXCEPT ![d] = page]
  BY DEF handleGetUnreadMessages, Reply
<1> HIDE DEF asked, rows, seqs
<1>7. IsCut(page)
  <2>1. RowsFor(page) = left
    BY DEF RowsFor
  <2>2. page.seqs = seqs /\ page.asked = asked
    OBVIOUS
  <2>3. left \in Nat
    BY <1>2
  <2> HIDE DEF page, left
  <2> QED
    BY <1>3, <1>4, <1>5, <2>1, <2>2, <2>3, PageIsCut
<1>8. IsStretch(page)
  BY <1>5 DEF IsStretch, Before
<1>9. page \in Pages /\ IsAnswer(d, page) /\ page.at = cursor[d]
  BY <1>2, <1>3, <1>5 DEF Pages, IsAnswer
<1> QED
  BY <1>6, <1>7, <1>8, <1>9 DEF IsGood

\* GetHistoryMessages answers the messages before the first that the device shows,
\* or the latest when it shows none.
LEMMA HistoryIsGood ==
    ASSUME IInv, NEW d \in Devices, NEW n \in Limits, GetHistory(d, n)
    PROVE  \E page : IsGood(d, page) /\ answer' = [answer EXCEPT ![d] = page]
<1> DEFINE asked == Asked(n, RecentDefault)
           before == IF scroll[d] = <<>> THEN 0 ELSE Head(scroll[d])
           kind == IF before = 0 THEN "recent" ELSE "history"
           seqs == GetHistoryMessages(before, n)
           page == [kind |-> kind, at |-> before, asked |-> asked,
                    seqs |-> seqs, end |-> Len(log)]
<1>1. n \in Nat /\ RecentDefault \in 1 .. 2^Width - 1
  BY LimitAssumption
<1>2. log \in Seq(Users \cup {Another}) /\ Len(log) \in Nat
  BY DEF IInv, TypeOK
<1>3. /\ asked \in Nat \ {0}
      /\ RowLimit(n, RecentDefault) = asked
      /\ RowLimit(asked, RecentDefault) = asked
  BY <1>1, LimitIsPositive
<1>4. scroll[d] # <<>> => before \in 1..Len(log)
  <2>1. scroll[d] \in Seq(Stored)
    BY DEF IInv, TypeOK
  <2> QED
    BY <2>1 DEF Stored
<1>5. answer' = [answer EXCEPT ![d] = page]
  BY DEF GetHistory, Reply
<1>6. CASE scroll[d] = <<>>
  <2>1. before = 0 /\ kind = "recent"
    BY <1>6
  <2>2. seqs = GetRecentMessages(asked)
    BY <1>3, <2>1 DEF GetHistoryMessages
  <2> HIDE DEF asked, before, kind, seqs
  <2>3. /\ seqs \in Seq(Stored)
        /\ Len(seqs) = IF asked < Len(log) THEN asked ELSE Len(log)
        /\ \A i \in 1..Len(seqs) : seqs[i] = Len(log) - Len(seqs) + i
    BY <1>2, <1>3, <2>2, RecentPage
  <2>4. IsCut(page)
    <3>1. RowsFor(page) = Len(log)
      BY <2>1 DEF RowsFor
    <3>2. page.seqs = seqs /\ page.asked = asked
      OBVIOUS
    <3> HIDE DEF page
    <3> QED
      BY <1>2, <1>3, <2>3, <3>1, <3>2, PageIsCut
  <2>5. IsStretch(page)
    BY <2>1, <2>3 DEF IsStretch, Before
  <2>6. page \in Pages /\ IsAnswer(d, page) /\ page.kind # "unread"
    BY <1>2, <1>3, <2>1, <2>3 DEF Pages, IsAnswer
  <2> QED
    BY <1>5, <2>4, <2>5, <2>6 DEF IsGood
<1>7. CASE scroll[d] # <<>>
  <2>1. before \in 1..Len(log) /\ kind = "history" /\ before = Head(scroll[d])
    BY <1>4, <1>7
  <2> HIDE DEF asked, before, kind
  <2>2. /\ seqs \in Seq(Stored)
        /\ Len(seqs) = IF asked < before - 1 THEN asked ELSE before - 1
        /\ \A i \in 1..Len(seqs) : seqs[i] = before - 1 - Len(seqs) + i
    BY <1>1, <1>2, <1>3, <2>1, HistoryPage
  <2> HIDE DEF seqs
  <2>3. IsCut(page)
    <3>1. RowsFor(page) = before - 1 /\ before - 1 \in Nat
      BY <2>1 DEF RowsFor
    <3>2. page.seqs = seqs /\ page.asked = asked
      OBVIOUS
    <3> HIDE DEF page
    <3> QED
      BY <1>2, <1>3, <2>2, <3>1, <3>2, PageIsCut
  <2>4. IsStretch(page)
    BY <2>1, <2>2 DEF IsStretch, Before
  <2>5. page \in Pages /\ IsAnswer(d, page) /\ page.kind # "unread"
    BY <1>2, <1>3, <1>7, <2>1, <2>2 DEF Pages, IsAnswer
  <2> QED
    BY <1>5, <2>3, <2>4, <2>5 DEF IsGood
<1> QED
  BY <1>6, <1>7

-----------------------------------------------------------------------------
(* The steps                                                                 *)

\* What a user has passed stays passed: messages and their senders do not change,
\* and what was shown was shown.
LEMMA PassedLasts ==
    ASSUME NEW u, NEW q \in 0..Len(log), Len(log) \in Nat, Passed(u, q),
           shown[u] \subseteq shown'[u], \A k \in 1..Len(log) : log'[k] = log[k]
    PROVE  Passed(u, q)'
<1> SUFFICES ASSUME NEW k \in 1..q
             PROVE  k \in shown'[u] \/ \E own \in k..q : log'[own] = u
  BY DEF Passed
<1>1. \A own \in k..q : own \in 1..Len(log)
  OBVIOUS
<1> QED
  BY <1>1 DEF Passed

\* A message is added, and its sender's mark is due.
LEMMA SendIInv ==
    ASSUME IInv, NEW u \in Users \cup {Another}, SendStringMessage(u)
    PROVE  IInv'
<1> DEFINE L == Len(log)
<1>1. /\ L \in Nat
      /\ log' = Append(log, u)
      /\ log' \in Seq(Users \cup {Another})
      /\ Len(log') = L + 1
      /\ log'[L + 1] = u
      /\ \A k \in 1..L : log'[k] = log[k]
  BY DEF IInv, TypeOK, SendStringMessage
<1>2. /\ marking' = marking \cup ({u} \ {Another}) \X {L + 1}
      /\ UNCHANGED <<scrollers, mark, shown, cursor, scroll, answer>>
  BY DEF SendStringMessage
<1>3. Stored = 1..L /\ Stored' = 1 .. L + 1 /\ Stored \subseteq Stored'
  BY <1>1 DEF Stored
<1>4. Seq(Stored) \subseteq Seq(Stored')
  BY <1>3
<1>5. TypeOK'
  <2>1. mark' \in [Users -> 0 .. L + 1] /\ cursor' \in [Devices -> 0 .. L + 1]
    BY <1>1, <1>2 DEF IInv, TypeOK
  <2>2. marking' \subseteq Users \X Stored'
    BY <1>1, <1>2, <1>3, AnotherAssumption DEF IInv, TypeOK
  <2>3. shown' \in [Users -> SUBSET Stored'] /\ scroll' \in [Devices -> Seq(Stored')]
    BY <1>2, <1>3, <1>4 DEF IInv, TypeOK
  <2>4. answer' \in [Devices -> [kind : {"none", "recent", "history", "unread"},
                                 at : 0 .. L + 1, asked : Nat,
                                 seqs : Seq(Stored'), end : 0 .. L + 1]]
    <3>1. Pages \subseteq [kind : {"none", "recent", "history", "unread"},
                           at : 0 .. L + 1, asked : Nat,
                           seqs : Seq(Stored'), end : 0 .. L + 1]
      BY <1>1, <1>4 DEF Pages
    <3>2. answer \in [Devices -> Pages]
      BY DEF IInv, TypeOK, Pages
    <3> QED
      BY <1>2, <3>1, <3>2
  <2>5. scrollers' \subseteq Devices
    BY <1>2 DEF IInv, TypeOK
  <2> QED
    BY <1>1, <2>1, <2>2, <2>3, <2>4, <2>5 DEF TypeOK
<1>6. NothingMissed'
  <2>1. \A w \in Users, q \in 0..L : Passed(w, q) => Passed(w, q)'
    BY <1>1, <1>2, PassedLasts
  <2>2. \A w \in Users : Passed(w, mark[w])'
    <3>1. \A w \in Users : mark[w] \in 0..L /\ Passed(w, mark[w])
      BY DEF IInv, TypeOK, NothingMissed
    <3> QED
      BY <1>2, <2>1, <3>1 DEF Passed
  <2>3. \A d \in Devices : Passed(OwnerOf[d], cursor[d])'
    <3>1. \A d \in Devices : OwnerOf[d] \in Users /\ cursor[d] \in 0..L /\ Passed(OwnerOf[d], cursor[d])
      BY OwnerAssumption DEF IInv, TypeOK, NothingMissed
    <3> QED
      BY <1>2, <2>1, <3>1 DEF Passed
  <2>4. \A d \in Devices : answer'[d].kind = "unread" => Passed(OwnerOf[d], answer[d].at)'
    <3>1. answer' = answer
      BY <1>2
    <3> SUFFICES ASSUME NEW d \in Devices, answer[d].kind = "unread"
                 PROVE  Passed(OwnerOf[d], answer[d].at)'
      BY <3>1
    <3>2. /\ OwnerOf[d] \in Users
          /\ answer[d].at \in 0..L
          /\ Passed(OwnerOf[d], answer[d].at)
      BY OwnerAssumption DEF IInv, TypeOK, NothingMissed
    <3>3. PICK q : q = answer[d].at
      OBVIOUS
    <3>4. Passed(OwnerOf[d], q)'
      BY <2>1, <3>2, <3>3
    <3> QED
      BY <3>1, <3>3, <3>4 DEF Passed
  <2>5. \A m \in marking' : log'[m[2]] = m[1]
    <3>1. \A m \in marking : m[2] \in 1..L /\ log[m[2]] = m[1]
      BY DEF IInv, TypeOK, NothingMissed, Stored
    <3>2. \A m \in ({u} \ {Another}) \X {L + 1} : m[1] = u /\ m[2] = L + 1
      OBVIOUS
    <3> QED
      BY <1>1, <1>2, <3>1, <3>2
  <2> QED
    BY <2>2, <2>3, <2>4, <2>5 DEF NothingMissed
<1>7. PagesFit'
  BY <1>2 DEF IInv, PagesFit, IsStretch, IsAnswer, Before
<1>8. ShortIsLast' /\ EmptyIsEnd'
  BY <1>2 DEF IInv, ShortIsLast, EmptyIsEnd, RowsFor
<1>9. ScrollContiguous'
  BY <1>2 DEF IInv, ScrollContiguous
<1> QED
  BY <1>5, <1>6, <1>7, <1>8, <1>9 DEF IInv

\* A position advances only to what its member has passed.
LEMMA AdvanceIInv ==
    ASSUME IInv, NEW u \in Users, NEW q \in 0..Len(log), Passed(u, q),
           Advance(u, q) \/ UNCHANGED mark, marking' \subseteq marking,
           UNCHANGED <<scrollers, log, shown, cursor, scroll, answer>>
    PROVE  IInv'
<1>1. mark \in [Users -> 0..Len(log)]
  BY DEF IInv, TypeOK
<1>2. /\ mark' \in [Users -> 0..Len(log)]
      /\ \A w \in Users : mark'[w] = mark[w] \/ (w = u /\ mark'[w] = q)
  BY <1>1 DEF Advance
<1>3. TypeOK'
  BY <1>2 DEF IInv, TypeOK, Stored
<1>4. NothingMissed'
  <2>1. \A w \in Users : Passed(w, mark'[w])
    BY <1>2 DEF IInv, NothingMissed
  <2> QED
    BY <2>1 DEF IInv, NothingMissed, Passed
<1>5. PagesFit'
  BY DEF IInv, PagesFit, IsStretch, IsAnswer, Before
<1>6. ShortIsLast' /\ EmptyIsEnd' /\ ScrollContiguous'
  BY DEF IInv, ShortIsLast, EmptyIsEnd, RowsFor, ScrollContiguous
<1> QED
  BY <1>3, <1>4, <1>5, <1>6 DEF IInv

\* A good page is on its way.
LEMMA AnswerIInv ==
    ASSUME IInv, NEW d \in Devices, NEW page, IsGood(d, page),
           answer' = [answer EXCEPT ![d] = page],
           UNCHANGED <<scrollers, log, mark, marking, shown, cursor, scroll>>
    PROVE  IInv'
<1>1. answer \in [Devices -> Pages] /\ page \in Pages
  BY DEF IInv, TypeOK, Pages, IsGood
<1>2. /\ answer' \in [Devices -> Pages]
      /\ \A e \in Devices : answer'[e] = IF e = d THEN page ELSE answer[e]
  BY <1>1
<1>3. TypeOK'
  BY <1>2 DEF IInv, TypeOK, Stored, Pages
<1>4. NothingMissed'
  <2>1. \A e \in Devices : answer'[e].kind = "unread" => Passed(OwnerOf[e], answer'[e].at)
    BY <1>2 DEF IInv, NothingMissed, IsGood
  <2> QED
    BY <2>1 DEF IInv, NothingMissed, Passed
<1>5. PagesFit'
  <2>1. \A e \in Devices : IsStretch(answer'[e]) /\ IsAnswer(e, answer'[e])
    BY <1>2 DEF IInv, PagesFit, IsGood
  <2> QED
    BY <2>1 DEF PagesFit, IsStretch, IsAnswer, Before
<1>6. ShortIsLast' /\ EmptyIsEnd'
  <2>1. \A e \in Devices : IsCut(answer'[e])
    BY <1>2 DEF IInv, ShortIsLast, EmptyIsEnd, IsCut, IsGood
  <2> QED
    BY <2>1 DEF ShortIsLast, EmptyIsEnd, IsCut, RowsFor
<1>7. ScrollContiguous'
  BY DEF IInv, ScrollContiguous
<1> QED
  BY <1>3, <1>4, <1>5, <1>6, <1>7 DEF IInv

\* A device is without a page again: it took it, or it was lost.
LEMMA NoPageIsGood ==
    ASSUME IInv, NEW d \in Devices
    PROVE  /\ NoPage \in Pages /\ IsStretch(NoPage) /\ IsAnswer(d, NoPage)
           /\ IsCut(NoPage) /\ NoPage.kind = "none"
<1>1. Len(log) \in Nat
  BY DEF IInv, TypeOK
<1>2. NoPage \in Pages /\ NoPage.kind = "none" /\ IsAnswer(d, NoPage)
  BY <1>1 DEF NoPage, Pages, IsAnswer
<1>3. Len(NoPage.seqs) = 0 /\ NoPage.asked = 0 /\ RowsFor(NoPage) = 0
  BY DEF NoPage, RowsFor
<1>4. IsStretch(NoPage)
  BY <1>3 DEF IsStretch
<1> QED
  BY <1>2, <1>3, <1>4 DEF IsCut

\* The cursor follows the page: all of it is shown, and what was before it was passed.
LEMMA UnreadPasses ==
    ASSUME IInv, NEW d \in Devices, answer[d].kind = "unread", answer[d].seqs # <<>>
    PROVE  LET seqs == answer[d].seqs
               u == OwnerOf[d]
           IN  /\ u \in Users /\ Last(seqs) \in Stored /\ ToSet(seqs) \subseteq Stored
               /\ \A k \in 1..Last(seqs) :
                      \/ k \in shown[u] \cup ToSet(seqs)
                      \/ \E own \in k..Last(seqs) : log[own] = u
<1> DEFINE seqs == answer[d].seqs
           at == answer[d].at
           u == OwnerOf[d]
           last == Last(seqs)
<1>1. u \in Users /\ at \in 0..Len(log) /\ seqs \in Seq(Stored) /\ Len(log) \in Nat
  BY OwnerAssumption DEF IInv, TypeOK
<1>2. seqs # <<>>
  OBVIOUS
<1>3. \A i \in 1..Len(seqs) : seqs[i] = at + i
  BY DEF IInv, PagesFit, IsStretch, Before
<1>4. Passed(u, at)
  BY DEF IInv, NothingMissed
<1> HIDE DEF seqs, at, u
<1>5. Len(seqs) \in Nat \ {0} /\ last = at + Len(seqs) /\ last \in Stored
  BY <1>1, <1>2, <1>3 DEF Last
<1>6. ToSet(seqs) \subseteq Stored
  BY <1>1 DEF ToSet
<1>7. \A k \in at + 1 .. last : k \in ToSet(seqs)
  <2> TAKE k \in at + 1 .. last
  <2>1. k - at \in 1..Len(seqs) /\ seqs[k - at] = k
    BY <1>1, <1>3, <1>5
  <2>2. k - at \in DOMAIN seqs
    BY <1>1, <2>1
  <2> QED
    BY <2>1, <2>2 DEF ToSet
<1>8. \A k \in 1..at : k \in shown[u] \/ \E own \in k..last : log[own] = u
  BY <1>1, <1>4, <1>5 DEF Passed
<1>9. \A k \in 1..last : k \in 1..at \/ k \in at + 1 .. last
  BY <1>1, <1>5
<1> QED
  BY <1>1, <1>5, <1>6, <1>7, <1>8, <1>9 DEF seqs, u

\* An earlier page goes in front of what the device shows without a seam.
LEMMA HistoryJoins ==
    ASSUME IInv, NEW d \in Devices, answer[d].kind = "history"
    PROVE  LET joined == answer[d].seqs \o scroll[d]
           IN  /\ joined \in Seq(Stored)
               /\ \A i \in 1 .. Len(joined) - 1 : joined[i + 1] = joined[i] + 1
<1> DEFINE p == answer[d].seqs
           s == scroll[d]
           at == answer[d].at
           j == p \o s
<1>1. p \in Seq(Stored) /\ s \in Seq(Stored) /\ at \in Nat
  BY DEF IInv, TypeOK
<1>2. \A i \in 1..Len(p) : p[i] = at - 1 - Len(p) + i
  BY DEF IInv, PagesFit, IsStretch, Before
<1>3. s # <<>> /\ at = Head(s)
  BY DEF IInv, PagesFit, IsAnswer
<1>4. \A i \in 1 .. Len(s) - 1 : s[i + 1] = s[i] + 1
  BY DEF IInv, ScrollContiguous
<1> HIDE DEF p, s, at
<1>5. Len(p) \in Nat /\ Len(s) \in Nat \ {0} /\ s[1] = at
  BY <1>1, <1>3
<1>6. /\ j \in Seq(Stored)
      /\ Len(j) = Len(p) + Len(s)
      /\ \A i \in 1 .. Len(p) + Len(s) : j[i] = IF i <= Len(p) THEN p[i] ELSE s[i - Len(p)]
  BY <1>1
<1> HIDE DEF j
<1>7. ASSUME NEW i \in 1 .. Len(j) - 1
      PROVE  j[i + 1] = j[i] + 1
  <2>1. i \in 1 .. Len(p) + Len(s) /\ i + 1 \in 1 .. Len(p) + Len(s)
    BY <1>5, <1>6
  <2>2. CASE i + 1 <= Len(p)
    <3>1. i \in 1..Len(p) /\ i + 1 \in 1..Len(p) /\ i <= Len(p)
      BY <1>5, <2>1, <2>2
    <3>2. j[i] = p[i] /\ j[i + 1] = p[i + 1]
      BY <1>6, <2>1, <2>2, <3>1
    <3> QED
      BY <1>1, <1>2, <1>5, <3>1, <3>2
  <2>3. CASE i = Len(p)
    <3>1. j[i] = p[i] /\ j[i + 1] = s[1] /\ i \in 1..Len(p)
      BY <1>5, <1>6, <2>1, <2>3
    <3> QED
      BY <1>1, <1>2, <1>5, <2>3, <3>1
  <2>4. CASE i > Len(p)
    <3>1. /\ i - Len(p) \in 1 .. Len(s) - 1
          /\ (i + 1) - Len(p) = (i - Len(p)) + 1
      BY <1>5, <2>1, <2>4
    <3>2. j[i] = s[i - Len(p)] /\ j[i + 1] = s[(i + 1) - Len(p)]
      BY <1>5, <1>6, <2>1, <2>4
    <3> QED
      BY <1>4, <3>1, <3>2
  <2> QED
    BY <1>5, <2>1, <2>2, <2>3, <2>4
<1> QED
  BY <1>6, <1>7 DEF j, p, s

\* A device takes its page.
LEMMA ReceiveIInv ==
    ASSUME IInv, NEW d \in Devices, Receive(d)
    PROVE  IInv'
<1> DEFINE page == answer[d]
           u == OwnerOf[d]
           reads == page.kind = "unread" /\ page.seqs # <<>>
<1>1. /\ page # NoPage
      /\ answer' = [answer EXCEPT ![d] = NoPage]
      /\ reads => /\ shown' = [shown EXCEPT ![u] = @ \cup ToSet(page.seqs)]
                  /\ cursor' = [cursor EXCEPT ![d] = Last(page.seqs)]
      /\ ~reads => UNCHANGED <<shown, cursor>>
      /\ UNCHANGED <<scrollers, log, mark, marking>>
  BY DEF Receive
<1>2. /\ page.kind = "recent" => scroll' = [scroll EXCEPT ![d] = page.seqs]
      /\ page.kind = "history" => scroll' = [scroll EXCEPT ![d] = page.seqs \o scroll[d]]
      /\ page.kind \notin {"recent", "history"} => scroll' = scroll
  BY DEF Receive
<1>3. /\ log \in Seq(Users \cup {Another}) /\ Len(log) \in Nat
      /\ mark \in [Users -> 0..Len(log)] /\ cursor \in [Devices -> 0..Len(log)]
      /\ shown \in [Users -> SUBSET Stored]
      /\ scroll \in [Devices -> Seq(Stored)]
      /\ answer \in [Devices -> Pages]
      /\ u \in Users
  BY OwnerAssumption DEF IInv, TypeOK, Pages
<1>4. /\ answer' \in [Devices -> Pages]
      /\ \A e \in Devices : answer'[e] = IF e = d THEN NoPage ELSE answer[e]
  BY <1>1, <1>3, NoPageIsGood
<1>5. /\ cursor' \in [Devices -> 0..Len(log)]
      /\ shown' \in [Users -> SUBSET Stored]
      /\ \A w \in Users : shown[w] \subseteq shown'[w]
      /\ \A e \in Devices : e # d => cursor'[e] = cursor[e]
      /\ reads => cursor'[d] = Last(page.seqs) /\ shown'[u] = shown[u] \cup ToSet(page.seqs)
      /\ ~reads => cursor'[d] = cursor[d]
  <2>1. CASE reads
    <3> DEFINE last == Last(page.seqs)
               got == ToSet(page.seqs)
    <3>1. last \in 0..Len(log) /\ got \subseteq Stored
      BY <2>1, <1>3, UnreadPasses DEF Stored
    <3>2. /\ cursor' = [cursor EXCEPT ![d] = last]
          /\ shown' = [shown EXCEPT ![u] = @ \cup got]
      BY <1>1, <2>1
    <3> HIDE DEF last, got, u
    <3>3. /\ cursor' \in [Devices -> 0..Len(log)]
          /\ \A e \in Devices : cursor'[e] = IF e = d THEN last ELSE cursor[e]
      BY <1>3, <3>1, <3>2
    <3>4. /\ shown' \in [Users -> SUBSET Stored]
          /\ \A w \in Users : shown'[w] = IF w = u THEN shown[u] \cup got ELSE shown[w]
      BY <1>3, <3>1, <3>2
    <3> QED
      BY <1>3, <2>1, <3>3, <3>4 DEF last, got, u
  <2>2. CASE ~reads
    BY <1>1, <1>3, <2>2
  <2> QED
    BY <2>1, <2>2
<1>6. /\ scroll' \in [Devices -> Seq(Stored)]
      /\ \A e \in Devices : e # d => scroll'[e] = scroll[e]
      /\ \A e \in Devices : \A i \in 1 .. Len(scroll'[e]) - 1 :
             scroll'[e][i + 1] = scroll'[e][i] + 1
  <2>1. \A e \in Devices : \A i \in 1 .. Len(scroll[e]) - 1 : scroll[e][i + 1] = scroll[e][i] + 1
    BY DEF IInv, ScrollContiguous
  <2>2. CASE page.kind = "recent"
    <3>1. page.seqs \in Seq(Stored) /\ page.end \in Nat
      BY <1>3 DEF Pages
    <3>2. \A i \in 1..Len(page.seqs) : page.seqs[i] = page.end - Len(page.seqs) + i
      BY <2>2 DEF IInv, PagesFit, IsStretch, Before
    <3> DEFINE p == page.seqs
               end == page.end
    <3>3. scroll' = [scroll EXCEPT ![d] = p]
      BY <1>2, <2>2
    <3>4. /\ p \in Seq(Stored) /\ end \in Nat
          /\ \A i \in 1..Len(p) : p[i] = end - Len(p) + i
      BY <3>1, <3>2
    <3> HIDE DEF p, end
    <3>5. \A i \in 1 .. Len(p) - 1 : p[i + 1] = p[i] + 1
      BY <3>4
    <3>6. \A e \in Devices : scroll'[e] = IF e = d THEN p ELSE scroll[e]
      BY <1>3, <3>3
    <3> QED
      BY <1>3, <2>1, <3>3, <3>4, <3>5, <3>6
  <2>3. CASE page.kind = "history"
    <3> DEFINE j == page.seqs \o scroll[d]
    <3>1. j \in Seq(Stored) /\ \A i \in 1 .. Len(j) - 1 : j[i + 1] = j[i] + 1
      BY <2>3, HistoryJoins
    <3>2. scroll' = [scroll EXCEPT ![d] = j]
      BY <1>2, <2>3
    <3> HIDE DEF j
    <3>3. \A e \in Devices : scroll'[e] = IF e = d THEN j ELSE scroll[e]
      BY <1>3, <3>2
    <3> QED
      BY <1>3, <2>1, <3>1, <3>2, <3>3
  <2>4. CASE page.kind \notin {"recent", "history"}
    BY <1>2, <1>3, <2>1, <2>4
  <2> QED
    BY <2>2, <2>3, <2>4
<1>7. TypeOK'
  BY <1>1, <1>3, <1>4, <1>5, <1>6 DEF IInv, TypeOK, Stored, Pages
<1>8. NothingMissed'
  <2>1. \A w \in Users, q \in 0..Len(log) : Passed(w, q) => Passed(w, q)'
    BY <1>1, <1>3, <1>5, PassedLasts
  <2>2. \A w \in Users : Passed(w, mark[w])'
    <3>1. \A w \in Users : mark[w] \in 0..Len(log) /\ Passed(w, mark[w])
      BY <1>3 DEF IInv, NothingMissed
    <3> QED
      BY <1>1, <2>1, <3>1 DEF Passed
  <2>3. ASSUME NEW e \in Devices
        PROVE  Passed(OwnerOf[e], cursor[e])'
    <3>1. CASE e = d /\ reads
      <4>1. PICK q : q = Last(page.seqs)
        OBVIOUS
      <4>2. \A k \in 1..q : k \in shown'[u] \/ \E own \in k..q : log'[own] = u
        BY <1>1, <1>5, <3>1, <4>1, UnreadPasses
      <4> QED
        BY <1>5, <3>1, <4>1, <4>2 DEF Passed
    <3>2. CASE ~(e = d /\ reads)
      <4>1. cursor'[e] = cursor[e] /\ OwnerOf[e] \in Users
        BY <1>5, <3>2, OwnerAssumption
      <4>2. PICK q : q = cursor[e]
        OBVIOUS
      <4>3. q \in 0..Len(log) /\ Passed(OwnerOf[e], q)
        BY <1>3, <4>2 DEF IInv, NothingMissed
      <4>4. Passed(OwnerOf[e], q)'
        BY <2>1, <4>1, <4>3
      <4> QED
        BY <4>1, <4>2, <4>4 DEF Passed
    <3> QED
      BY <3>1, <3>2
  <2>4. ASSUME NEW e \in Devices, answer'[e].kind = "unread"
        PROVE  Passed(OwnerOf[e], answer[e].at)'
    <3>1. e # d /\ answer'[e] = answer[e] /\ OwnerOf[e] \in Users
      BY <1>4, <2>4, NoPageIsGood, OwnerAssumption
    <3>2. PICK q : q = answer[e].at
      OBVIOUS
    <3>3. q \in 0..Len(log) /\ Passed(OwnerOf[e], q)
      BY <1>3, <2>4, <3>1, <3>2 DEF IInv, NothingMissed, Pages
    <3>4. Passed(OwnerOf[e], q)'
      BY <2>1, <3>1, <3>3
    <3> QED
      BY <3>1, <3>2, <3>4 DEF Passed
  <2>5. \A m \in marking' : log'[m[2]] = m[1]
    BY <1>1 DEF IInv, NothingMissed
  <2> QED
    BY <2>2, <2>3, <2>4, <2>5 DEF NothingMissed
<1>9. PagesFit'
  <2>1. ASSUME NEW e \in Devices
        PROVE  IsStretch(answer[e])' /\ IsAnswer(e, answer[e])'
    <3>1. CASE e = d
      <4>1. answer'[e] = NoPage
        BY <1>4, <3>1
      <4>2. Len(NoPage.seqs) = 0 /\ NoPage.kind = "none"
        BY DEF NoPage
      <4>3. IsStretch(answer[e])'
        BY <4>1, <4>2 DEF IsStretch
      <4>4. IsAnswer(e, answer[e])'
        BY <4>1, <4>2 DEF IsAnswer
      <4> QED
        BY <4>3, <4>4
    <3>2. CASE e # d
      BY <1>4, <1>6, <3>2 DEF IInv, PagesFit, IsStretch, IsAnswer, Before
    <3> QED
      BY <3>1, <3>2
  <2> QED
    BY <2>1 DEF PagesFit
<1>10. ShortIsLast' /\ EmptyIsEnd'
  <2>1. \A e \in Devices : IsCut(answer'[e])
    BY <1>4, NoPageIsGood DEF IInv, ShortIsLast, EmptyIsEnd, IsCut
  <2> QED
    BY <2>1 DEF ShortIsLast, EmptyIsEnd, IsCut, RowsFor
<1>11. ScrollContiguous'
  BY <1>6 DEF ScrollContiguous
<1> QED
  BY <1>7, <1>8, <1>9, <1>10, <1>11 DEF IInv

\* A device's page is lost.
LEMMA LoseIInv ==
    ASSUME IInv, NEW d \in Devices, Lose(d)
    PROVE  IInv'
<1>1. IsGood(d, NoPage)
  BY NoPageIsGood DEF IsGood
<1> QED
  BY <1>1, AnswerIInv DEF Lose

\* A device takes its member's last_read_seq.
LEMMA ListIInv ==
    ASSUME IInv, NEW d \in Devices, GetChatSessionList(d)
    PROVE  IInv'
<1>1. /\ cursor \in [Devices -> 0..Len(log)] /\ mark \in [Users -> 0..Len(log)]
      /\ OwnerOf \in [Devices -> Users]
  BY OwnerAssumption DEF IInv, TypeOK
<1>2. /\ cursor' = [cursor EXCEPT ![d] = mark[OwnerOf[d]]]
      /\ UNCHANGED <<scrollers, log, mark, marking, shown, scroll, answer>>
  BY DEF GetChatSessionList
<1>3. /\ cursor' \in [Devices -> 0..Len(log)]
      /\ \A e \in Devices : cursor'[e] = IF e = d THEN mark[OwnerOf[d]] ELSE cursor[e]
  BY <1>1, <1>2
<1>4. TypeOK'
  BY <1>2, <1>3 DEF IInv, TypeOK, Stored
<1>5. NothingMissed'
  <2>1. \A e \in Devices : Passed(OwnerOf[e], cursor'[e])
    BY <1>1, <1>3 DEF IInv, NothingMissed
  <2> QED
    BY <1>2, <2>1 DEF IInv, NothingMissed, Passed
<1>6. PagesFit'
  BY <1>2 DEF IInv, PagesFit, IsStretch, IsAnswer, Before
<1>7. ShortIsLast' /\ EmptyIsEnd' /\ ScrollContiguous'
  BY <1>2 DEF IInv, ShortIsLast, EmptyIsEnd, RowsFor, ScrollContiguous
<1> QED
  BY <1>4, <1>5, <1>6, <1>7 DEF IInv

\* Both ways to move a read mark: a device's POST for its cursor, and the mark that
\* messagetransmit makes for a sender, which passes the sender's own message.
LEMMA MarkIInv ==
    ASSUME IInv, (\E m \in marking : MarkSender(m)) \/ (\E d \in Devices : MarkSessionRead(d))
    PROVE  IInv'
<1>1. ASSUME NEW m \in marking, MarkSender(m) PROVE IInv'
  <2>1. /\ m[1] \in Users /\ m[2] \in 1..Len(log) /\ log[m[2]] = m[1]
    BY DEF IInv, TypeOK, NothingMissed, Stored
  <2>2. Len(log) \in Nat
    BY DEF IInv, TypeOK
  <2>3. Passed(m[1], m[2])
    <3> SUFFICES ASSUME NEW k \in 1..m[2]
                 PROVE  \E own \in k..m[2] : log[own] = m[1]
      BY DEF Passed
    <3>1. m[2] \in k..m[2]
      BY <2>1, <2>2
    <3> QED
      BY <2>1, <3>1
  <2>4. /\ Advance(m[1], m[2]) \/ UNCHANGED mark
        /\ marking' \subseteq marking
        /\ UNCHANGED <<scrollers, log, shown, cursor, scroll, answer>>
    BY <1>1 DEF MarkSender
  <2>5. m[2] \in 0..Len(log)
    BY <2>1, <2>2
  <2> QED
    BY <2>1, <2>3, <2>4, <2>5, AdvanceIInv
<1>2. ASSUME NEW d \in Devices, MarkSessionRead(d) PROVE IInv'
  <2>1. /\ OwnerOf[d] \in Users /\ cursor[d] \in 0..Len(log)
        /\ Passed(OwnerOf[d], cursor[d])
    BY OwnerAssumption DEF IInv, TypeOK, NothingMissed
  <2>2. /\ Advance(OwnerOf[d], cursor[d])
        /\ UNCHANGED <<scrollers, log, marking, shown, cursor, scroll, answer>>
    BY <1>2 DEF MarkSessionRead
  <2> QED
    BY <2>1, <2>2, AdvanceIInv
<1> QED
  BY <1>1, <1>2

\* What is asked for is answered, and what is answered is good.
LEMMA ReadIInv ==
    ASSUME IInv, NEW d \in Devices, NEW n \in Limits,
           handleGetRecentMessages(d, n) \/ handleGetUnreadMessages(d, n) \/ GetHistory(d, n)
    PROVE  IInv'
<1>1. \E page : IsGood(d, page) /\ answer' = [answer EXCEPT ![d] = page]
  BY RecentIsGood, UnreadIsGood, HistoryIsGood
<1>2. UNCHANGED <<scrollers, log, mark, marking, shown, cursor, scroll>>
  BY DEF handleGetRecentMessages, handleGetUnreadMessages, GetHistory, Reply
<1> QED
  BY <1>1, <1>2, AnswerIInv

\* It holds before the first request.
LEMMA InitIInv == Init => IInv
<1> SUFFICES ASSUME Init PROVE IInv
  OBVIOUS
<1>1. log = <<>> /\ Len(log) = 0 /\ Stored = {} /\ marking = {}
  BY DEF Init, Stored
<1>2. TypeOK
  BY <1>1 DEF Init, TypeOK, NoPage
<1>3. NothingMissed
  BY OwnerAssumption DEF Init, NothingMissed, Passed, NoPage
<1>4. \A d \in Devices : answer[d] = NoPage /\ Len(scroll[d]) = 0
  BY DEF Init
<1>5. /\ NoPage.kind = "none" /\ Len(NoPage.seqs) = 0 /\ NoPage.asked = 0
      /\ RowsFor(NoPage) = 0
  BY DEF NoPage, RowsFor
<1>6. PagesFit /\ ShortIsLast /\ EmptyIsEnd
  BY <1>4, <1>5 DEF PagesFit, IsStretch, IsAnswer, ShortIsLast, EmptyIsEnd
<1>7. ScrollContiguous
  BY <1>4 DEF ScrollContiguous
<1> QED
  BY <1>2, <1>3, <1>6, <1>7 DEF IInv

\* Every step of the log and of the reader keeps it.
LEMMA NextIInv == IInv /\ [Next]_vars => IInv'
<1> SUFFICES ASSUME IInv, [Next]_vars PROVE IInv'
  OBVIOUS
<1>1. CASE routes
  <2>1. ASSUME NEW d \in Devices, handleSessionSubroutes(d) PROVE IInv'
    BY <2>1, MarkIInv, ReadIInv DEF handleSessionSubroutes
  <2> QED
    BY <1>1, <2>1, SendIInv, ListIInv DEF routes
<1>2. CASE \E d \in scrollers, n \in Limits : GetHistory(d, n)
  <2>1. scrollers \subseteq Devices
    BY DEF IInv, TypeOK
  <2> QED
    BY <1>2, <2>1, ReadIInv
<1>3. CASE \E m \in marking : MarkSender(m)
  BY <1>3, MarkIInv
<1>4. CASE \E d \in Devices : Receive(d) \/ Lose(d)
  BY <1>4, ReceiveIInv, LoseIInv
<1>5. CASE UNCHANGED vars
  <2>1. TypeOK' /\ NothingMissed'
    BY <1>5 DEF vars, IInv, TypeOK, Stored, NothingMissed, Passed
  <2>2. PagesFit'
    BY <1>5 DEF vars, IInv, PagesFit, IsStretch, IsAnswer, Before
  <2>3. ShortIsLast' /\ EmptyIsEnd' /\ ScrollContiguous'
    BY <1>5 DEF vars, IInv, ShortIsLast, EmptyIsEnd, RowsFor, ScrollContiguous
  <2> QED
    BY <2>1, <2>2, <2>3 DEF IInv
<1> QED
  BY <1>1, <1>2, <1>3, <1>4, <1>5 DEF Next

\* The invariant holds for ever, whatever limits are asked for and cut, calls are
\* lost and marks late.
THEOREM Inductive == Spec => []IInv
<1> QED
  BY InitIInv, NextIInv, PTL DEF Spec

-----------------------------------------------------------------------------
(* Results                                                                   *)

\* The variables keep their types; marks and cursors stay within the log.
THEOREM TypeCorrect == Spec => []TypeOK
<1>1. IInv => TypeOK
  BY DEF IInv
<1> QED
  BY <1>1, Inductive, PTL

\* Nothing is marked read that no device of the member was shown, but what came
\* before a message of the member's own: for any number of devices and any limits.
THEOREM NothingMarkedUnseen == Spec => []MarkedWasShown
<1>1. IInv => MarkedWasShown
  BY DEF IInv, NothingMissed, Passed, MarkedWasShown
<1> QED
  BY <1>1, Inductive, PTL

\* A page is never longer than was asked for, and a shorter one reaches the end,
\* for every width of the limit.
THEOREM ShortPagesAreLast == Spec => []ShortIsLast
<1>1. IInv => ShortIsLast
  BY DEF IInv
<1> QED
  BY <1>1, Inductive, PTL

\* An empty page means the end, even when the limit was cut to 0.
THEOREM EmptyPagesAreLast == Spec => []EmptyIsEnd
<1>1. IInv => EmptyIsEnd
  BY DEF IInv
<1> QED
  BY <1>1, Inductive, PTL

\* Scrolling back neither repeats nor skips a message, however the log grows.
THEOREM ScrollHasNoSeam == Spec => []ScrollContiguous
<1>1. IInv => ScrollContiguous
  BY DEF IInv
<1> QED
  BY <1>1, Inductive, PTL

-----------------------------------------------------------------------------
(* The tables are used as MessageLog allows                                  *)

Session == "session"

\* The one session of Reading in MessageLog: it exists, with all as members.
Log == INSTANCE MessageLog WITH
    Sessions <- {Session}, Entries <- Users \cup {Another}, Seqs <- Nat,
    exists <- {Session}, membership <- [s \in {Session} |-> Users],
    log <- [s \in {Session} |-> log], position <- [s \in {Session} |-> mark]

\* A step of Reading appends one message, or moves one member's mark forward, or
\* changes neither.
LEMMA StepIsLogged == IInv /\ [Next]_vars => [Log!LogNext]_(Log!logVars)
<1> SUFFICES ASSUME IInv, [Next]_vars PROVE [Log!LogNext]_(Log!logVars)
  OBVIOUS
<1>1. ASSUME NEW u \in Users \cup {Another}, SendStringMessage(u)
      PROVE  Log!LogNext
  <2>1. log' = Append(log, u) /\ mark' = mark
    BY <1>1 DEF SendStringMessage
  <2>2. [s \in {Session} |-> log'] =
            [[s \in {Session} |-> log] EXCEPT ![Session] = Append(@, u)]
    BY <2>1
  <2>3. Log!Post(Session, u)
    BY <2>1, <2>2 DEF Log!Post
  <2> QED
    BY <2>3 DEF Log!LogNext
<1>2. ASSUME NEW u \in Users, NEW q \in Nat, Advance(u, q), log' = log
      PROVE  [Log!LogNext]_(Log!logVars)
  <2>1. mark \in [Users -> Nat]
    BY DEF IInv, TypeOK
  <2>2. CASE q > mark[u]
    <3>1. mark' = [mark EXCEPT ![u] = q]
      BY <1>2, <2>2 DEF Advance
    <3>2. [s \in {Session} |-> mark'] =
              [[s \in {Session} |-> mark] EXCEPT ![Session] = [mark EXCEPT ![u] = q]]
      BY <3>1
    <3>3. [[s \in {Session} |-> mark] EXCEPT ![Session] = [mark EXCEPT ![u] = q]] =
              [[s \in {Session} |-> mark] EXCEPT ![Session][u] = q]
      OBVIOUS
    <3>4. Log!Read(Session, u, q)
      BY <1>2, <2>1, <2>2, <3>2, <3>3 DEF Log!Read
    <3> QED
      BY <3>4 DEF Log!LogNext
  <2>3. CASE ~(q > mark[u])
    <3>1. mark' = mark
      BY <1>2, <2>1, <2>3 DEF Advance
    <3> QED
      BY <1>2, <3>1 DEF Log!logVars
  <2> QED
    BY <2>2, <2>3
<1>3. ASSUME log' = log, mark' = mark PROVE UNCHANGED Log!logVars
  BY <1>3 DEF Log!logVars
<1>4. ASSUME NEW m \in marking, MarkSender(m) PROVE [Log!LogNext]_(Log!logVars)
  <2>1. m[1] \in Users /\ m[2] \in Nat
    BY DEF IInv, TypeOK, Stored
  <2> QED
    BY <1>2, <1>3, <1>4, <2>1 DEF MarkSender
<1>5. ASSUME NEW d \in Devices, MarkSessionRead(d) PROVE [Log!LogNext]_(Log!logVars)
  <2>1. OwnerOf[d] \in Users /\ cursor[d] \in Nat
    BY OwnerAssumption DEF IInv, TypeOK
  <2> QED
    BY <1>2, <1>5, <2>1 DEF MarkSessionRead
<1>6. ASSUME NEW d, NEW n, \/ handleGetRecentMessages(d, n) \/ handleGetUnreadMessages(d, n)
                          \/ GetHistory(d, n)
      PROVE  log' = log /\ mark' = mark
  BY <1>6 DEF handleGetRecentMessages, handleGetUnreadMessages, GetHistory, Reply
<1>7. ASSUME NEW d, GetChatSessionList(d) \/ Receive(d) \/ Lose(d)
      PROVE  log' = log /\ mark' = mark
  BY <1>7 DEF GetChatSessionList, Receive, Lose
<1> QED
  BY <1>1, <1>3, <1>4, <1>5, <1>6, <1>7 DEF Next, routes, handleSessionSubroutes, vars

\* However members read, the log is only appended to, one message at a time, and
\* the position of a member only moves forward.
THEOREM ReadingUsesLog == Spec => [][Log!LogNext]_(Log!logVars)
<1> QED
  BY StepIsLogged, Inductive, PTL DEF Spec
=============================================================================
