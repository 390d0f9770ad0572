# Verification of the chat room service

TLA+ models, TLC runs and TLAPS proofs for the Go services under `cmd/`,
`internal/` and `mnt/data/chatserver_split/`.

## 1. The system

```
 client --HTTP--> gateway --gRPC--> messagetransmit --gRPC--> chatservice    --+
        <--WS---     |                     |                                   +-- MySQL
                     |                     +-------gRPC----> messagestorage --+
                     +--gRPC--> chatservice, messagestorage (reads, read marks)
                     +--------> Redis (presence keys)
```

| part | state | operations | what is hard about it |
|---|---|---|---|
| `messagestorage` (`cmd/messagestorage`, `internal/messagestorage/repo`) | tables `messages`, `chat_sessions.last_seq` | StoreStringMessage (transaction), three paged reads, last message, session snapshots | concurrent transactions on one session, id collisions, failure at each statement, a commit whose reply is lost, multi-statement reads |
| `chatservice` (`cmd/chatservice`, `internal/chatservice/repo`) | `chat_sessions`, `chat_session_members.last_read_seq`, `users`, `relations` | CreateGroupChatSession (transaction, then a read), MarkSessionRead, session list, members, membership test, friend list | read marks racing with stores, error after the commit, rows-affected semantics |
| `messagetransmit` (`cmd/messagetransmit`, `internal/messagetransmit/client`) | none | SendStringMessage: membership test, store, best-effort read mark, list members | one call of four failing, partial effects behind an error |
| `gateway` (`cmd/gateway`, `internal/gateway/client`) | per-process map user -> WebSocket clients, Redis presence keys | HTTP API, WebSocket auth/ping, push of new messages | pushes by concurrent handlers, connections closing under a push, presence shared by several connections |
| `redisx` | `online:user:`, `gateway:user:`, `last_seen:user:` keys with TTL | SetOnline, RefreshOnline, ClearOnline | last writer wins, TTL expiry |
| `discovery` (used by no command) | etcd keys with a lease | Register, Resolve, Watch, Close | lease loss, the gap between snapshot and watch |
| `mnt/data/chatserver_split` (an earlier server, in a module that no build file builds) | per server a hub with one client per user, each client's `Send` channel and two pumps; DynamoDB offline messages, Redis presence | WebSocket chat, routing to the receiver's server over HTTP, offline store and replay, heartbeat | reconnect against cleanup, sends to closed or full channels, calls given up and carried out, panics, servers killed |
| `cmd/migrate`, `cmd/testclient` | none | run migrations; scripted client | none |

How they interact: every arrow is a synchronous call with a deadline (3 s
between services, 2 s to Redis, 10 s for a WebSocket write) and no retry; the
callee is cancelled when the deadline passes but may already have committed.
The two storage-side services share the MySQL tables and nothing else. Within
the gateway, HTTP handlers, WebSocket handlers and the pushes of the HTTP
handlers share `wsManager`.

What makes each part correct:

- **messagestorage, chatservice**: messages of a session are numbered 1, 2, 3,
  ... in the order of their commits and timestamps; what was acknowledged is
  there; groups appear whole; memberships stay; read positions only advance; the
  unread badge counts unread rows; every call returns.
- **messagetransmit, gateway (send)**: only members' messages are stored; a 200
  means stored once under the number returned; nothing uncommitted is pushed;
  a sender that waits for its answers sees its messages in order everywhere; one
  broken WebSocket costs nobody else a message; every request is answered.
- **gateway (WebSocket)**: the two views of who speaks for whom agree; an
  authenticated open connection stays bound; a dead one is forgotten;
  presence keys describe who is online and do not outlive their users for ever.
- **reading**: nothing is marked read that its reader was not shown, but for what
  the reader's own later message passes; a short page is the last one, and an empty
  page the end; scrolling back neither repeats nor skips a message.
- **discovery**: the incarnation that registered last stays listed while its
  lease lives; nobody without a lease is resolved; the entry of a process that is
  gone goes; the reader of a watch never goes back, and gets to the present list.
- **chatserver_split**: an accepted message is being routed, has entered a channel
  of its receiver, is stored, or was given up with a line in the log, unless the
  server that routed it was killed or panicked meanwhile; it is deleted only after
  it was handed over; a client found in a hub can be sent to, and one that is served
  is found there unless its user connected to that server again; a user who stays
  at one server is found there again, and one who has left is not.

The hazards, each at its line and with the properties that would notice it, are
in `PROJECT.json`.

## 2. The modules

```
 Tables <-- MessageStorage <--+
        <-- ChatService    <--+-- ChatDB <-- ChatDBProofs <-- ChatDBOutcomeProofs
                                    |  ^-- MCChatDB
                                    | implements
                                    v
 Hub <-- Presence              MessageLog . . . Reading <-- ReadingProofs,
  ^        ^-- PresenceProofs,      ^ is the database of       MCReading
  |            MCPresence           |
  +----------------------------- SendPath <-- SendPathProofs, MCSendPath

 SplitStores <-- ChatSplit <-- MCChatSplit, ChatSplitProofs <-- ChatSplitRefines
                     |
                     | implements
                     v
                  Mailbox                 Discovery <-- DiscoveryProofs, MCDiscovery
```

| module | models | state and actions |
|---|---|---|
| `Tables` | `migrations/` and InnoDB's row locks | one variable per column used; `row_lock` for the owner of each `chat_sessions` row. Only committed rows are in the tables: what a transaction has written is in its handler's record until the commit |
| `MessageStorage` | `StoreStringMessage`, `GetSessionLastMessage`, `BatchGetSessionSnapshots` | one action per SQL statement of the transaction (`SelectForUpdate`, `UpdateSession`, `InsertMessage`, `Commit`), one per way to fail (`InsertRejected` for a duplicate key, `SessionMissing`, `StoreFails`), each with the deferred `Rollback`. A commit may be durable and its answer lost. The snapshot reads `last_seq` of all sessions in one statement, then the last message of each in a statement of its own |
| `ChatService` | `CreateGroupChatSession`, `MarkSessionRead`, the session list | the creation is `InsertSession`, one `InsertMember` per member, `CommitGroup`, then `ReplyGroup` (the read after the commit) or `CreateFails`; a read mark is one autocommit UPDATE whose answer depends on the rows it *changed* |
| `ChatDB` | both services on one database | their steps interleaved with the clock; the properties; the mapping to `MessageLog` |
| `MessageLog` | what both promise | `Create`, `Post`, `Read` on abstract logs |
| `Hub` | `wsManager` | `bind`, `remove`, `snapshotClients`, each atomic under `wsManager.mu` |
| `SendPath` | `handleSendMessage`, `pushNewMessage`, `SendStringMessage`, the clients between | per request: where the gateway handler is, where the transmit handler is, and what became of the store and read-mark calls it made, which live on after their caller gave up. The database is `MessageLog` |
| `Presence` | `handleWebSocket`, the removals by `pushNewMessage`, `redisx.Store` | one `pc` per connection's handler, a step per call (read, `bind`, `SetOnline`, `auth_ok`, ...), pushes beside it in the three steps list, close, remove; one time-to-live per user for the two keys that are set, extended and deleted together |
| `Reading` | the three paged reads, `limit` on its way from JSON to SQL, the read marks | the queries are operators on the numbers stored: sorted, cut, reversed. A device asks, gets a page made at one moment (each page is one SELECT) and shows it later, or never; meanwhile others send and marks arrive. Pages answer by `session_seq` only |
| `SplitStores` | Redis and DynamoDB as `chatserver_split` uses them | `presence`, `table`; the sort key and the one page that the query asks for |
| `ChatSplit` | the servers of `chatserver_split` | per connection the handler and `readPump` (`phase`, `job`), `writePump`, the replay goroutine; per server the hub and the heartbeat; `POST /internal/send` calls in flight. A step ends where a goroutine touches what another can change: the hub, a `Send` channel, Redis, DynamoDB, another server |
| `Mailbox` | what those servers promise of a message | `Accept`, `Hand`, `Settle`, `Store`, `GiveUp` (with a line in the log), `Lose` (a server ends with what it was routing), `Release` |
| `Discovery` | `Register`, `Close`, `Watch`, `ResolveAll`, `ResolveOne` | one `pc` per registration, a step per etcd call, puts that arrive after their caller gave up; Watch's goroutine with its channel of capacity one; etcd as a linearizable store with leases |

`SendPath` leaves the handler of a connection at `Connect` and `HandlerLeaves`
(a connection authenticates once and leaves once), because `Presence` has its
steps; `Presence` leaves pushes without content, because `SendPath` has it.
`Reading` takes one session of `MessageLog` as given, because `ChatDB` implements
it: messages are numbered without gap and positions only advance. `SendPath` takes
the actions of `MessageLog` for its calls of the storage, and that what `Reading` does
to its log is no more than `MessageLog` allows is proved (`ReadingUsesLog`), so the
three models meet in it.

Abstractions that hold throughout: names, texts and display columns are left
out; ids are model values, except that message ids are clock readings (they
may collide) and any creation may draw any session id; requests that fail
validation change nothing and are not steps.

Assumptions about what surrounds the code:

- One clock for all StoreStringMessage handlers, which never goes back. It is the
  clock of one `messagestorage` process: `terraform/environments/dev/main.tf` runs
  each service with `desired_count = 1` (lines 194, 242, 290, 332). With two of them,
  or with a clock that is set back, `TimeFollowsSeq` would not hold; the other
  properties of the database do not mention time.
- In `ChatSplit` a message is the time it was sent at, because that is its id
  (`utils.go:65`) and the sort key of its row. Ids are drawn from the clock of each
  server, in nanoseconds, so they come in any order over the servers, and in the
  model too. They are taken to be unique: two messages for one receiver with the same
  nanosecond would be one item of the table, and that is not modelled.
- In `Reading` a device marks what it has read and nothing else. That is an
  assumption about the client: the gateway forwards whatever `last_read_seq` it is
  sent (`cmd/gateway/main.go:556`), and `ChatDB` lets marks be any number, beyond the
  log too. `MarkedWasShown`, and that marks stay within the log, rest on it.

## 3. The runs

| run | question | bounds |
|---|---|---|
| `db_store` | numbering, durability, timestamps, contention, whole groups | 2 users, 2 stores and 2 creations at a time on 1 session row, clock 1..2, so that ids collide and the clock stands still or moves between any two statements. Two handlers are enough for every conflict over one row: locks are pairwise |
| `db_live` | read positions, unread badge, snapshots, refinement; every call ends | 1 user, 1 session, 2 stores and a creation, marks at 1 and at 3, the latter beyond the 2 messages that fit; a snapshot request that reads between them. What a mark does to other users' positions is settled by the proof of `Refinement` |
| `db_not_found` | violation: see findings | 1 session, marks 1 and 2 |
| `send` | acknowledged means stored, nothing twice, members only; pushes committed, in order, to everybody | 2 requests of one sender or of two, every call lost or late, 2 connections that come and go at any time |
| `send_live` | every request is answered | 2 requests; nothing is promised of the other services |
| `presence_hub` | map, auth, removals; dead connections and stale keys go away | 2 users, 1 connection, any number of auths and pushes, lost Redis calls, 2 ticks of life. What one connection does to another's entry is settled by the proofs of `HubConsistent` and `AuthOkMeansBound`, for any number of them |
| `presence_online` | violation: see findings | 2 connections, every Redis call succeeds, nothing expires |
| `split` | nothing vanishes; refinement of `Mailbox` | alice at one server sends 2 messages to bob, who connects once, to either server, at any time. A channel holds one message, so that the second is routed to, or replayed into, a full one; a query returns one item, and the stamps 10 and 11 are those whose sort keys come in the other order. 1 call fails, is late or loses its answer; servers panic, but are not killed. What more connections, faults and kills add is settled by `NothingVanishes` and `KeepsPromise`, for any number of them |
| `split_live` | usable hubs; clients stay listed; routing ends; presence comes back, or goes | a message to bob at the other server, or, with no message, bob connecting twice, to one server or first to one and then to the other, so that the first connection is cleaned up, or refreshed by a heartbeat, behind the second; 1 server that is killed and may start again, 1 call that fails, is late or loses its answer. One message cannot be routed into a full channel: that `split` has |
| `split_replay` | violation: see findings | 2 connections that stay open, no failure |
| `discovery` | the latest stays listed, stale entries go, a watch settles and never goes back | 2 incarnations under one instance id, any put late, any lease lost, any call failing. Two are enough for one to disturb the other; instances with other ids share nothing but the revision |
| `reading` | nothing marked unseen; what a short or empty page means; scrolling | 2 devices of one user, other members as one, 3 messages, limits 0, 2 and 4 of 2 bits: 4 is cut to 0 as 4294967296 is of 32. Defaults of 1, so that a page is shorter than the log |

The bounds named in the modules are `MaxClock` (the clock, and with it the
number of messages), `ReadSeqs` (the positions clients send), `SnapshotRequests`,
`MaxTtl`, `Attempts` (the requests of `SendPath`), `MaxSeq` and `Width`, and for
`ChatSplit` `Stamps`, `Dials`, `SendCap`, `PageCap`, `MaxFaults` and `MaxCrashes`.
Symmetry is used in the runs that check safety only. `CHECK_DEADLOCK FALSE` is
said of `SendPath`, `Presence`, `ChatSplit` and `Discovery`: when every request has
been answered, or every connection or registration has ended and every key has
gone, nothing is left to do.

Fairness.

- `db_live`: a handler that can take its next statement does, and one waiting for
  a row is served in the end (strong fairness: InnoDB grants row locks in the
  order of the requests). Nothing is assumed to fail, and it is the deferred
  `Rollback` that lets the others on.
- `send_live`: only the gateway's own handler gets on, which the deadline of its
  RPC and the write deadline of each WebSocket ensure.
- `presence_hub`: handlers get on between two messages of their client, reads on a
  *closed* socket fail once the buffered frames, finitely many, are used up
  (strong fairness), a push goes on to remove what it closed, and time passes.
  An open socket may stay open for ever.
- `split_live`, `split_replay`: goroutines run, the heartbeat ticks, and a key that
  names a server where its user is not expires. Nobody has to connect, leave,
  send, fail, crash or start.
- `discovery`: etcd ends a lease that nobody keeps alive and reports every change,
  an error closes the stream, Watch's goroutine goes on, its caller reads. Nothing is
  promised of the processes, which may stop at any step.

## 4. What is proved

All theorems are checked by TLAPS for all values of the constants, under the
assumptions the modules name: "none" values are distinct from the names they
stand beside, and bounds are numbers.

The database (`ChatDBProofs`, `ChatDBOutcomeProofs`):

- `TypeCorrect`: `Spec => []TypeOK`.
- `GapFreeNumbering`: `Spec => []GapFree`. `GapFree` is not inductive: a commit
  adds a row with the number computed at the SELECT. The invariant `IInv` adds what
  the lock is for: a transaction past its SELECT owns the row and carries
  `last_seq + 1` (`StorerOwnsRow`), a creation past its INSERT owns a row that
  does not exist yet (`CreatorOwnsRow`), and a session without a row is empty
  (`AbsentIsEmpty`).
- `NoSeqContention`: from `StorerOwnsRow` (two owners of one row are one) and
  `GapFree` (no row has the number `last_seq + 1`).
- `Refinement`: `Spec => ImplementsLog`. Under `IInv` a commit appends one entry to
  the log that `LogOf` reads from the tables, a group commit creates a session, a
  read mark that changes its row moves a position forward, and every other step is
  a stutter.
- `StoredStays` (`StoredDurable`): no step takes a row away, and what a handler
  reports is the row it committed.
- `TimesInOrder` (`TimeFollowsSeq`): no row is later than the clock, nor than the
  time of a transaction that holds its session's row, because that time is read
  from the clock while the row is held (`RowsPast`, `DraftLatest`).
- `SnapshotsAreCurrent` (`SnapshotNotBehind`): a `max_seq` once read stays within the
  log, which only grows (`SnapBounded`).
- `GroupsAreWhole` (`CreatedExact`): the members that a committed creation has
  written are those that were asked for, until its answer (`CommittedGroup`).
- `BadgesAreExact` (`UnreadExact`): the difference of two columns is the cardinality
  of the rows after the position, by the bijection of those rows with the
  numbers after it that `GapFree` gives.
- `RowsStay` (`NothingTakenBack`): no step takes back a message, a session, a
  member, a number or a read position. A group commit sets the positions of its
  members, and `AbsentIsEmpty` is why that sets none back.
- `RowsAreGivenBack` (`RowsInUse`) and `NoDeadlock` (`WaitsEnd`): a row is held by a
  transaction that is at work with it, and whoever waits, waits for a handler that
  can go on, or for one that waits for such a one. Whoever owns a row waits for
  nothing but a message with its own id that another transaction has inserted and
  not committed, and a transaction that has inserted waits for nobody. "Can
  go on" (`Ready`) is written out, because the provers have no ENABLED.

The send path (`SendPathProofs`):

- `AcceptedIsStored` (`AckedStoredOnce`) and `MembersOnly` (`OnlyMembersPost`). The
  invariant follows a request through four actors: a store call exists only for
  a member's request (`StoreChecked`; membership is fixed once a session exists, so
  the test guards the store and cannot go stale), the logs hold exactly the attempts
  whose store committed, at the position `seq` (`StoredAt`), and no handler gets past
  the store without it (`PastTheStore`).
- `TypeCorrect`, `PushesAreStored` (`PushedIsStored`), `PushesReachAll`
  (`PushComplete`) and `AnswersKeepOrder` (`SequentialOrder`). A second invariant,
  `PInv`, on top of the first: only a push under way has connections left, a
  connection that the push dealt with has the message or is closed, what is shown
  is stored, and the requests that a client had answered before it sent this one are
  answered, hence numbered and shown before it.
- `NeverTwice` (`AtMostOnce`): an attempt is stored and shown once at most, also when
  its sender was told that it failed and the store came later.

The gateway's connections (`PresenceProofs`):

- `TypeCorrect`, `HubAgrees` (`HubConsistent`) and `AckedStaysBound`
  (`AuthOkMeansBound`). The last needs an invariant over all phases of an auth:
  while the socket is open the connection is bound to the old user until `bind` and
  to the new one from then on (`BoundWhileOpen`), and a push removes only what it
  has closed (`DoomedClosed`).
- `ForgottenWhenDone` and `OnlyAuthRebinds`: a connection whose handler has returned
  is nobody's and never comes back, though pushes still hold it, and one that is
  open changes hands only by its own auth.
- `KeysRunOut` (`KeysNeedConnections`): a key comes only with an auth, and its life is
  prolonged only through a connection of its user.

The earlier servers (`ChatSplitProofs`, `ChatSplitRefines`):

- `TypeCorrect`, `HubsUsable` (`HubIsUsable`), `ClientsListed` (`ServedIsListed`),
  `NoStrayMessage` (`RightMailbox`, which is in no run) and `NothingVanishes`
  (`RoutedIsKept`). `dropped` has the messages that a branch of the code gave up with
  a line in the log, and `lost` those that a server was routing when it was killed or
  sent on a closed channel, of which nothing tells: `RoutedIsKept` excepts the second
  by name and nothing else. The invariant says of each connection how far
  its goroutines can be in each phase (`ConnsOK`, `WorkOK`): whoever holds a client
  got it from the hub under the user it routes to, so a late send lands with the
  right user or panics; and each item of the table or of a replay was accepted for
  its user (`TableOK`).
- `KeepsPromise`: `Spec => ImplementsMailbox`. Each step of the servers is a step
  of `Mailbox` or a stutter. The refinement needs that two goroutines never route
  the same message (`Distinct`), and that what one owes is neither given up nor lost
  yet (`Apart`, `OverOK`).
- `RoutedOnce`, `NothingFromNowhere` (`OnlyAccepted`) and `StoredUntilHanded`
  (`TableKeepsUnhanded`, `Remembers`): that strengthening as a theorem of its own,
  and what the mailbox promises, read off the servers: nothing is queued,
  stored, given up or lost that was not accepted for that member, and an item leaves the
  table only after a channel of its receiver had it.

Discovery (`DiscoveryProofs`):

- `TypeCorrect`, `LatestListed` (`LatestIsListed`), `ResolvedAlive` and `ViewsInOrder`
  (`ViewForward`). Each key in the store is under a live lease (`KeysHaveLeases`),
  and the list that is read, the one in the channel and the one being sent
  have revisions in that order (`InOrder`). `ResolvedAlive`, that whoever
  `ResolveOne` names held a live lease, follows from the first and is in no run.
- `StaleIsNotKept` (`KeptIsRegistered`, `EndedForGood`) and `NobodyEvictsOthers`: only
  a registered process has its lease renewed, an ended lease brings nothing back,
  not even by a late put, and an entry goes by its own lease or a later put under
  its id.

Reading (`ReadingProofs`):

- `TypeCorrect`, `NothingMarkedUnseen` (`MarkedWasShown`), `ShortPagesAreLast`
  (`ShortIsLast`), `EmptyPagesAreLast` (`EmptyIsEnd`) and `ScrollHasNoSeam`
  (`ScrollContiguous`). `MarkedWasShown` is about marks that have arrived; the
  invariant says the same of all that can still become one: a device's cursor, the
  start of an unread page that is on its way, a sender's mark (`NothingMissed`).
  `PagesFit` says that a page is one stretch of the log and that an earlier page ends
  where the scroll begins. The sorted pages are chosen by rank (the i-th row is the
  one with i - 1 rows before it), so that the lemmas (`RowAscOfStretch`,
  `RowDescOfStretch`) need the cardinality of an interval, and no induction.
- `ReadingUsesLog`: `Spec => [][Log!LogNext]_(Log!logVars)`, with the state mapped to one
  session of `MessageLog`.
- The only assumption beyond ranges is `2^Width \in Nat`: it holds of every natural
  `Width`, but powers are defined by an induction over data.

Only model-checked: liveness, which TLAPS does not do. For most of these
properties the theorem at the right has the part that is safety.

| property | what is proved of it |
|---|---|
| `HandlersReturn` | `RowsAreGivenBack`, `NoDeadlock`: somebody can always go on |
| `AlwaysAnswered` | nothing beyond `AcceptedIsStored`, which says what an answer means |
| `Forgotten` | `ForgottenWhenDone`: once gone, a connection stays gone |
| `StaleExpires` | `KeysRunOut`: nothing but a connection keeps a key alive |
| `RoutingEnds` | `RoutedOnce`, `NothingVanishes`: where a message is until then |
| `PresenceRestored` | `ClientsListed`: what a heartbeat finds to refresh |
| `StaleEntryGoes` | `StaleIsNotKept`: nobody renews a stale entry |
| `ViewSettles` | `ViewsInOrder`: a view never goes back |

## 5. Findings

- `NotFoundMeansNotMember` (`db_not_found`): a member who repeats a read mark, or sends
  one that does not advance, is answered "session member not found", because the
  UPDATE changes no row and the driver counts changed rows. The property compares
  the answer with the membership at the time of the UPDATE; in the run a member
  marks 1, is answered ok, marks 1 again, and is not found.
- `OnlineStored` (`presence_online`): a user with two connections goes offline in
  Redis when one of them closes, and the pings of the other do not bring the keys
  back.
- `ReplayDelivers` (`split_replay`): `handleWebSocket` of `chatserver_split` starts the
  replay of stored messages with the context of its request and returns, and
  net/http cancels that context when a handler has returned. The replay can find
  it cancelled before it has read the table, and ends with a line in the log, though
  `chat_gateway_readme.md:35` says that stored messages are replayed on reconnect.

Notes:

- The root README says a sender is "automatically marked as having read that
  message"; the code makes one attempt and logs its failure, as the comment at
  `cmd/messagetransmit/main.go:68` says. `SendPath` and `Reading` let the mark be
  lost, and nothing they check depends on it. The mark passes whatever others sent
  just before: `MarkedWasShown` says exactly that, and no more.
- A `limit` above 32 bits is accepted and cut. `ShortIsLast` is stated for the
  limits that fit, and `EmptyIsEnd` holds for all of them only because a limit cut
  to 0 becomes the repository's default.
- Between the first list of a watch and the opening of its stream a change can go
  unseen until the next one: `ViewSettles` excepts that gap (`InTheGap`) and
  nothing else.
- `chat_gateway_readme.md:80` says that undeliverable messages are stored, and line 82
  that the design avoids message loss. In `chatserver_split` a send on a channel that
  `cleanupClient` has closed (`routing.go:104`) panics and ends the process, with every
  message it was routing neither stored nor logged. `lost` has them.
- An item is deleted from the table once it was queued (`offline.go:115`), not once it
  was delivered, as `chat_gateway_readme.md:35` says: what `writePump` has not written
  when the socket breaks is gone. An error between the two brings it again. The
  properties follow a message to its channel and no further.
- `cleanupClient` removes whichever client its user has (`websocket.go:85`). A reconnect
  to the same server that came before the cleanup is served but not listed, and
  gets neither messages nor heartbeats, though `heartbeat.go:9` says "every user
  currently connected". `ServedIsListed` excepts that case and no other.
- The sort key of `chatserver_split` drops trailing zeros of a fraction and so sorts a
  whole second after its tenths. `SplitStores` has that order; items of a page
  may be replayed out of it anyway, in parallel with new messages.

## 6. Not modelled

- Friend list and display data: SELECTs over tables nothing changes.
- HTTP routing, JSON and validation, CORS, logging, configuration, the conversions
  between rows and protobuf messages: no state. `GET members` returns what
  `Reading` and `SendPath` already take from the membership table.
- Start and graceful stop of the gRPC servers: a stop is a stop of all handlers,
  which the lost calls and late commits of `SendPath` include.
- A response that net/http can no longer write because pushes took longer than
  the server's `WriteTimeout`: `AlwaysAnswered` is about the handler's end.
- A connection that a push has listed for one user and that authenticates as
  another before the write: the push is then made to it. `SendPath` lets a
  connection authenticate once; hence no property speaks of it.
- `last_seen:user:` in Redis: written by every call, read by none.
- The key syntax and JSON values of discovery.
- MySQL losing a committed transaction, etcd losing a put, and fail-over.
- Migrator, test client, load tests, Terraform, generated code.

## 7. Plan

Done: `Tables`, `MessageStorage`, `ChatService` and `ChatDB` against `MessageLog`;
`Hub`, `SendPath`, `Presence`; `Reading`; `SplitStores` and `ChatSplit` against
`Mailbox`; `Discovery`; the safety properties of all of them, and their
refinements of `MessageLog` and `Mailbox`, proved.

Left: a connection that changes its user under a push, in a composition of
`SendPath` and `Presence`, with a proof of what a push may then show to whom.
