------------------------------ MODULE SendPath ------------------------------
(* POST /api/messages/send from the HTTP request to its answer: the gateway  *)
(* handler calls messagetransmit, which tests membership, has the message    *)
(* stored, marks it read for the sender, and lists the members; the gateway  *)
(* then writes the message to the members' WebSockets and answers.           *)
(*                                                                           *)
(* The tables are the logs of MessageLog, which ChatDB is shown to           *)
(* implement.  Every call has a deadline: the caller may give up while the   *)
(* callee goes on, so a store or a read mark can take effect after its       *)
(* failure has been reported.                                                *)
EXTENDS Hub, Sequences

CONSTANTS
    Sessions,
    Attempts,  \* HTTP requests to send a message
    NoRequest

ASSUME NoRequestAssumption == NoRequest \notin [sender : Users, session : Sessions]

VARIABLES
    exists, membership, log, position,  \* MessageLog
    request,  \* what each attempt asks for
    gateway,  \* handleSendMessage
    transmit, \* messageTransmitServer.SendStringMessage
    store,    \* the StoreStringMessage call it makes
    mark,     \* the MarkSessionRead call it makes
    seq,      \* the session_seq the store returned
    targets,  \* the member ids returned to the gateway
    clients,  \* the connections pushNewMessage has taken to write to
    todo,     \* those it has not written to yet
    inbox,    \* history: what was written to each connection, in order
    before    \* history: the attempts answered 200 before each was made

sendVars == <<request, gateway, transmit, store, mark, seq, targets, clients,
              todo, inbox, before>>

\* A log entry is the attempt that made it.
INSTANCE MessageLog WITH Entries <- Attempts, Seqs <- Nat

logs == <<exists, membership, log, position>>
vars == <<logs, hubVars, sendVars>>

Request == [sender : Users, session : Sessions]
Call == {"none", "running", "done", "dropped"}

Init == /\ LogInit
        /\ HubInit
        /\ request = [a \in Attempts |-> NoRequest]
        /\ gateway = [a \in Attempts |-> "idle"]
        /\ transmit = [a \in Attempts |-> "idle"]
        /\ store = [a \in Attempts |-> "none"]
        /\ mark = [a \in Attempts |-> "none"]
        /\ seq = [a \in Attempts |-> 0]
        /\ targets = [a \in Attempts |-> {}]
        /\ clients = [a \in Attempts |-> {}]
        /\ todo = [a \in Attempts |-> {}]
        /\ inbox = [c \in Conns |-> << >>]
        /\ before = [a \in Attempts |-> {}]

TypeOK == /\ HubTypeOK
          /\ exists \subseteq Sessions
          /\ membership \in [Sessions -> SUBSET Users]
          /\ log \in [Sessions -> Seq(Attempts)]
          /\ position \in [Sessions -> [Users -> Nat]]
          /\ request \in [Attempts -> Request \cup {NoRequest}]
          /\ gateway \in [Attempts -> {"idle", "waiting", "pushing", "ok", "failed"}]
          /\ transmit \in [Attempts -> {"idle", "checking", "storing", "marking",
                                        "listing", "replied", "failed"}]
          /\ store \in [Attempts -> Call] /\ mark \in [Attempts -> Call]
          /\ seq \in [Attempts -> Nat]
          /\ targets \in [Attempts -> SUBSET Users]
          /\ clients \in [Attempts -> SUBSET Conns]
          /\ todo \in [Attempts -> SUBSET Conns]
          /\ inbox \in [Conns -> Seq(Attempts)]
          /\ before \in [Attempts -> SUBSET Attempts]

Room(a) == request[a].session
Sender(a) == request[a].sender

-----------------------------------------------------------------------------
\* The chat service creates a session (ChatDB has the steps).
CreateSession(s, ms) == Create(s, ms) /\ UNCHANGED <<hubVars, sendVars>>

\* The HTTP request arrives and the gateway calls messagetransmit.
SendMessage(a, u, s) ==
    /\ gateway[a] = "idle"
    /\ request' = [request EXCEPT ![a] = [sender |-> u, session |-> s]]
    /\ gateway' = [gateway EXCEPT ![a] = "waiting"]
    /\ transmit' = [transmit EXCEPT ![a] = "checking"]
    /\ before' = [before EXCEPT ![a] = {b \in Attempts : gateway[b] = "ok"}]
    /\ UNCHANGED <<logs, hubVars, store, mark, seq, targets, clients, todo, inbox>>

IsSessionMember(s, u) == u \in membership[s]

\* Mutant: a row of the query that cannot be scanned yields an empty id.
MemberIDsWithBlank(s) == membership[s] \cup {NoUser}

ListSessionMemberIDs(s) == membership[s]

\* Mutant: an error of IsSessionMember, or no for an answer, is passed over.
CheckNothing(a) ==
    /\ transmit[a] = "checking"
    /\ transmit' = [transmit EXCEPT ![a] = "storing"]
    /\ store' = [store EXCEPT ![a] = "running"]
    /\ UNCHANGED <<logs, hubVars, request, gateway, mark, seq, targets, clients,
                   todo, inbox, before>>

\* IsSessionMember answers; only a member's message goes on to the store.
CheckMember(a) ==
    LET isMember == IsSessionMember(Room(a), Sender(a)) IN
    /\ transmit[a] = "checking"
    /\ transmit' = [transmit EXCEPT ![a] = IF isMember THEN "storing" ELSE "failed"]
    /\ store' = IF isMember THEN [store EXCEPT ![a] = "running"] ELSE store
    /\ UNCHANGED <<logs, hubVars, request, gateway, mark, seq, targets, clients,
                   todo, inbox, before>>

\* Mutant: the number returned is last_seq, not newSeq.
StoreReturnsLastSeq(a) ==
    /\ store[a] = "running"
    /\ Post(Room(a), a)
    /\ store' = [store EXCEPT ![a] = "done"]
    /\ seq' = [seq EXCEPT ![a] = Len(log[Room(a)])]
    /\ UNCHANGED <<hubVars, request, gateway, transmit, mark, targets, clients,
                   todo, inbox, before>>

\* The store commits, whether or not anybody still waits for it.
StoreCommits(a) ==
    /\ store[a] = "running"
    /\ Post(Room(a), a)
    /\ store' = [store EXCEPT ![a] = "done"]
    /\ seq' = [seq EXCEPT ![a] = Len(log'[Room(a)])]
    /\ UNCHANGED <<hubVars, request, gateway, transmit, mark, targets, clients,
                   todo, inbox, before>>

StoreDropped(a) ==
    /\ store[a] = "running"
    /\ store' = [store EXCEPT ![a] = "dropped"]
    /\ UNCHANGED <<logs, hubVars, request, gateway, transmit, mark, seq, targets,
                   clients, todo, inbox, before>>

\* Mutant: the store is left to a goroutine.
StoredInBackground(a) ==
    /\ transmit[a] = "storing"
    /\ transmit' = [transmit EXCEPT ![a] = "marking"]
    /\ mark' = [mark EXCEPT ![a] = "running"]
    /\ UNCHANGED <<logs, hubVars, request, gateway, store, seq, targets, clients,
                   todo, inbox, before>>

\* The new message comes back and MarkSessionRead is called for the sender.
Stored(a) ==
    /\ transmit[a] = "storing"
    /\ store[a] = "done"
    /\ transmit' = [transmit EXCEPT ![a] = "marking"]
    /\ mark' = [mark EXCEPT ![a] = "running"]
    /\ UNCHANGED <<logs, hubVars, request, gateway, store, seq, targets, clients,
                   todo, inbox, before>>

\* The chat service applies the mark: GREATEST, and an error if nothing changes.
MarkApplies(a) ==
    /\ mark[a] = "running"
    /\ \/ Read(Room(a), Sender(a), seq[a]) /\ mark' = [mark EXCEPT ![a] = "done"]
       \/ /\ seq[a] <= position[Room(a)][Sender(a)]
          /\ mark' = [mark EXCEPT ![a] = "dropped"]
          /\ UNCHANGED logs
    /\ UNCHANGED <<hubVars, request, gateway, transmit, store, seq, targets, clients,
                   todo, inbox, before>>

MarkDropped(a) ==
    /\ mark[a] = "running"
    /\ mark' = [mark EXCEPT ![a] = "dropped"]
    /\ UNCHANGED <<logs, hubVars, request, gateway, transmit, store, seq, targets,
                   clients, todo, inbox, before>>

\* Best effort: the transmit service goes on with or without an answer.
MarkReturns(a) ==
    /\ transmit[a] = "marking"
    /\ transmit' = [transmit EXCEPT ![a] = "listing"]
    /\ UNCHANGED <<logs, hubVars, request, gateway, store, mark, seq, targets,
                   clients, todo, inbox, before>>

\* ListSessionMemberIDs answers and the response is on its way to the gateway.
ListMembers(a) ==
    /\ transmit[a] = "listing"
    /\ transmit' = [transmit EXCEPT ![a] = "replied"]
    /\ targets' = [targets EXCEPT ![a] = ListSessionMemberIDs(Room(a))]
    /\ UNCHANGED <<logs, hubVars, request, gateway, store, mark, seq, clients,
                   todo, inbox, before>>

\* Mutant: a store that has not answered is asked for again.
TransmitRetries(a) ==
    /\ transmit[a] = "storing"
    /\ store' = [store EXCEPT ![a] = "running"]
    /\ UNCHANGED <<logs, hubVars, request, gateway, transmit, mark, seq, targets,
                   clients, todo, inbox, before>>

\* Any of the calls but the read mark fails or times out, or the process dies:
\* the caller gets an error, and what was done stays done.
TransmitFails(a) ==
    /\ transmit[a] \in {"checking", "storing", "marking", "listing", "replied"}
    /\ transmit' = [transmit EXCEPT ![a] = "failed"]
    /\ UNCHANGED <<logs, hubVars, request, gateway, store, mark, seq, targets,
                   clients, todo, inbox, before>>

-----------------------------------------------------------------------------
\* The response arrives: pushNewMessage takes the connections of the members.
StartPush(a) ==
    /\ gateway[a] = "waiting"
    /\ transmit[a] = "replied"
    /\ gateway' = [gateway EXCEPT ![a] = "pushing"]
    /\ clients' = [clients EXCEPT ![a] = snapshotClients(targets[a])]
    /\ todo' = [todo EXCEPT ![a] = snapshotClients(targets[a])]
    /\ UNCHANGED <<logs, hubVars, request, transmit, store, mark, seq, targets,
                   inbox, before>>

\* Mutant: no deadline, only an error of the callee ends the wait.
SendFailsOnError(a) ==
    /\ gateway[a] = "waiting"
    /\ transmit[a] = "failed"
    /\ gateway' = [gateway EXCEPT ![a] = "failed"]
    /\ UNCHANGED <<logs, hubVars, request, transmit, store, mark, seq, targets,
                   clients, todo, inbox, before>>

\* The 3 s deadline of the call passes, or the call returns an error: 500.
SendFails(a) ==
    /\ gateway[a] = "waiting"
    /\ gateway' = [gateway EXCEPT ![a] = "failed"]
    /\ UNCHANGED <<logs, hubVars, request, transmit, store, mark, seq, targets,
                   clients, todo, inbox, before>>

\* One connection is written to.  The write may seem to succeed when the peer
\* has gone.
Push(a, c) ==
    /\ c \in todo[a]
    /\ todo' = [todo EXCEPT ![a] = @ \ {c}]
    /\ inbox' = IF socket[c] = "open" THEN [inbox EXCEPT ![c] = Append(@, a)] ELSE inbox
    /\ UNCHANGED <<logs, hubVars, request, gateway, transmit, store, mark, seq,
                   targets, clients, before>>

\* Mutant: the first write that fails ends the loop.
PushFailsAll(a, c) ==
    /\ c \in todo[a]
    /\ todo' = [todo EXCEPT ![a] = {}]
    /\ socket' = [socket EXCEPT ![c] = "closed"]
    /\ remove(c)
    /\ UNCHANGED <<logs, request, gateway, transmit, store, mark, seq, targets,
                   clients, inbox, before>>

\* The write fails: the connection is closed and removed (in two steps, which
\* Presence has), the others go on.
PushFails(a, c) ==
    /\ c \in todo[a]
    /\ todo' = [todo EXCEPT ![a] = @ \ {c}]
    /\ socket' = [socket EXCEPT ![c] = "closed"]
    /\ remove(c)
    /\ UNCHANGED <<logs, request, gateway, transmit, store, mark, seq, targets,
                   clients, inbox, before>>

\* Mutant: go pushNewMessage, the answer does not wait for it.
AnswerFirst(a) ==
    /\ gateway[a] = "pushing"
    /\ gateway' = [gateway EXCEPT ![a] = "ok"]
    /\ UNCHANGED <<logs, hubVars, request, transmit, store, mark, seq, targets,
                   clients, todo, inbox, before>>

\* Everybody has been written to: 200.
Answer(a) ==
    /\ gateway[a] = "pushing"
    /\ todo[a] = {}
    /\ gateway' = [gateway EXCEPT ![a] = "ok"]
    /\ UNCHANGED <<logs, hubVars, request, transmit, store, mark, seq, targets,
                   clients, todo, inbox, before>>

-----------------------------------------------------------------------------
\* A client connects and authenticates.  Once: what follows when it does so
\* again is in Presence.
Connect(c, u) == /\ socket[c] = "new"
                 /\ socket' = [socket EXCEPT ![c] = "open"]
                 /\ bind(c, u)
                 /\ UNCHANGED <<logs, sendVars>>

\* The network or the client closes the socket; then its handler notices.
SocketDies(c) == /\ socket[c] = "open"
                 /\ socket' = [socket EXCEPT ![c] = "closed"]
                 /\ UNCHANGED <<logs, users, user_of, sendVars>>

HandlerLeaves(c) == /\ socket[c] = "closed"
                    /\ user_of[c] # NoUser
                    /\ remove(c)
                    /\ UNCHANGED <<logs, socket, sendVars>>

\* The gateway process dies: no socket, no map, no answer.  (With no request in
\* progress this is every socket dying.)
GatewayCrash ==
    /\ \E a \in Attempts : gateway[a] \in {"waiting", "pushing"}
    /\ gateway' = [a \in Attempts |-> IF gateway[a] \in {"waiting", "pushing"}
                                      THEN "failed" ELSE gateway[a]]
    /\ socket' = [c \in Conns |-> IF socket[c] = "new" THEN "new" ELSE "closed"]
    /\ users' = [u \in Users |-> {}]
    /\ user_of' = [c \in Conns |-> NoUser]
    /\ todo' = [a \in Attempts |-> {}]
    /\ UNCHANGED <<logs, request, transmit, store, mark, seq, targets, clients,
                   inbox, before>>

TransmitStep(a) == \/ CheckMember(a) \/ StoreCommits(a) \/ StoreDropped(a) \/ Stored(a)
                   \/ MarkApplies(a) \/ MarkDropped(a) \/ MarkReturns(a)
                   \/ ListMembers(a) \/ TransmitFails(a)

GatewayStep(a) == \/ StartPush(a) \/ SendFails(a) \/ Answer(a)
                  \/ \E c \in Conns : Push(a, c) \/ PushFails(a, c)

Next == \/ \E s \in Sessions, ms \in SUBSET Users : CreateSession(s, ms)
        \/ \E a \in Attempts :
              \/ \E u \in Users, s \in Sessions : SendMessage(a, u, s)
              \/ TransmitStep(a)
              \/ GatewayStep(a)
        \/ \E c \in Conns : \/ \E u \in Users : Connect(c, u)
                            \/ SocketDies(c)
                            \/ HandlerLeaves(c)
        \/ GatewayCrash

Spec == Init /\ [][Next]_vars

\* A gateway handler always gets on: its RPC has a deadline (client.go) and so
\* has every write (10 s).  The other services owe it nothing.
Fairness == \A a \in Attempts : WF_vars(GatewayStep(a))

FairSpec == Spec /\ Fairness

-----------------------------------------------------------------------------
Positions(a) == {k \in DOMAIN log[Room(a)] : log[Room(a)][k] = a}

\* "Once a message is accepted, it must not be lost": an attempt answered 200
\* is in its session's log, once, under the session_seq that was returned.
AckedStoredOnce == \A a \in Attempts : gateway[a] = "ok" => Positions(a) = {seq[a]}

NoneTwice(q) == \A j, k \in DOMAIN q : q[j] = q[k] => j = k

\* Answered, failed or still under way, an attempt is in the logs at most once and
\* is shown at most once on any connection: a late store does not come on top of
\* another, and no push writes twice to a connection.
AtMostOnce == /\ \A s \in Sessions : NoneTwice(log[s])
              /\ \A c \in Conns : NoneTwice(inbox[c])

\* Every message of a session was sent by a member of it, whatever calls were
\* lost or late: the membership test of SendStringMessage guards the store.  The
\* members of a session are fixed once it exists, so the test does not go stale.
OnlyMembersPost == \A s \in Sessions : \A k \in DOMAIN log[s] :
    /\ Room(log[s][k]) = s
    /\ Sender(log[s][k]) \in membership[s]

\* What a WebSocket has shown is in the log: pushNewMessage never runs ahead of
\* the commit.
PushedIsStored == \A c \in Conns : \A k \in DOMAIN inbox[c] :
    Positions(inbox[c][k]) # {}

\* A client that waits for each answer before it sends again has its messages
\* numbered, and pushed to every connection, in the order it sent them: the
\* gateway answers after the pushes.
SequentialOrder == \A b \in Attempts : \A a \in before[b] :
    Room(a) = Room(b) =>
        /\ \A j \in Positions(a), k \in Positions(b) : j < k
        /\ \A c \in Conns : \A j, k \in DOMAIN inbox[c] :
               inbox[c][j] = a /\ inbox[c][k] = b => j < k

\* When the sender has its 200, every connection a member had when the push
\* began has the message or is closed: one broken connection does not cost
\* the others the message.
PushComplete == \A a \in Attempts : gateway[a] = "ok" =>
    \A c \in clients[a] : \/ socket[c] = "closed"
                          \/ \E k \in DOMAIN inbox[c] : inbox[c][k] = a

\* Every request is answered, even if no other service ever replies.
AlwaysAnswered == \A a \in Attempts :
    gateway[a] \in {"waiting", "pushing"} ~> gateway[a] \in {"ok", "failed"}
=============================================================================
