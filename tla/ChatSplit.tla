------------------------------ MODULE ChatSplit ------------------------------
(* The chat servers of mnt/data/chatserver_split: every server keeps the     *)
(* WebSocket clients connected to it, finds the server of a message's        *)
(* receiver in Redis, hands the message over there, and keeps what it could  *)
(* not hand over in DynamoDB until the receiver connects again.              *)
(* A step ends where a goroutine touches what another one can change: the    *)
(* hub, a Send channel, Redis, DynamoDB, another server.                     *)
EXTENDS SplitStores, Sequences

CONSTANTS
    Conns,      \* WebSocket connections: one Client each, used once
    Members,    \* the members of the one conversation, gone through in any order
    Talkers,    \* the users who send messages
    Stable,     \* the connections whose peer never goes away
    Dials,      \* the connections that are made: connection, user, server
    SendCap,    \* the capacity of Client.Send, 256 in the code
    MaxFaults,  \* how many calls fail, time out or lose their answer
    MaxCrashes  \* how many times a server is killed or stopped

ASSUME MembersAssumption == Members \subseteq Users
ASSUME NoConnAssumption == None \notin Conns \cup Users
ASSUME BoundsAssumption == SendCap \in Nat /\ MaxFaults \in Nat /\ MaxCrashes \in Nat
ASSUME DialsAssumption == Dials \subseteq Conns \X Users \X Servers
ASSUME TalkersAssumption == Talkers \subseteq Users

VARIABLES
    up,       \* the servers that run
    hub,      \* Hub.clients of each server
    user, at, \* each connection's user and server
    phase,    \* how far the handler and readPump of a connection are
    socket,   \* Client.Conn: "new", "open" or "closed"
    send,     \* Client.Send, a buffered channel
    writer,   \* the connections whose writePump runs
    job,      \* the message a readPump is routing
    replay,   \* a connection's deliverOfflineMessages; its r.Context() is live or cancelled
    calls,    \* the POST /internal/send calls under way
    beat,     \* the users startHeartbeat has yet to refresh
    faults, crashes,
    accepted, \* the messages that were accepted for a receiver
    queued,   \* the messages that entered a channel of their receiver
    dropped,  \* the messages given up with a line in the log
    lost      \* the messages a server was routing when it died: no line tells

connVars == <<user, at, phase, socket>>
workVars == <<job, replay, calls, beat>>
seenVars == <<accepted, queued, dropped, lost>>
vars == <<storeVars, up, hub, connVars, send, writer, workVars, faults, crashes, seenVars>>

Phases == {"new", "added", "serving", "removed", "leaving", "gone"}
JobAt(stage, m, left) == [stage |-> stage, msg |-> m, left |-> left, target |-> None, client |-> None]
Idle == JobAt("idle", 0, {})
ReplayAt(stage, items, live) ==
    [stage |-> stage, items |-> items, item |-> 0, client |-> None, live |-> live]
Off == ReplayAt("off", {}, FALSE)
\* Job j or replay r, a step further.
JobAs(j, stage, target, client) ==
    [stage |-> stage, msg |-> j.msg, left |-> j.left, target |-> target, client |-> client]
ReplayAs(r, stage, item, client, live) ==
    [stage |-> stage, items |-> r.items, item |-> item, client |-> client, live |-> live]

Job == [stage: {"idle", "lookup", "local", "push", "await", "unset", "store"}, msg: Stamps \cup {0},
        left: SUBSET Users, target: Users \cup {None}, client: Conns \cup {None}]
Replay == [stage: {"off", "list", "get", "push", "delete"}, items: SUBSET Stamps,
           item: Stamps \cup {0}, client: Conns \cup {None}, live: BOOLEAN]
Call == [user: Users, msg: Stamps, to: Servers, by: Conns \cup {None},
         stage: {"sent", "push", "done", "failed"}, client: Conns \cup {None}]

Init == /\ StoresInit
        /\ up = Servers
        /\ hub = [s \in Servers |-> [u \in Users |-> None]]
        /\ user = [c \in Conns |-> None]
        /\ at = [c \in Conns |-> None]
        /\ phase = [c \in Conns |-> "new"]
        /\ socket = [c \in Conns |-> "new"]
        /\ send = [c \in Conns |-> <<>>]
        /\ writer = {}
        /\ job = [c \in Conns |-> Idle]
        /\ replay = [c \in Conns |-> Off]
        /\ calls = {}
        /\ beat = [s \in Servers |-> {}]
        /\ faults = 0
        /\ crashes = 0
        /\ accepted = [u \in Users |-> {}]
        /\ queued = [u \in Users |-> {}]
        /\ dropped = [u \in Users |-> {}]
        /\ lost = [u \in Users |-> {}]

\* A call's outcome: failing uses up one of the faults.
Outcome(ok) == /\ ok \/ faults < MaxFaults
               /\ faults' = IF ok THEN faults ELSE faults + 1

-----------------------------------------------------------------------------
(* Client.Send, shared by readPump, writePump, replays and /internal/send    *)

\* close(c.Send) was called: another send panics.
SendClosed(c) == phase[c] \in {"leaving", "gone"}

SendFull(c) == Len(send[c]) >= SendCap

Enqueue(c, u, m) == /\ send' = [send EXCEPT ![c] = Append(@, m)]
                    /\ queued' = [queued EXCEPT ![u] = @ \cup {m}]

(* A goroutine that panics outside an HTTP handler takes its process down,   *)
(* like a kill or the end of waitForShutdown, which leaves hijacked          *)
(* connections alone: sockets close, nothing is cleaned up in Redis, and     *)
(* what its readPumps were routing is neither stored nor logged.             *)
ConnsOf(s) == {c \in Conns : at[c] = s}

CallAs(k, by, stage, client) ==
    [user |-> k.user, msg |-> k.msg, to |-> k.to, by |-> by, stage |-> stage, client |-> client]

\* What becomes of a call when server s dies: its handler, and its caller, go.
CallWithout(k, s) ==
    LET by == IF k.by \in ConnsOf(s) THEN None ELSE k.by
    IN  IF k.to = s /\ k.stage = "push" THEN CallAs(k, by, "failed", None)
                                        ELSE CallAs(k, by, k.stage, k.client)

ServerDies(s) ==
    /\ up' = up \ {s}
    /\ hub' = [hub EXCEPT ![s] = [u \in Users |-> None]]
    /\ phase' = [c \in Conns |-> IF c \in ConnsOf(s) THEN "gone" ELSE phase[c]]
    /\ socket' = [c \in Conns |-> IF c \in ConnsOf(s) THEN "closed" ELSE socket[c]]
    /\ send' = [c \in Conns |-> IF c \in ConnsOf(s) THEN <<>> ELSE send[c]]
    /\ writer' = writer \ ConnsOf(s)
    /\ job' = [c \in Conns |-> IF c \in ConnsOf(s) THEN Idle ELSE job[c]]
    /\ replay' = [c \in Conns |-> IF c \in ConnsOf(s) THEN Off ELSE replay[c]]
    /\ calls' = {CallWithout(k, s) : k \in calls}
    /\ beat' = [beat EXCEPT ![s] = {}]
    /\ lost' = [u \in Users |-> lost[u] \cup
                  {job[c].msg : c \in {d \in ConnsOf(s) : u \in job[d].left}}]
    /\ UNCHANGED <<user, at, accepted, queued, dropped>>

Crash(s) == /\ s \in up
            /\ crashes < MaxCrashes
            /\ crashes' = crashes + 1
            /\ ServerDies(s)
            /\ UNCHANGED <<storeVars, faults>>

Start(s) == /\ s \notin up
            /\ up' = up \cup {s}
            /\ UNCHANGED <<storeVars, hub, connVars, send, writer, workVars, faults, crashes, seenVars>>

-----------------------------------------------------------------------------
(* Hub, each operation under its lock: one client per user, the latest       *)

Add(c, u, s) == hub' = [hub EXCEPT ![s][u] = c]

\* It deletes the user's client, whichever that is.
Remove(u, s) == hub' = [hub EXCEPT ![s][u] = None]

Get(u, s) == hub[s][u]

-----------------------------------------------------------------------------
(* handleWebSocket                                                           *)

HubAdd(c, u, s) ==
    /\ <<c, u, s>> \in Dials /\ s \in up /\ phase[c] = "new"
    /\ Add(c, u, s)
    /\ user' = [user EXCEPT ![c] = u]
    /\ at' = [at EXCEPT ![c] = s]
    /\ phase' = [phase EXCEPT ![c] = "added"]
    /\ socket' = [socket EXCEPT ![c] = "open"]
    /\ UNCHANGED <<storeVars, up, send, writer, job, replay, calls, beat, faults, crashes, seenVars>>

\* Mutant of StartPumps: an error takes the client out of the hub, and the pumps start.
StartPumpsUnlisted(c) ==
    /\ phase[c] = "added"
    /\ \E ok \in BOOLEAN : /\ Outcome(ok) /\ setUserPresence(user[c], at[c], ok)
                           /\ IF ok THEN UNCHANGED hub ELSE Remove(user[c], at[c])
    /\ phase' = [phase EXCEPT ![c] = "serving"]
    /\ writer' = writer \cup {c}
    /\ replay' = [replay EXCEPT ![c] = ReplayAt("list", {}, TRUE)]
    /\ UNCHANGED <<table, up, user, at, socket, send, job, calls, beat, crashes, seenVars>>

\* The presence is set, and the pumps and the replay start whether it was or not.
StartPumps(c) ==
    /\ phase[c] = "added"
    /\ \E ok \in BOOLEAN : Outcome(ok) /\ setUserPresence(user[c], at[c], ok)
    /\ phase' = [phase EXCEPT ![c] = "serving"]
    /\ writer' = writer \cup {c}
    /\ replay' = [replay EXCEPT ![c] = ReplayAt("list", {}, TRUE)]
    /\ UNCHANGED <<table, up, hub, user, at, socket, send, job, calls, beat, crashes, seenVars>>

\* net/http cancels the request's context when the handler returns; only the
\* replay it started still uses it.
HandlerReturns(c) ==
    /\ replay[c].live
    /\ LET r == replay[c]
       IN  replay' = [replay EXCEPT ![c] = ReplayAs(r, r.stage, r.item, r.client, FALSE)]
    /\ UNCHANGED <<storeVars, up, hub, connVars, send, writer, job, calls, beat,
                   faults, crashes, seenVars>>

\* The peer goes away, or is silent for pongWait.
SocketDies(c) ==
    /\ c \notin Stable /\ socket[c] = "open"
    /\ socket' = [socket EXCEPT ![c] = "closed"]
    /\ UNCHANGED <<storeVars, up, hub, user, at, phase, send, writer, workVars, faults, crashes, seenVars>>

-----------------------------------------------------------------------------
(* writePump                                                                 *)

WriteDelivers(c) ==
    /\ c \in writer /\ send[c] # <<>> /\ socket[c] = "open"
    /\ send' = [send EXCEPT ![c] = Tail(@)]
    /\ UNCHANGED <<storeVars, up, hub, connVars, writer, workVars, faults, crashes, seenVars>>

\* The write fails on a closed socket, or misses writeWait: the message is lost.
WriteFails(c) ==
    /\ c \in writer /\ send[c] # <<>>
    /\ Outcome(socket[c] = "closed")
    /\ send' = [send EXCEPT ![c] = Tail(@)]
    /\ writer' = writer \ {c}
    /\ socket' = [socket EXCEPT ![c] = "closed"]
    /\ UNCHANGED <<storeVars, up, hub, user, at, phase, workVars, crashes, seenVars>>

\* The next ping fails.
PingFails(c) ==
    /\ c \in writer /\ socket[c] = "closed"
    /\ writer' = writer \ {c}
    /\ UNCHANGED <<storeVars, up, hub, connVars, send, workVars, faults, crashes, seenVars>>

-----------------------------------------------------------------------------
(* readPump and routing.go: a readPump routes one message at a time, to one  *)
(* member after the other.                                                   *)

Stage(c, stage) == job' = [job EXCEPT ![c] = JobAs(job[c], stage, job[c].target, None)]

\* With u dealt with, the rest of the members, if any, follow.
NextTarget(c, u) ==
    LET rest == job[c].left \ {u}
    IN  job' = [job EXCEPT ![c] = IF rest = {} THEN Idle
                                  ELSE JobAt("lookup", job[c].msg, rest)]

\* The error is logged, the message is not stored.
GiveUp(c, u) == /\ dropped' = [dropped EXCEPT ![u] = @ \cup {job[c].msg}]
                /\ NextTarget(c, u)

Sent == UNION {accepted[u] : u \in Users}

\* A message has a stamp of its own.  The clocks of two servers differ, and one
\* can be set back: it need not be later than the stamps of those before it.
handleChatMessage(c) ==
    /\ phase[c] = "serving" /\ job[c].stage = "idle" /\ socket[c] = "open"
    /\ user[c] \in Talkers
    /\ \E m \in Stamps :
         LET others == Members \ {user[c]}
         IN  /\ m \notin Sent
             /\ others # {}
             /\ job' = [job EXCEPT ![c] = JobAt("lookup", m, others)]
             /\ accepted' = [u \in Users |-> IF u \in others THEN accepted[u] \cup {m} ELSE accepted[u]]
    /\ UNCHANGED <<storeVars, up, hub, connVars, send, writer, replay, calls, beat,
                   faults, crashes, queued, dropped, lost>>

routeMessageToUser(c, u) ==
    /\ job[c].stage = "lookup" /\ u \in job[c].left
    /\ LET there == getUserPresence(u)
           stage == IF there = None THEN "store" ELSE IF there = at[c] THEN "local" ELSE "await"
       IN  /\ job' = [job EXCEPT ![c] = JobAs(job[c], stage, u, None)]
           /\ calls' = IF there \in {None, at[c]} THEN calls
                       ELSE calls \cup {[user |-> u, msg |-> job[c].msg, to |-> there, by |-> c,
                                         stage |-> "sent", client |-> None]}
    /\ UNCHANGED <<storeVars, up, hub, connVars, send, writer, replay, beat, faults, crashes, seenVars>>

\* The lookup fails: the caller logs it and goes to the next member.
LookupFails(c, u) ==
    /\ job[c].stage = "lookup" /\ u \in job[c].left
    /\ Outcome(FALSE)
    /\ GiveUp(c, u)
    /\ UNCHANGED <<storeVars, up, hub, connVars, send, writer, replay, calls, beat,
                   crashes, accepted, queued, lost>>

\* sendLocal: the client is read under the hub's lock and used after it.
LocalGet(c) ==
    /\ job[c].stage = "local"
    /\ LET client == Get(job[c].target, at[c])
       IN  IF client = None THEN Stage(c, "unset")
           ELSE job' = [job EXCEPT ![c] = JobAs(job[c], "push", job[c].target, client)]
    /\ UNCHANGED <<storeVars, up, hub, connVars, send, writer, replay, calls, beat,
                   faults, crashes, seenVars>>

LocalPush(c) ==
    /\ job[c].stage = "push" /\ ~SendClosed(job[c].client)
    /\ IF SendFull(job[c].client)
       THEN Stage(c, "unset") /\ UNCHANGED <<send, queued>>
       ELSE NextTarget(c, job[c].target) /\ Enqueue(job[c].client, job[c].target, job[c].msg)
    /\ UNCHANGED <<storeVars, up, hub, connVars, writer, replay, calls, beat,
                   faults, crashes, accepted, dropped, lost>>

LocalPanics(c) == /\ job[c].stage = "push" /\ SendClosed(job[c].client)
                  /\ ServerDies(at[c])
                  /\ UNCHANGED <<storeVars, faults, crashes>>

\* Mutant of Answered: the status of an answer is not looked at.
AnsweredAnyhow(c) ==
    \E k \in calls :
        /\ k.by = c /\ k.stage \in {"done", "failed"}
        /\ NextTarget(c, job[c].target)
        /\ calls' = calls \ {k}
        /\ UNCHANGED faults

\* Status 200, or another one or a connection that is refused or reset.
Answered(c) ==
    \E k \in calls :
        /\ k.by = c
        /\ \/ k.stage = "done" /\ NextTarget(c, job[c].target)
           \/ k.stage = "failed" /\ Stage(c, "unset")
        /\ calls' = calls \ {k}
        /\ UNCHANGED faults

\* No answer in five seconds: it comes too late, or it is lost.
TimesOut(c) ==
    /\ Stage(c, "unset")
    /\ \/ \E k \in calls : /\ k.by = c /\ Outcome(FALSE)
                            /\ calls' = (calls \ {k}) \cup {CallAs(k, None, k.stage, k.client)}
       \/ (\A k \in calls : k.by # c) /\ UNCHANGED <<calls, faults>>

\* Mutant of sendRemote: the client has no Timeout.
RemoteWaits(c) ==
    /\ job[c].stage = "await"
    /\ Answered(c)
    /\ UNCHANGED <<storeVars, up, hub, connVars, send, writer, replay, beat, crashes, seenVars>>

sendRemote(c) ==
    /\ job[c].stage = "await"
    /\ Answered(c) \/ TimesOut(c)
    /\ UNCHANGED <<storeVars, up, hub, connVars, send, writer, replay, beat, crashes, seenVars>>

\* Mutant of UnsetPresence: it returns before the message is stored.
UnsetAndReturn(c) ==
    /\ job[c].stage = "unset"
    /\ \E ok \in BOOLEAN : Outcome(ok) /\ removeUserPresence(job[c].target, ok)
    /\ NextTarget(c, job[c].target)
    /\ UNCHANGED <<table, up, hub, connVars, send, writer, replay, calls, beat, crashes, seenVars>>

\* The key is deleted whatever it holds by now.
UnsetPresence(c) ==
    /\ job[c].stage = "unset"
    /\ \E ok \in BOOLEAN : Outcome(ok) /\ removeUserPresence(job[c].target, ok)
    /\ Stage(c, "store")
    /\ UNCHANGED <<table, up, hub, connVars, send, writer, replay, calls, beat, crashes, seenVars>>

StoreOffline(c) ==
    /\ job[c].stage = "store"
    /\ storeOfflineMessage(job[c].target, job[c].msg)
    /\ NextTarget(c, job[c].target)
    /\ UNCHANGED <<presence, up, hub, connVars, send, writer, replay, calls, beat,
                   faults, crashes, seenVars>>

StoreFails(c) ==
    /\ job[c].stage = "store"
    /\ Outcome(FALSE)
    /\ GiveUp(c, job[c].target)
    /\ UNCHANGED <<storeVars, up, hub, connVars, send, writer, replay, calls, beat,
                   crashes, accepted, queued, lost>>

-----------------------------------------------------------------------------
(* handleInternalSend, and calls that nobody waits for any more              *)

Becomes(k, stage, client) == calls' = (calls \ {k}) \cup {CallAs(k, k.by, stage, client)}

InternalGet(k) ==
    /\ k \in calls /\ k.stage = "sent"
    /\ LET client == Get(k.user, k.to)
       IN  Becomes(k, IF k.to \in up /\ client # None THEN "push" ELSE "failed", client)
    /\ UNCHANGED <<storeVars, up, hub, connVars, send, writer, job, replay, beat,
                   faults, crashes, seenVars>>

\* net/http recovers a panic of a handler and drops the connection.
InternalPush(k) ==
    /\ k \in calls /\ k.stage = "push"
    /\ IF SendClosed(k.client) \/ SendFull(k.client)
       THEN Becomes(k, "failed", None) /\ UNCHANGED <<send, queued>>
       ELSE Becomes(k, "done", None) /\ Enqueue(k.client, k.user, k.msg)
    /\ UNCHANGED <<storeVars, up, hub, connVars, writer, job, replay, beat,
                   faults, crashes, accepted, dropped, lost>>

\* A call that is waited for, or its answer, is lost on the way; one that is not
\* is answered in vain, or was never received.
CallLost(k) ==
    /\ k \in calls /\ k.stage # "push"
    /\ Outcome(k.by = None)
    /\ calls' = calls \ {k}
    /\ UNCHANGED <<storeVars, up, hub, connVars, send, writer, job, replay, beat, crashes, seenVars>>

-----------------------------------------------------------------------------
(* cleanupClient, deferred by readPump; it goes by the user, not the client  *)

\* Mutant of HubRemove: the hub keeps the client.
HubKeeps(c) ==
    /\ phase[c] = "serving" /\ job[c].stage = "idle" /\ socket[c] = "closed"
    /\ phase' = [phase EXCEPT ![c] = "removed"]
    /\ UNCHANGED <<storeVars, up, hub, user, at, socket, send, writer, workVars, faults, crashes, seenVars>>

HubRemove(c) ==
    /\ phase[c] = "serving" /\ job[c].stage = "idle" /\ socket[c] = "closed"
    /\ phase' = [phase EXCEPT ![c] = "removed"]
    /\ Remove(user[c], at[c])
    /\ UNCHANGED <<storeVars, up, user, at, socket, send, writer, workVars, faults, crashes, seenVars>>

\* The socket is closed: nothing that is left in the channel will be written.
CloseSend(c) ==
    /\ phase[c] = "removed"
    /\ phase' = [phase EXCEPT ![c] = "leaving"]
    /\ send' = [send EXCEPT ![c] = <<>>]
    /\ writer' = writer \ {c}
    /\ UNCHANGED <<storeVars, up, hub, user, at, socket, workVars, faults, crashes, seenVars>>

CleanupPresence(c) ==
    /\ phase[c] = "leaving"
    /\ \E ok \in BOOLEAN : Outcome(ok) /\ removeUserPresence(user[c], ok)
    /\ phase' = [phase EXCEPT ![c] = "gone"]
    /\ UNCHANGED <<table, up, hub, user, at, socket, send, writer, workVars, crashes, seenVars>>

-----------------------------------------------------------------------------
(* deliverOfflineMessages, in a goroutine of its own                         *)

ReplayList(c) ==
    /\ replay[c].stage = "list"
    /\ \E ok \in BOOLEAN :
         /\ IF replay[c].live THEN Outcome(ok) ELSE ~ok /\ UNCHANGED faults
         /\ LET items == listOfflineMessages(user[c])
            IN  replay' = [replay EXCEPT ![c] = IF ok /\ items # {}
                                                THEN ReplayAt("get", items, replay[c].live)
                                                ELSE Off]
    /\ UNCHANGED <<storeVars, up, hub, connVars, send, writer, job, calls, beat, crashes, seenVars>>

\* Items are replayed in the order of their keys.
ReplayGet(c, m) ==
    /\ replay[c].stage = "get" /\ m \in replay[c].items
    /\ \A n \in replay[c].items \ {m} : SortsBefore(m, n)
    /\ LET client == Get(user[c], at[c])
       IN  IF client = None THEN replay' = [replay EXCEPT ![c] = Off]
           ELSE replay' = [replay EXCEPT ![c] = ReplayAs(replay[c], "push", m, client, replay[c].live)]
    /\ UNCHANGED <<storeVars, up, hub, connVars, send, writer, job, calls, beat,
                   faults, crashes, seenVars>>

ReplayPush(c) ==
    /\ replay[c].stage = "push" /\ ~SendClosed(replay[c].client)
    /\ IF SendFull(replay[c].client)
       THEN replay' = [replay EXCEPT ![c] = Off] /\ UNCHANGED <<send, queued>>
       ELSE LET r == replay[c]
            IN  /\ replay' = [replay EXCEPT ![c] = ReplayAs(r, "delete", r.item, None, r.live)]
                /\ Enqueue(r.client, user[c], r.item)
    /\ UNCHANGED <<storeVars, up, hub, connVars, writer, job, calls, beat,
                   faults, crashes, accepted, dropped, lost>>

ReplayPanics(c) == /\ replay[c].stage = "push" /\ SendClosed(replay[c].client)
                   /\ ServerDies(at[c])
                   /\ UNCHANGED <<storeVars, faults, crashes>>

ReplayDelete(c) ==
    /\ replay[c].stage = "delete" /\ replay[c].live
    /\ deleteOfflineMessage(user[c], replay[c].item)
    /\ LET rest == replay[c].items \ {replay[c].item}
       IN  replay' = [replay EXCEPT ![c] = IF rest = {} THEN Off
                                           ELSE ReplayAt("get", rest, TRUE)]
    /\ UNCHANGED <<presence, up, hub, connVars, send, writer, job, calls, beat,
                   faults, crashes, seenVars>>

\* A cancelled context, or a call that fails before or after it had its effect.
ReplayDeleteFails(c) ==
    /\ replay[c].stage = "delete"
    /\ \/ ~replay[c].live /\ UNCHANGED <<faults, table>>
       \/ Outcome(FALSE) /\ (UNCHANGED table \/ deleteOfflineMessage(user[c], replay[c].item))
    /\ replay' = [replay EXCEPT ![c] = Off]
    /\ UNCHANGED <<presence, up, hub, connVars, send, writer, job, calls, beat, crashes, seenVars>>

-----------------------------------------------------------------------------
(* startHeartbeat, and the TTL of the keys                                   *)

ListUsers(s) == {u \in Users : hub[s][u] # None}

HeartbeatTick(s) ==
    /\ s \in up /\ beat[s] = {} /\ ListUsers(s) # {}
    /\ beat' = [beat EXCEPT ![s] = ListUsers(s)]
    /\ UNCHANGED <<storeVars, up, hub, connVars, send, writer, job, replay, calls,
                   faults, crashes, seenVars>>

\* Mutant of HeartbeatSet: it extends the key and does not bring it back.
HeartbeatExtends(s, u) ==
    /\ u \in beat[s]
    /\ \E ok \in BOOLEAN : Outcome(ok) /\ setUserPresence(u, s, ok /\ presence[u] # None)
    /\ beat' = [beat EXCEPT ![s] = @ \ {u}]
    /\ UNCHANGED <<table, up, hub, connVars, send, writer, job, replay, calls, crashes, seenVars>>

HeartbeatSet(s, u) ==
    /\ u \in beat[s]
    /\ \E ok \in BOOLEAN : Outcome(ok) /\ setUserPresence(u, s, ok)
    /\ beat' = [beat EXCEPT ![s] = @ \ {u}]
    /\ UNCHANGED <<table, up, hub, connVars, send, writer, job, replay, calls, crashes, seenVars>>

\* A key lives three heartbeats long: it expires while the user is listed
\* there only if heartbeats failed.
Expire(u) ==
    /\ presence[u] # None
    /\ Outcome(u \notin ListUsers(presence[u]))
    /\ presence' = [presence EXCEPT ![u] = None]
    /\ UNCHANGED <<table, up, hub, connVars, send, writer, workVars, crashes, seenVars>>

-----------------------------------------------------------------------------
Router(c) == \/ \E u \in Users : routeMessageToUser(c, u) \/ LookupFails(c, u)
             \/ LocalGet(c) \/ LocalPush(c) \/ LocalPanics(c)
             \/ sendRemote(c) \/ UnsetPresence(c) \/ StoreOffline(c) \/ StoreFails(c)

Cleanup(c) == HubRemove(c) \/ CloseSend(c) \/ CleanupPresence(c)

WritePump(c) == WriteDelivers(c) \/ WriteFails(c) \/ PingFails(c)

Replayer(c) == \/ ReplayList(c) \/ (\E m \in Stamps : ReplayGet(c, m)) \/ ReplayPush(c) \/ ReplayPanics(c)
               \/ ReplayDelete(c) \/ ReplayDeleteFails(c)

handleInternalSend == \E k \in calls : InternalGet(k) \/ InternalPush(k) \/ CallLost(k)

startHeartbeat(s) == HeartbeatTick(s) \/ \E u \in Users : HeartbeatSet(s, u)

Next == \/ \E c \in Conns, u \in Users, s \in Servers : HubAdd(c, u, s)
        \/ \E c \in Conns : \/ StartPumps(c) \/ HandlerReturns(c) \/ SocketDies(c)
                            \/ handleChatMessage(c) \/ Router(c) \/ Cleanup(c)
                            \/ WritePump(c) \/ Replayer(c)
        \/ handleInternalSend
        \/ \E s \in Servers : startHeartbeat(s) \/ Crash(s) \/ Start(s)
        \/ \E u \in Users : Expire(u)

Spec == Init /\ [][Next]_vars

(* Goroutines get to run, tickers tick, keys nobody refreshes expire.        *)
(* Nobody has to connect, to leave, to send, to crash or to start again.     *)
Stale(u) == Expire(u) /\ u \notin ListUsers(presence[u])

FairSpec == /\ Spec
            /\ \A c \in Conns : /\ WF_vars(StartPumps(c)) /\ WF_vars(Router(c)) /\ WF_vars(Cleanup(c))
                                /\ WF_vars(WritePump(c)) /\ WF_vars(Replayer(c))
            /\ WF_vars(handleInternalSend)
            /\ \A s \in Servers : /\ WF_vars(HeartbeatTick(s))
                                  /\ WF_vars(\E u \in Users : HeartbeatSet(s, u))
            /\ \A u \in Users : WF_vars(Stale(u))

-----------------------------------------------------------------------------
TypeOK ==
    /\ StoresTypeOK
    /\ up \subseteq Servers /\ writer \subseteq Conns
    /\ hub \in [Servers -> [Users -> Conns \cup {None}]]
    /\ user \in [Conns -> Users \cup {None}] /\ at \in [Conns -> Servers \cup {None}]
    /\ phase \in [Conns -> Phases] /\ socket \in [Conns -> {"new", "open", "closed"}]
    /\ send \in [Conns -> Seq(Stamps)]
    /\ job \in [Conns -> Job] /\ replay \in [Conns -> Replay]
    /\ calls \subseteq Call
    /\ beat \in [Servers -> SUBSET Users]
    /\ faults \in 0..MaxFaults /\ crashes \in 0..MaxCrashes
    /\ accepted \in [Users -> SUBSET Stamps] /\ queued \in [Users -> SUBSET Stamps]
    /\ dropped \in [Users -> SUBSET Stamps] /\ lost \in [Users -> SUBSET Stamps]

(* Whatever races, a message that was accepted for a user is still being     *)
(* routed, or entered a channel of that user, or is stored, or was given up  *)
(* where the code logs it: a stale presence, an answer that is late or lost  *)
(* and a full channel do not make it vanish.  Excepted is what a server was  *)
(* routing when it was killed, or when one of its goroutines sent on a       *)
(* channel that cleanupClient had closed.                                    *)
Owed(u) == {job[c].msg : c \in {d \in Conns : u \in job[d].left}}

RoutedIsKept == \A u \in Users :
    accepted[u] \ lost[u] \subseteq Owed(u) \cup queued[u] \cup table[u] \cup dropped[u]

Promise == INSTANCE Mailbox WITH Msgs <- Stamps, owed <- [u \in Users |-> Owed(u)],
                                 stored <- table, handed <- queued

(* Every step of the servers is a step of the mailbox or none: a message is  *)
(* accepted, handed over, stored, given up or lost once routed, and leaves   *)
(* the table only after it was handed over, all of it in any interleaving.   *)
ImplementsMailbox == Promise!Spec

(* A client found in a hub can still be sent to, is that user's and is on    *)
(* that server: only the time between the lookup and the send is exposed to  *)
(* the panic of a closed channel.                                            *)
Usable(c, u, s) == s \in up /\ phase[c] \in {"added", "serving"} /\ user[c] = u /\ at[c] = s

HubIsUsable == \A s \in Servers, u \in Users : hub[s][u] # None => Usable(hub[s][u], u, s)

(* A client whose goroutines run is in its hub, unless another connection of *)
(* its user to that server took its place, perhaps long ago, and was cleaned *)
(* up: nobody else's coming and going, no full channel and no failed call    *)
(* cuts a client off.                                                        *)
ServedIsListed == \A c \in Conns : phase[c] \in {"added", "serving"} =>
    \/ hub[at[c]][user[c]] = c
    \/ \E d \in Conns \ {c} : phase[d] # "new" /\ user[d] = user[c] /\ at[d] = at[c]

(* A message waits only in channels of members it was accepted for, however  *)
(* connections of several users replace each other in the hubs.              *)
RightMailbox == \A c \in Conns : \A i \in 1..Len(send[c]) : send[c][i] \in accepted[user[c]]

(* A readPump always gets rid of the message it routes and reads on, also    *)
(* when the receiver's server is killed, or never answers.                   *)
RoutingEnds == \A c \in Conns : job[c].stage # "idle" ~> job[c].stage = "idle"

(* A user who stays registered at one server only is found there again and   *)
(* again, whatever failed sends, and cleanups of connections the user had    *)
(* before at this or another server, delete; and one who is registered       *)
(* nowhere any more is in the end not found, though a heartbeat that listed  *)
(* the user before brings the key back.                                      *)
OnlyAt(u, s) == \A t \in Servers : (t = s) <=> (u \in ListUsers(t))

PresenceRestored ==
    \A u \in Users :
        /\ \A s \in Servers : <>[]OnlyAt(u, s) => []<>(presence[u] = s)
        /\ <>[](\A s \in Servers : u \notin ListUsers(s)) => <>[](presence[u] = None)

(* "When the user reconnects, offline messages are loaded from DynamoDB,     *)
(* replayed, and deleted" (chat_gateway_readme.md:35).              *)
ReplayDelivers ==
    \A c \in Conns, u \in Users, m \in Stamps :
        (phase[c] = "added" /\ user[c] = u /\ m \in table[u]) ~> (m \in queued[u] \/ socket[c] = "closed")
=============================================================================
