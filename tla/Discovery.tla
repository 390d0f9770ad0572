----------------------------- MODULE Discovery -----------------------------
(* internal/discovery: processes register under an etcd lease that they keep *)
(* alive, and a watcher hands its reader a fresh list of one service's       *)
(* endpoints after every change.  etcd's store is linearizable: rev counts   *)
(* its changes, a lease that ends takes with it the keys that were last put  *)
(* under it, and a put under a lease that has ended is rejected.  No command *)
(* of the repository uses the package yet.                                   *)
EXTENDS Integers, Sequences

CONSTANTS
    Regs,       \* calls of Register, each of another process or incarnation
    Instances,  \* instance ids of the service that is watched, numbered in the
                \* order of their keys
    InstanceOf, \* the instance id of each call: a restarted process keeps its own
    Nobody

ASSUME InstanceAssumption == /\ Instances \subseteq Nat
                             /\ InstanceOf \in [Regs -> Instances]
ASSUME NobodyAssumption == Nobody \notin Regs

VARIABLES
    pc,      \* where each registration is
    lease,   \* etcd: its lease, "none", "alive" or "gone"
    keeping, \* registrations whose keep-alive runs
    late,    \* puts their caller has given up, still on their way
    store,   \* etcd: whose value each key has, and so whose lease
    rev,     \* etcd: the revision
    lastPut, \* history: who wrote each key last
    wpc,     \* where Watch's goroutine is
    snap,    \* the list it took last: eps, and at, the revision
    seen,    \* the revision its watch stream has reported up to
    updates, \* the channel of lists, of capacity one
    view     \* the list its reader took last

regVars == <<pc, lease, keeping, late>>
etcdVars == <<store, rev, lastPut>>
watchVars == <<wpc, snap, seen, updates, view>>
vars == <<regVars, etcdVars, watchVars>>

Snapshots == [eps : [Instances -> Regs \cup {Nobody}], at : Nat]
Now == [eps |-> store, at |-> rev]
Empty == [eps |-> [i \in Instances |-> Nobody], at |-> 0]

Init == /\ pc = [r \in Regs |-> "idle"]
        /\ lease = [r \in Regs |-> "none"]
        /\ keeping = {}
        /\ late = {}
        /\ store = Empty.eps
        /\ rev = 0
        /\ lastPut = Empty.eps
        /\ wpc = "listing"
        /\ snap = Empty
        /\ seen = 0
        /\ updates = <<>>
        /\ view = Empty

TypeOK == /\ pc \in [Regs -> {"idle", "putting", "starting", "registered",
                              "revoking", "closed", "failed", "dead"}]
          /\ lease \in [Regs -> {"none", "alive", "gone"}]
          /\ keeping \in SUBSET Regs
          /\ late \in SUBSET Regs
          /\ store \in [Instances -> Regs \cup {Nobody}]
          /\ rev \in Nat
          /\ lastPut \in [Instances -> Regs \cup {Nobody}]
          /\ wpc \in {"listing", "sending", "opening", "waiting", "relisting",
                      "resending", "failing", "ended"}
          /\ snap \in Snapshots
          /\ seen \in Nat
          /\ updates \in Seq(Snapshots)
          /\ Len(updates) <= 1
          /\ view \in Snapshots

goto(r, next) == pc' = [pc EXCEPT ![r] = next]

-----------------------------------------------------------------------------
(* etcd                                                                      *)

\* Put of r's value under r's lease: the key leaves the lease it was under.
Put(r) == /\ store' = [store EXCEPT ![InstanceOf[r]] = r]
          /\ lastPut' = [lastPut EXCEPT ![InstanceOf[r]] = r]
          /\ rev' = rev + 1

\* The end of a lease deletes the keys that are under it.
EndLease(r) == /\ lease' = [lease EXCEPT ![r] = "gone"]
               /\ store' = [i \in Instances |-> IF store[i] = r THEN Nobody ELSE store[i]]
               /\ rev' = IF store[InstanceOf[r]] = r THEN rev + 1 ELSE rev
               /\ UNCHANGED lastPut

\* No keep-alive came for the lease's TTL: the process is gone or cut off.
Expire(r) == /\ lease[r] = "alive"
             /\ EndLease(r)
             /\ UNCHANGED <<pc, keeping, late, watchVars>>

\* A put arrives after its caller's deadline or death.
PutLate(r) == /\ r \in late
              /\ late' = late \ {r}
              /\ IF lease[r] = "alive" THEN Put(r) ELSE UNCHANGED etcdVars
              /\ UNCHANGED <<pc, lease, keeping, watchVars>>

-----------------------------------------------------------------------------
(* Register and Close                                                        *)

Grant(r) == /\ pc[r] = "idle"
            /\ lease' = [lease EXCEPT ![r] = "alive"]
            /\ goto(r, "putting")
            /\ UNCHANGED <<keeping, late, etcdVars, watchVars>>

\* A field is empty, or the call fails: a lease nobody knows of holds no key.
GrantFails(r) == /\ pc[r] = "idle"
                 /\ goto(r, "failed")
                 /\ UNCHANGED <<lease, keeping, late, etcdVars, watchVars>>

PutKey(r) == /\ pc[r] = "putting"
             /\ lease[r] = "alive"
             /\ Put(r)
             /\ goto(r, "starting")
             /\ UNCHANGED <<lease, keeping, late, watchVars>>

\* The lease is not revoked; the put may be on its way.
PutFails(r) == /\ pc[r] = "putting"
               /\ late' \in {late, late \cup {r}}
               /\ goto(r, "failed")
               /\ UNCHANGED <<lease, keeping, etcdVars, watchVars>>

StartKeepAlive(r) == /\ pc[r] = "starting"
                     /\ keeping' = keeping \cup {r}
                     /\ goto(r, "registered")
                     /\ UNCHANGED <<lease, late, etcdVars, watchVars>>

\* The client is closed: key and lease stay until the lease expires.
StartFails(r) == /\ pc[r] = "starting"
                 /\ goto(r, "failed")
                 /\ UNCHANGED <<lease, keeping, late, etcdVars, watchVars>>

\* The keep-alive channel closes, because the lease is lost or the client closed:
\* the goroutine that drains it ends and nothing registers again.
KeepAliveEnds(r) == /\ r \in keeping
                    /\ keeping' = keeping \ {r}
                    /\ UNCHANGED <<pc, lease, late, etcdVars, watchVars>>

\* Mutant: Close leaves the keep-alive running.
RevokeOnly(r) == /\ pc[r] = "registered"
                 /\ goto(r, "revoking")
                 /\ UNCHANGED <<lease, keeping, late, etcdVars, watchVars>>

CancelKeepAlive(r) == /\ pc[r] = "registered"
                      /\ keeping' = keeping \ {r}
                      /\ goto(r, "revoking")
                      /\ UNCHANGED <<lease, late, etcdVars, watchVars>>

\* Mutant: Close deletes the key instead of revoking its lease.
DeleteKey(r) == /\ pc[r] = "revoking"
                /\ store' = [store EXCEPT ![InstanceOf[r]] = Nobody]
                /\ rev' = rev + 1
                /\ goto(r, "closed")
                /\ UNCHANGED <<lease, keeping, late, lastPut, watchVars>>

Revoke(r) == /\ pc[r] = "revoking"
             /\ EndLease(r)
             /\ goto(r, "closed")
             /\ UNCHANGED <<keeping, late, watchVars>>

\* The lease runs out, or ends later by the revocation that was given up.
RevokeFails(r) == /\ pc[r] = "revoking"
                  /\ goto(r, "closed")
                  /\ UNCHANGED <<lease, keeping, late, etcdVars, watchVars>>

Crash(r) == /\ pc[r] \in {"putting", "starting", "registered", "revoking"}
            /\ late' \in {late} \cup (IF pc[r] = "putting" THEN {late \cup {r}} ELSE {})
            /\ keeping' = keeping \ {r}
            /\ goto(r, "dead")
            /\ UNCHANGED <<lease, etcdVars, watchVars>>

-----------------------------------------------------------------------------
(* Watch                                                                     *)

\* Mutant: the list is read from a member that may be behind.
ResolveStale == \E k \in 0..rev : snap' = [Now EXCEPT !.at = k]

\* ResolveAll, in one Get of the prefix.
ResolveAll == snap' = Now

\* The first of the list, or nothing when it is empty.
ResolveOne == {store[i] : i \in {j \in Instances :
                  /\ store[j] # Nobody
                  /\ \A k \in Instances : store[k] # Nobody => j <= k}}

List == /\ wpc \in {"listing", "relisting"}
        /\ ResolveAll
        /\ wpc' = IF wpc = "listing" THEN "sending" ELSE "resending"
        /\ UNCHANGED <<regVars, etcdVars, seen, updates, view>>

\* Mutant: a list that finds the channel full is dropped.
SendOrDrop == /\ wpc \in {"sending", "resending"}
              /\ updates' = IF updates = <<>> THEN <<snap>> ELSE updates
              /\ wpc' = IF wpc = "sending" THEN "opening" ELSE "waiting"
              /\ UNCHANGED <<regVars, etcdVars, snap, seen, view>>

\* Mutant: the channel takes a second list.
SendWithoutRoom == /\ wpc \in {"sending", "resending"}
                   /\ Len(updates) < 2
                   /\ updates' = Append(updates, snap)
                   /\ wpc' = IF wpc = "sending" THEN "opening" ELSE "waiting"
                   /\ UNCHANGED <<regVars, etcdVars, snap, seen, view>>

\* updates <- eps waits for room.
SendSnapshot == /\ wpc \in {"sending", "resending"}
                /\ updates = <<>>
                /\ updates' = <<snap>>
                /\ wpc' = IF wpc = "sending" THEN "opening" ELSE "waiting"
                /\ UNCHANGED <<regVars, etcdVars, snap, seen, view>>

\* The stream reports the changes that follow its creation in etcd.
OpenWatch == /\ wpc = "opening"
             /\ seen' = rev
             /\ wpc' = "waiting"
             /\ UNCHANGED <<regVars, etcdVars, snap, updates, view>>

\* One response carries one or more of the changes; what it says is not used.
Event == /\ wpc = "waiting"
         /\ seen' \in seen + 1 .. rev
         /\ wpc' = "relisting"
         /\ UNCHANGED <<regVars, etcdVars, snap, updates, view>>

\* wr.Err(): the error is sent if errs has room, and the stream is over.
WatchError == /\ wpc = "waiting"
              /\ wpc' = "failing"
              /\ UNCHANGED <<regVars, etcdVars, snap, seen, updates, view>>

\* wch is closed, after an error or with the client.
StreamCloses == /\ wpc \in {"waiting", "failing"}
                /\ wpc' = "ended"
                /\ UNCHANGED <<regVars, etcdVars, snap, seen, updates, view>>

\* The Get fails, one value does not parse, or ctx is done: both channels close,
\* and what is in updates can still be read.
WatchEnds == /\ wpc \in {"listing", "relisting", "sending", "resending", "waiting", "failing"}
             /\ wpc' = "ended"
             /\ UNCHANGED <<regVars, etcdVars, snap, seen, updates, view>>

\* The caller's side of the channel.
Read == /\ updates # <<>>
        /\ view' = Head(updates)
        /\ updates' = Tail(updates)
        /\ UNCHANGED <<regVars, etcdVars, wpc, snap, seen>>

-----------------------------------------------------------------------------
RegNext(r) == \/ Grant(r) \/ GrantFails(r)
              \/ PutKey(r) \/ PutFails(r) \/ PutLate(r)
              \/ StartKeepAlive(r) \/ StartFails(r) \/ KeepAliveEnds(r)
              \/ CancelKeepAlive(r) \/ Revoke(r) \/ RevokeFails(r)
              \/ Crash(r) \/ Expire(r)

WatchNext == \/ List \/ SendSnapshot \/ OpenWatch \/ Event
             \/ WatchError \/ StreamCloses \/ WatchEnds \/ Read

Next == (\E r \in Regs : RegNext(r)) \/ WatchNext

Spec == Init /\ [][Next]_vars

\* etcd ends a lease that nobody keeps alive, and reports every change; an error
\* closes the stream; Watch's goroutine goes on; its caller reads the channel.
\* Nothing is promised of the processes.
Fairness == /\ \A r \in Regs : WF_vars(r \notin keeping /\ Expire(r))
            /\ WF_vars(List) /\ WF_vars(SendSnapshot) /\ WF_vars(OpenWatch)
            /\ WF_vars(Event) /\ WF_vars(wpc = "failing" /\ StreamCloses)
            /\ WF_vars(Read)

FairSpec == Spec /\ Fairness

-----------------------------------------------------------------------------
\* Whoever ResolveOne sends its caller to held a live lease when it was asked: no
\* path on which a registration fails or ends leaves an entry without a lease.
ResolvedIsAlive == \A r \in ResolveOne : lease[r] = "alive"

\* The latest to register under an instance id is listed for as long as its lease
\* lives: neither the Close nor the expiry of an earlier incarnation with the same
\* id, nor its put that comes late, takes the entry away.
LatestIsListed == \A r \in Regs :
    lease[r] = "alive" /\ lastPut[InstanceOf[r]] = r => store[InstanceOf[r]] = r

\* The reader of a watch is never handed an older list after a newer one, whatever
\* changed between the Get, the send and the next response.
ViewForward == [][view'.at >= view.at]_vars

\* The entry of a process that has crashed, closed or failed to register goes, and
\* stays away, though no step of Register's or Close's error paths deletes it and
\* a put of its may still be on its way.
StaleEntryGoes == \A r \in Regs :
    pc[r] \in {"closed", "failed", "dead"} ~> [](\A i \in Instances : store[i] # r)

\* The only changes a watch misses: those between the first list and the opening
\* of the stream, until another change is reported.
InTheGap == wpc = "waiting" /\ snap.at < seen

\* A watch that goes on brings its reader the list as it is, however slowly it is
\* read and however the changes are bundled, but for a change that fell in the gap.
ViewSettles == <>[](wpc = "ended" \/ InTheGap \/ view.eps = store)
=============================================================================
