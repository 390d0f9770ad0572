-------------------------- MODULE DiscoveryProofs --------------------------
(* TLAPS proofs about Discovery, for any number of registrations and         *)
(* instance ids.                                                             *)
EXTENDS Discovery, SequenceTheorems, TLAPS

-----------------------------------------------------------------------------
\* The inductive invariant.  A registration that has not begun has written
\* nothing and has nothing on its way.
IdleUnknown == \A r \in Regs : pc[r] = "idle" =>
    /\ r \notin late
    /\ \A i \in Instances : lastPut[i] # r

\* Every key is under a lease that lives.
KeysHaveLeases == \A i \in Instances : store[i] # Nobody => lease[store[i]] = "alive"

\* Lists are handed on in the order in which they were taken.
InOrder == /\ snap.at <= rev
           /\ view.at <= snap.at
           /\ \A k \in DOMAIN updates : /\ view.at <= updates[k].at
                                        /\ updates[k].at <= snap.at

IInv == TypeOK /\ IdleUnknown /\ KeysHaveLeases /\ LatestIsListed /\ InOrder

RegTypes == /\ pc \in [Regs -> {"idle", "putting", "starting", "registered",
                                "revoking", "closed", "failed", "dead"}]
            /\ lease \in [Regs -> {"none", "alive", "gone"}]
            /\ keeping \in SUBSET Regs
            /\ late \in SUBSET Regs
            /\ store \in [Instances -> Regs \cup {Nobody}]
            /\ rev \in Nat
            /\ lastPut \in [Instances -> Regs \cup {Nobody}]

WatchTypes == /\ wpc \in {"listing", "sending", "opening", "waiting", "relisting",
                          "resending", "failing", "ended"}
              /\ snap \in Snapshots
              /\ seen \in Nat
              /\ updates \in Seq(Snapshots)
              /\ Len(updates) <= 1
              /\ view \in Snapshots

-----------------------------------------------------------------------------
\* Nothing is registered and nothing watched at first.
LEMMA InitEstablishes == Init => IInv
<1> SUFFICES ASSUME Init PROVE IInv
  OBVIOUS
<1>1. Empty \in Snapshots
  BY DEF Empty, Snapshots
<1>2. RegTypes
  BY DEF Init, Empty, RegTypes
<1>3. WatchTypes
  BY <1>1 DEF Init, WatchTypes
<1>4. IdleUnknown
  BY NobodyAssumption DEF Init, Empty, IdleUnknown
<1>5. LatestIsListed /\ KeysHaveLeases
  BY DEF Init, Empty, LatestIsListed, KeysHaveLeases
<1>6. InOrder
  BY DEF Init, Empty, InOrder
<1> QED
  BY <1>2, <1>3, <1>4, <1>5, <1>6 DEF IInv, TypeOK, RegTypes, WatchTypes

\* A put writes one key of one registration.
LEMMA PutKeepsTypes ==
    ASSUME RegTypes, NEW r \in Regs, Put(r)
    PROVE  /\ store' \in [Instances -> Regs \cup {Nobody}]
           /\ lastPut' \in [Instances -> Regs \cup {Nobody}]
           /\ rev' \in Nat
           /\ rev <= rev'
  BY InstanceAssumption DEF RegTypes, Put

\* Only the keys that are under a lease go with it, and the revision does not fall.
LEMMA EndLeaseKeepsTypes ==
    ASSUME RegTypes, NEW r \in Regs, EndLease(r)
    PROVE  /\ lease' \in [Regs -> {"none", "alive", "gone"}]
           /\ store' \in [Instances -> Regs \cup {Nobody}]
           /\ lastPut' \in [Instances -> Regs \cup {Nobody}]
           /\ rev' \in Nat
           /\ rev <= rev'
  BY InstanceAssumption DEF RegTypes, EndLease

\* No step of a registration or of etcd breaks the types of its state, and the
\* revision only grows.
LEMMA RegKeepsTypes ==
    ASSUME RegTypes, NEW r \in Regs, RegNext(r)
    PROVE  RegTypes' /\ rev <= rev'
<1>1. CASE PutKey(r)
  <2>1. Put(r) /\ UNCHANGED <<lease, keeping, late>>
    BY <1>1 DEF PutKey
  <2>2. pc' \in [Regs -> {"idle", "putting", "starting", "registered",
                          "revoking", "closed", "failed", "dead"}]
    BY <1>1 DEF PutKey, goto, RegTypes
  <2> QED
    BY <2>1, <2>2, PutKeepsTypes DEF RegTypes
<1>2. CASE PutLate(r)
  <2>1. CASE lease[r] = "alive"
    <3>1. Put(r) /\ UNCHANGED <<pc, lease, keeping>> /\ late' = late \ {r}
      BY <1>2, <2>1 DEF PutLate
    <3> QED
      BY <3>1, PutKeepsTypes DEF RegTypes
  <2>2. CASE lease[r] # "alive"
    BY <1>2, <2>2 DEF PutLate, RegTypes, etcdVars
  <2> QED
    BY <2>1, <2>2
<1>3. CASE Revoke(r)
  <2>1. EndLease(r) /\ UNCHANGED <<keeping, late>>
    BY <1>3 DEF Revoke
  <2>2. pc' \in [Regs -> {"idle", "putting", "starting", "registered",
                          "revoking", "closed", "failed", "dead"}]
    BY <1>3 DEF Revoke, goto, RegTypes
  <2> QED
    BY <2>1, <2>2, EndLeaseKeepsTypes DEF RegTypes
<1>4. CASE Expire(r)
  <2>1. EndLease(r) /\ UNCHANGED <<pc, keeping, late>>
    BY <1>4 DEF Expire
  <2> QED
    BY <2>1, EndLeaseKeepsTypes DEF RegTypes
<1>5. CASE Grant(r) \/ GrantFails(r) \/ PutFails(r) \/ StartKeepAlive(r)
  BY <1>5 DEF Grant, GrantFails, PutFails, StartKeepAlive, goto, RegTypes, etcdVars
<1>6. CASE StartFails(r) \/ KeepAliveEnds(r) \/ CancelKeepAlive(r) \/ RevokeFails(r)
  BY <1>6 DEF StartFails, KeepAliveEnds, CancelKeepAlive, RevokeFails, goto, RegTypes,
              etcdVars
<1>7. CASE Crash(r)
  BY <1>7 DEF Crash, goto, RegTypes, etcdVars
<1> QED
  BY <1>1, <1>2, <1>3, <1>4, <1>5, <1>6, <1>7 DEF RegNext

\* What has not begun stays unknown, whatever the others do.
LEMMA RegKeepsIdle ==
    ASSUME RegTypes, IdleUnknown, NEW r \in Regs, RegNext(r)
    PROVE  IdleUnknown'
<1>1. CASE PutKey(r)
  BY <1>1, InstanceAssumption DEF PutKey, Put, goto, RegTypes, IdleUnknown
<1>2. CASE PutLate(r)
  <2>1. pc[r] # "idle"
    BY <1>2 DEF PutLate, IdleUnknown
  <2> QED
    BY <1>2, <2>1, InstanceAssumption DEF PutLate, Put, etcdVars, RegTypes, IdleUnknown
<1>3. CASE Revoke(r) \/ Expire(r)
  BY <1>3 DEF Revoke, Expire, EndLease, goto, RegTypes, IdleUnknown
<1>4. CASE Grant(r) \/ GrantFails(r) \/ PutFails(r) \/ StartKeepAlive(r)
  BY <1>4 DEF Grant, GrantFails, PutFails, StartKeepAlive, goto, RegTypes, etcdVars,
              IdleUnknown
<1>5. CASE StartFails(r) \/ KeepAliveEnds(r) \/ CancelKeepAlive(r) \/ RevokeFails(r)
  BY <1>5 DEF StartFails, KeepAliveEnds, CancelKeepAlive, RevokeFails, goto, RegTypes,
              etcdVars, IdleUnknown
<1>6. CASE Crash(r)
  BY <1>6 DEF Crash, goto, RegTypes, etcdVars, IdleUnknown
<1> QED
  BY <1>1, <1>2, <1>3, <1>4, <1>5, <1>6 DEF RegNext

\* Keys are put under leases that live, and go with them.
LEMMA RegKeepsLeases ==
    ASSUME RegTypes, KeysHaveLeases, NEW r \in Regs, RegNext(r)
    PROVE  KeysHaveLeases'
<1>1. CASE PutKey(r) \/ (PutLate(r) /\ lease[r] = "alive")
  <2>1. lease[r] = "alive" /\ Put(r) /\ UNCHANGED lease
    BY <1>1 DEF PutKey, PutLate
  <2> QED
    BY <2>1 DEF Put, RegTypes, KeysHaveLeases
<1>2. CASE Revoke(r) \/ Expire(r)
  <2>1. EndLease(r)
    BY <1>2 DEF Revoke, Expire
  <2> QED
    BY <2>1 DEF EndLease, RegTypes, KeysHaveLeases
<1>3. CASE Grant(r)
  <2>1. store' = store /\ lease' = [lease EXCEPT ![r] = "alive"]
    BY <1>3 DEF Grant, etcdVars
  <2>2. ASSUME NEW i \in Instances, store[i] # Nobody
        PROVE  lease'[store[i]] = "alive"
    <3>1. store[i] \in Regs /\ lease[store[i]] = "alive"
      BY <2>2 DEF RegTypes, KeysHaveLeases
    <3> QED
      BY <2>1, <3>1 DEF RegTypes
  <2> QED
    BY <2>1, <2>2 DEF KeysHaveLeases
<1>4. CASE UNCHANGED <<store, lease>>
  BY <1>4 DEF KeysHaveLeases
<1> QED
  BY <1>1, <1>2, <1>3, <1>4
  DEF RegNext, PutLate, GrantFails, PutFails, StartKeepAlive, StartFails, KeepAliveEnds,
      CancelKeepAlive, RevokeFails, Crash, etcdVars

\* The latest to register stays listed: a put of another makes the other the latest,
\* and the end of another's lease takes other keys.
LEMMA RegKeepsListed ==
    ASSUME RegTypes, IdleUnknown, LatestIsListed, NEW r \in Regs, RegNext(r)
    PROVE  LatestIsListed'
<1>1. CASE PutKey(r) \/ (PutLate(r) /\ Put(r) /\ UNCHANGED lease)
  <2>1. Put(r) /\ UNCHANGED lease
    BY <1>1 DEF PutKey
  <2>2. InstanceOf \in [Regs -> Instances]
    BY InstanceAssumption
  <2> QED
    BY <2>1, <2>2 DEF Put, RegTypes, LatestIsListed
<1>2. CASE PutLate(r) /\ UNCHANGED <<etcdVars, lease>>
  BY <1>2 DEF etcdVars, LatestIsListed
<1>3. CASE Revoke(r) \/ Expire(r)
  BY <1>3, InstanceAssumption DEF Revoke, Expire, EndLease, RegTypes, LatestIsListed
<1>4. CASE Grant(r)
  BY <1>4, InstanceAssumption DEF Grant, etcdVars, RegTypes, IdleUnknown, LatestIsListed
<1>5. CASE UNCHANGED <<etcdVars, lease>>
  BY <1>5 DEF etcdVars, LatestIsListed
<1> QED
  BY <1>1, <1>2, <1>3, <1>4, <1>5
  DEF RegNext, PutLate, GrantFails, PutFails, StartKeepAlive, StartFails, KeepAliveEnds,
      CancelKeepAlive, RevokeFails, Crash

\* A registration leaves the watch alone.
LEMMA RegLeavesWatch ==
    ASSUME NEW r \in Regs, RegNext(r)
    PROVE  UNCHANGED watchVars
  BY DEF RegNext, Grant, GrantFails, PutKey, PutFails, PutLate, StartKeepAlive, StartFails,
         KeepAliveEnds, CancelKeepAlive, Revoke, RevokeFails, Crash, Expire, watchVars

\* And the watch leaves the registrations and etcd alone.
LEMMA WatchLeavesRegs == WatchNext => UNCHANGED <<regVars, etcdVars>>
  BY DEF WatchNext, List, SendSnapshot, OpenWatch, Event, WatchError, StreamCloses,
         WatchEnds, Read

\* Every step of the watch hands lists on in the order in which they were taken,
\* and its reader never goes back.
LEMMA WatchKeepsOrder ==
    ASSUME RegTypes, WatchTypes, InOrder, WatchNext
    PROVE  WatchTypes' /\ InOrder' /\ view'.at >= view.at
<1>0. UNCHANGED <<store, rev>>
  BY WatchLeavesRegs DEF etcdVars
<1>1. CASE List
  <2>1. Now \in Snapshots /\ Now.at = rev
    BY DEF RegTypes, Now, Snapshots
  <2>2. snap' = Now /\ UNCHANGED <<seen, updates, view>>
    BY <1>1 DEF List, ResolveAll
  <2>3. wpc' \in {"sending", "resending"}
    BY <1>1 DEF List
  <2>4. WatchTypes'
    BY <2>1, <2>2, <2>3 DEF WatchTypes
  <2>5. view.at \in Nat /\ snap.at \in Nat /\ rev \in Nat
    BY DEF WatchTypes, RegTypes, Snapshots
  <2>6. InOrder'
    <3>1. ASSUME NEW k \in DOMAIN updates
          PROVE  view.at <= updates[k].at /\ updates[k].at <= rev
      <4>1. updates[k] \in Snapshots
        BY DEF WatchTypes
      <4>2. updates[k].at \in Nat
        BY <4>1 DEF Snapshots
      <4> QED
        BY <2>5, <4>2 DEF InOrder
    <3> QED
      BY <1>0, <2>1, <2>2, <2>5, <3>1 DEF InOrder
  <2> QED
    BY <2>2, <2>4, <2>5, <2>6
<1>2. CASE SendSnapshot
  <2>1. updates' = <<snap>> /\ UNCHANGED <<snap, seen, view>>
    BY <1>2 DEF SendSnapshot
  <2>2. wpc' \in {"opening", "waiting"}
    BY <1>2 DEF SendSnapshot
  <2>3. WatchTypes'
    BY <2>1, <2>2 DEF WatchTypes
  <2>4. view.at \in Nat /\ snap.at \in Nat
    BY DEF WatchTypes, Snapshots
  <2>5. DOMAIN updates' = {1} /\ updates'[1] = snap
    BY <2>1
  <2>6. InOrder'
    BY <1>0, <2>1, <2>4, <2>5 DEF InOrder
  <2> QED
    BY <2>1, <2>3, <2>4, <2>6
<1>3. CASE OpenWatch \/ Event \/ WatchError \/ StreamCloses \/ WatchEnds
  <2>1. UNCHANGED <<snap, updates, view>>
    BY <1>3 DEF OpenWatch, Event, WatchError, StreamCloses, WatchEnds
  <2>2. seen' \in Nat
    BY <1>3 DEF OpenWatch, Event, WatchError, StreamCloses, WatchEnds, RegTypes, WatchTypes
  <2>3. wpc' \in {"waiting", "relisting", "failing", "ended"}
    BY <1>3 DEF OpenWatch, Event, WatchError, StreamCloses, WatchEnds
  <2>4. view.at \in Nat
    BY DEF WatchTypes, Snapshots
  <2> QED
    BY <1>0, <2>1, <2>2, <2>3, <2>4 DEF WatchTypes, InOrder
<1>4. CASE Read
  <2>1. updates # <<>> /\ view' = Head(updates) /\ updates' = Tail(updates)
    BY <1>4 DEF Read
  <2>2. UNCHANGED <<wpc, snap, seen>>
    BY <1>4 DEF Read
  <2>3. Len(updates) = 1 /\ updates[1] \in Snapshots
    <3>1. updates \in Seq(Snapshots) /\ Len(updates) <= 1 /\ updates # <<>>
      BY <2>1 DEF WatchTypes
    <3>2. Len(updates) = 1
      <4>1. Len(updates) \in Nat \ {0}
        BY <3>1, EmptySeq
      <4>2. Len(updates) <= 1
        BY <3>1
      <4> QED
        BY <4>1, <4>2
    <3> QED
      BY <3>1, <3>2
  <2>4. view' = updates[1] /\ updates' = <<>>
    BY <2>1, <2>3 DEF WatchTypes
  <2>5. 1 \in DOMAIN updates
    BY <2>3 DEF WatchTypes
  <2>6. view.at <= view'.at /\ view'.at <= snap.at
    BY <2>4, <2>5 DEF InOrder
  <2>7. view.at \in Nat /\ view'.at \in Nat
    BY <2>3, <2>4 DEF WatchTypes, Snapshots
  <2>8. WatchTypes'
    BY <2>2, <2>3, <2>4 DEF WatchTypes
  <2>9. InOrder'
    BY <1>0, <2>2, <2>4, <2>6 DEF InOrder
  <2> QED
    BY <2>6, <2>7, <2>8, <2>9
<1> QED
  BY <1>1, <1>2, <1>3, <1>4 DEF WatchNext

\* Every step keeps the inductive invariant, and takes the reader's list forward.
LEMMA StepKeeps ==
    ASSUME IInv, [Next]_vars
    PROVE  IInv' /\ [view'.at >= view.at]_vars
<1>0. RegTypes /\ WatchTypes
  BY DEF IInv, TypeOK, RegTypes, WatchTypes
<1>1. CASE \E r \in Regs : RegNext(r)
  <2>1. PICK r \in Regs : RegNext(r)
    BY <1>1
  <2>2. RegTypes' /\ rev <= rev'
    BY <1>0, <2>1, RegKeepsTypes
  <2>3. UNCHANGED watchVars
    BY <2>1, RegLeavesWatch
  <2>4. IdleUnknown' /\ KeysHaveLeases' /\ LatestIsListed'
    BY <1>0, <2>1, RegKeepsIdle, RegKeepsLeases, RegKeepsListed DEF IInv
  <2>5. WatchTypes'
    BY <1>0, <2>3 DEF watchVars, WatchTypes
  <2>6. view.at \in Nat /\ snap.at \in Nat /\ rev \in Nat /\ rev' \in Nat
    BY <1>0, <2>2 DEF RegTypes, WatchTypes, Snapshots
  <2>7. InOrder'
    BY <2>2, <2>3, <2>6 DEF IInv, InOrder, watchVars
  <2> QED
    BY <2>2, <2>3, <2>4, <2>5, <2>6, <2>7
    DEF IInv, TypeOK, RegTypes, WatchTypes, watchVars
<1>2. CASE WatchNext
  <2>1. WatchTypes' /\ InOrder' /\ view'.at >= view.at
    BY <1>0, <1>2, WatchKeepsOrder DEF IInv
  <2>2. UNCHANGED <<regVars, etcdVars>>
    BY <1>2, WatchLeavesRegs
  <2>3. RegTypes'
    BY <1>0, <2>2 DEF RegTypes, regVars, etcdVars
  <2>4. IdleUnknown' /\ KeysHaveLeases' /\ LatestIsListed'
    BY <2>2 DEF IInv, IdleUnknown, KeysHaveLeases, LatestIsListed, regVars, etcdVars
  <2> QED
    BY <2>1, <2>3, <2>4 DEF IInv, TypeOK, RegTypes, WatchTypes
<1>3. CASE UNCHANGED vars
  <2>1. UNCHANGED <<regVars, etcdVars, watchVars>>
    BY <1>3 DEF vars
  <2>2. RegTypes' /\ WatchTypes'
    BY <1>0, <2>1 DEF RegTypes, WatchTypes, regVars, etcdVars, watchVars
  <2>3. IdleUnknown' /\ KeysHaveLeases' /\ LatestIsListed' /\ InOrder'
    BY <2>1 DEF IInv, IdleUnknown, KeysHaveLeases, LatestIsListed, InOrder, regVars, etcdVars,
                watchVars
  <2> QED
    BY <1>3, <2>2, <2>3 DEF IInv, TypeOK, RegTypes, WatchTypes
<1> QED
  BY <1>1, <1>2, <1>3 DEF Next

-----------------------------------------------------------------------------
\* The inductive invariant holds of every reachable state.
THEOREM Invariant == Spec => []IInv
<1>1. IInv /\ [Next]_vars => IInv'
  BY StepKeeps
<1> QED
  BY <1>1, InitEstablishes, PTL DEF Spec

\* Registrations, the store and the watch are well typed.
THEOREM TypeCorrect == Spec => []TypeOK
<1>1. IInv => TypeOK
  BY DEF IInv
<1> QED
  BY <1>1, Invariant, PTL

\* Whoever registered last under an instance id is listed while its lease lives,
\* for any number of incarnations that close, expire or put late in any order.
THEOREM LatestListed == Spec => []LatestIsListed
<1>1. IInv => LatestIsListed
  BY DEF IInv
<1> QED
  BY <1>1, Invariant, PTL

\* Whoever ResolveOne returns held a live lease: no path on which a registration
\* fails, closes or dies leaves an entry without one.
THEOREM ResolvedAlive == Spec => []ResolvedIsAlive
<1>1. IInv => ResolvedIsAlive
  BY DEF IInv, KeysHaveLeases, ResolvedIsAlive, ResolveOne
<1> QED
  BY <1>1, Invariant, PTL

\* No step hands the reader of a watch an older list than it has.
THEOREM ViewsInOrder == Spec => ViewForward
<1>1. IInv /\ [Next]_vars => [view'.at >= view.at]_vars
  BY StepKeeps
<1>2. [view'.at >= view.at]_vars => [view'.at >= view.at]_view
  BY DEF vars, watchVars
<1> QED
  BY <1>1, Invariant, PTL DEF Spec, ViewForward

-----------------------------------------------------------------------------
\* The safety part of StaleEntryGoes.

\* A lease is kept alive only for a registration that is neither closing, nor
\* failed, nor dead: nothing renews a lease nobody answers for.
KeptIsRegistered == \A r \in keeping : pc[r] = "registered"

\* A registration that has not begun has no lease.
IdleHasNoLease == \A r \in Regs : pc[r] = "idle" => lease[r] = "none"

\* A lease that has ended is not granted again, and no put, however late, brings
\* its entry back.
EndedForGood == \A r \in Regs : lease[r] = "gone" =>
    lease'[r] = "gone" /\ \A i \in Instances : store'[i] # r

\* An entry goes with its own lease, or makes way for a later put under the same
\* instance id: no other process's Close, failure or expiry takes it.
EntriesEndOnTheirOwn == \A r \in Regs, i \in Instances :
    store[i] = r /\ store'[i] # r =>
        \/ lease'[r] = "gone"
        \/ /\ store'[i] \in Regs \ {r} /\ InstanceOf[store'[i]] = i
           /\ lease'[store'[i]] = "alive" /\ lastPut'[i] = store'[i]

\* Registrations keep both, and treat leases and entries so.
LEMMA RegEndsLeases ==
    ASSUME RegTypes, KeysHaveLeases, KeptIsRegistered, IdleHasNoLease,
           NEW r \in Regs, RegNext(r)
    PROVE  /\ KeptIsRegistered' /\ IdleHasNoLease'
           /\ EndedForGood /\ EntriesEndOnTheirOwn
<1>0. \A q \in Regs, i \in Instances : lease[q] = "gone" => store[i] # q
  BY NobodyAssumption DEF KeysHaveLeases
<1>1. CASE PutKey(r) \/ (PutLate(r) /\ lease[r] = "alive")
  <2>1. lease[r] = "alive" /\ Put(r) /\ UNCHANGED <<lease, keeping>>
    BY <1>1 DEF PutKey, PutLate
  <2>2. store' = [store EXCEPT ![InstanceOf[r]] = r] /\ InstanceOf[r] \in Instances
    BY <2>1, InstanceAssumption DEF Put
  <2>3. lastPut' = [lastPut EXCEPT ![InstanceOf[r]] = r]
    BY <2>1 DEF Put
  <2>4. KeptIsRegistered' /\ IdleHasNoLease'
    BY <1>1, <2>1 DEF PutKey, PutLate, goto, RegTypes, KeptIsRegistered, IdleHasNoLease
  <2>5. EndedForGood
    BY <1>0, <2>1, <2>2 DEF RegTypes, EndedForGood
  <2>6. EntriesEndOnTheirOwn
    BY <2>1, <2>2, <2>3 DEF RegTypes, EntriesEndOnTheirOwn
  <2> QED
    BY <2>4, <2>5, <2>6
<1>2. CASE Revoke(r) \/ Expire(r)
  <2>1. EndLease(r) /\ UNCHANGED keeping
    BY <1>2 DEF Revoke, Expire
  <2>2. /\ lease' = [lease EXCEPT ![r] = "gone"]
        /\ store' = [i \in Instances |-> IF store[i] = r THEN Nobody ELSE store[i]]
    BY <2>1 DEF EndLease
  <2>3. pc[r] # "idle" /\ (UNCHANGED pc \/ (pc[r] = "revoking" /\ goto(r, "closed")))
    <3>1. CASE Revoke(r)
      BY <3>1 DEF Revoke
    <3>2. CASE Expire(r)
      BY <3>2 DEF Expire, IdleHasNoLease
    <3> QED
      BY <1>2, <3>1, <3>2
  <2>4. KeptIsRegistered' /\ IdleHasNoLease'
    BY <2>1, <2>2, <2>3 DEF goto, RegTypes, KeptIsRegistered, IdleHasNoLease
  <2>5. EndedForGood
    BY <1>0, <2>2, NobodyAssumption DEF RegTypes, EndedForGood
  <2>6. EntriesEndOnTheirOwn
    BY <2>2 DEF RegTypes, EntriesEndOnTheirOwn
  <2> QED
    BY <2>4, <2>5, <2>6
<1>3. CASE Grant(r)
  <2>1. /\ lease' = [lease EXCEPT ![r] = "alive"] /\ pc[r] = "idle"
        /\ goto(r, "putting") /\ UNCHANGED <<store, keeping>>
    BY <1>3 DEF Grant, etcdVars
  <2> QED
    BY <1>0, <2>1 DEF goto, RegTypes, KeptIsRegistered, IdleHasNoLease, EndedForGood,
                      EntriesEndOnTheirOwn
<1>4. ASSUME UNCHANGED <<store, lease>>
      PROVE  EndedForGood /\ EntriesEndOnTheirOwn
  BY <1>0, <1>4 DEF EndedForGood, EntriesEndOnTheirOwn
<1>5. CASE GrantFails(r) \/ PutFails(r) \/ StartFails(r) \/ RevokeFails(r)
  BY <1>4, <1>5 DEF GrantFails, PutFails, StartFails, RevokeFails, goto, etcdVars, RegTypes,
                    KeptIsRegistered, IdleHasNoLease
<1>6. CASE StartKeepAlive(r) \/ KeepAliveEnds(r) \/ CancelKeepAlive(r) \/ Crash(r)
  BY <1>4, <1>6 DEF StartKeepAlive, KeepAliveEnds, CancelKeepAlive, Crash, goto, etcdVars,
                    RegTypes, KeptIsRegistered, IdleHasNoLease
<1>7. CASE PutLate(r) /\ lease[r] # "alive"
  BY <1>4, <1>7 DEF PutLate, etcdVars, KeptIsRegistered, IdleHasNoLease
<1> QED
  BY <1>1, <1>2, <1>3, <1>5, <1>6, <1>7 DEF RegNext

\* So does the watch, which touches neither.
LEMMA StepEndsLeases ==
    ASSUME IInv, KeptIsRegistered, IdleHasNoLease, [Next]_vars
    PROVE  /\ KeptIsRegistered' /\ IdleHasNoLease'
           /\ EndedForGood /\ EntriesEndOnTheirOwn
<1>0. RegTypes /\ KeysHaveLeases
  BY DEF IInv, TypeOK, RegTypes
<1>1. CASE UNCHANGED <<regVars, etcdVars>>
  BY <1>0, <1>1, NobodyAssumption DEF regVars, etcdVars, KeysHaveLeases, KeptIsRegistered,
           IdleHasNoLease, EndedForGood, EntriesEndOnTheirOwn
<1>2. ASSUME NEW r \in Regs, RegNext(r)
      PROVE  /\ KeptIsRegistered' /\ IdleHasNoLease'
             /\ EndedForGood /\ EntriesEndOnTheirOwn
  BY <1>0, <1>2, RegEndsLeases
<1> QED
  BY <1>1, <1>2, WatchLeavesRegs DEF Next, vars

\* Both hold in every state.
LEMMA LeasesInv == Spec => [](KeptIsRegistered /\ IdleHasNoLease)
<1>1. Init => KeptIsRegistered /\ IdleHasNoLease
  BY DEF Init, KeptIsRegistered, IdleHasNoLease
<1>2. IInv /\ (KeptIsRegistered /\ IdleHasNoLease) /\ [Next]_vars
          => (KeptIsRegistered /\ IdleHasNoLease)'
  BY StepEndsLeases
<1> QED
  BY <1>1, <1>2, Invariant, PTL DEF Spec

\* Nobody renews the lease of a registration that is not registered, and once it has
\* ended neither it nor its entry comes back.
THEOREM StaleIsNotKept == Spec => []KeptIsRegistered /\ [][EndedForGood]_vars
<1>1. IInv /\ (KeptIsRegistered /\ IdleHasNoLease) /\ [Next]_vars => [EndedForGood]_vars
  BY StepEndsLeases
<1> QED
  BY <1>1, Invariant, LeasesInv, PTL DEF Spec

\* An entry is taken away only by the end of its lease or by a later put under the
\* same id.
THEOREM NobodyEvictsOthers == Spec => [][EntriesEndOnTheirOwn]_vars
<1>1. IInv /\ (KeptIsRegistered /\ IdleHasNoLease) /\ [Next]_vars => [EntriesEndOnTheirOwn]_vars
  BY StepEndsLeases
<1> QED
  BY <1>1, Invariant, LeasesInv, PTL DEF Spec
=============================================================================
