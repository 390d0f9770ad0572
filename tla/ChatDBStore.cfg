\* Two stores and two creations, by two users, contending for one session row.
SPECIFICATION Spec
CONSTANTS
    Users = {alice, bob}
    Sessions = {s1}
    Storers = {w1, w2}
    Creators = {c1, c2}
    NoHandler = NoHandler
    NoDraft = NoDraft
    MaxClock = 2
    ReadSeqs = {}
    SnapshotRequests = {}
SYMMETRY Symmetry
INVARIANTS TypeOK GapFree StoredDurable TimeFollowsSeq SeqUncontended CreatedExact
