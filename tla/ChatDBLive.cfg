\* Read marks within and beyond the log, snapshots, two stores and a creation of
\* one session, each of which has to return.
SPECIFICATION FairSpec
CONSTANTS
    Users = {alice}
    Sessions = {s1}
    Storers = {w1, w2}
    Creators = {c1}
    NoHandler = NoHandler
    NoDraft = NoDraft
    MaxClock = 2
    ReadSeqs = {1, 3}
    SnapshotRequests = {{s1}}
INVARIANTS UnreadExact SnapshotNotBehind
PROPERTIES ImplementsLog HandlersReturn
