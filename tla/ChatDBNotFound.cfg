\* A read mark that does not advance.
SPECIFICATION Spec
CONSTANTS
    Users = {alice, bob}
    Sessions = {s1}
    Storers = {w1}
    Creators = {c1}
    NoHandler = NoHandler
    NoDraft = NoDraft
    MaxClock = 2
    ReadSeqs = {1, 2}
    SnapshotRequests = {}
INVARIANTS NotFoundMeansNotMember
