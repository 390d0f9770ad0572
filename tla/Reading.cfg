\* Two devices of one user, another member who sends, limits of two bits.
SPECIFICATION Spec
CONSTANTS
    Users = {alice}
    Another = bob
    Devices = {d1, d2}
    OwnerOf <- OneOwner
    Limits = {0, 2, 4}
    Width = 2
    RecentDefault = 1
    UnreadDefault = 1
    MaxSeq = 3
SYMMETRY Symmetry
INVARIANTS TypeOK MarkedWasShown ShortIsLast EmptyIsEnd ScrollContiguous
