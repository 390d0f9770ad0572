\* Every Redis call succeeds and nothing expires.
SPECIFICATION Spec
CONSTANTS
    Users = {alice, bob}
    Conns = {c1, c2}
    NoUser = NoUser
    MaxTtl = 1
    RedisOutcomes = {TRUE}
    Expires = FALSE
SYMMETRY Symmetry
INVARIANT OnlineStored
CHECK_DEADLOCK FALSE
