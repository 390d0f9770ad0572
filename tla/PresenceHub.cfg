\* One connection that authenticates as either of two users, any number of times,
\* lost Redis calls, pushes that close it, a gateway that stops.
SPECIFICATION FairSpec
CONSTANTS
    Users = {alice, bob}
    Conns = {c1}
    NoUser = NoUser
    MaxTtl = 2
    RedisOutcomes = {TRUE, FALSE}
    Expires = TRUE
INVARIANTS TypeOK HubConsistent AuthOkMeansBound
PROPERTIES Forgotten StaleExpires
\* When every connection is done and every key gone, nothing is left to happen.
CHECK_DEADLOCK FALSE
