\* A receiver who changes the connection or the server, a server that is killed
\* and may start again, and one call that fails, times out or loses its answer.
SPECIFICATION FairSpec
CONSTANTS
    alice = alice
    bob = bob
    s1 = s1
    s2 = s2
    c1 = c1
    c2 = c2
    Users = {alice, bob}
    Servers = {s1, s2}
    None = None
    Members = {alice, bob}
    Talkers = {alice}
    Conns = {c1, c2}
    Dials <- Scenes
    Stable = {c1}
    Stamps = {1}
    PageCap = 1
    SendCap = 1
    MaxFaults = 1
    MaxCrashes = 1
INVARIANTS HubIsUsable ServedIsListed
PROPERTIES RoutingEnds PresenceRestored
\* Connections are finitely many: when all are gone nothing is left to happen.
CHECK_DEADLOCK FALSE
