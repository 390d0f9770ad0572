\* Two messages for a channel that holds one and a table whose query returns one;
\* the keys of the two sort the other way round than their times.  One call
\* fails, times out or loses its answer.
SPECIFICATION Spec
CONSTANTS
    alice = alice
    bob = bob
    s1 = s1
    s2 = s2
    c1 = c1
    c2 = c2
    Users = {alice, bob}
    Servers = {s1, s2}
    None = None
    Members = {alice, bob}
    Talkers = {alice}
    Conns = {c1, c2}
    Dials <- Anywhere
    Stable = {c1}
    Stamps = {10, 11}
    PageCap = 1
    SendCap = 1
    MaxFaults = 1
    MaxCrashes = 0
INVARIANTS TypeOK RoutedIsKept
PROPERTIES ImplementsMailbox
\* Connections are finitely many: when all are gone nothing is left to happen.
CHECK_DEADLOCK FALSE
