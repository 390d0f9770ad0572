\* No failure of any kind, no connection that ends.
SPECIFICATION FairSpec
CONSTANTS
    alice = alice
    bob = bob
    s1 = s1
    s2 = s2
    c1 = c1
    c2 = c2
    Users = {alice, bob}
    Servers = {s1, s2}
    None = None
    Members = {alice, bob}
    Talkers = {alice}
    Conns = {c1, c2}
    Dials <- Anywhere
    Stable = {c1, c2}
    Stamps = {1}
    PageCap = 9
    SendCap = 9
    MaxFaults = 0
    MaxCrashes = 0
PROPERTIES ReplayDelivers
CHECK_DEADLOCK FALSE
