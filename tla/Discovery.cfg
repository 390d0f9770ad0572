\* A process and its next incarnation register under one instance id.
SPECIFICATION FairSpec
CONSTANTS
    Regs = {r1, r2}
    Instances = {1}
    InstanceOf <- SameInstance
    Nobody = Nobody
INVARIANTS TypeOK LatestIsListed
PROPERTIES ViewForward StaleEntryGoes ViewSettles
\* When every registration is over and the watch has ended, nothing happens.
CHECK_DEADLOCK FALSE
