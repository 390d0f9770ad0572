\* Two attempts pushed to two connections that come and go.
SPECIFICATION Spec
CONSTANTS
    Users = {alice, bob}
    Conns = {c1, c2}
    NoUser = NoUser
    Sessions = {s1}
    Attempts = {a1, a2}
    NoRequest = NoRequest
SYMMETRY Symmetry
INVARIANTS TypeOK AckedStoredOnce AtMostOnce OnlyMembersPost
           PushedIsStored SequentialOrder PushComplete
\* Attempts are finitely many: the system stops when all are answered.
CHECK_DEADLOCK FALSE
