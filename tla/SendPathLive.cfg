\* The gateway answers though nobody else is obliged to.
SPECIFICATION FairSpec
CONSTANTS
    Users = {alice}
    Conns = {c1}
    NoUser = NoUser
    Sessions = {s1}
    Attempts = {a1, a2}
    NoRequest = NoRequest
PROPERTIES AlwaysAnswered
\* Attempts are finitely many: the system stops when all are answered.
CHECK_DEADLOCK FALSE
