\* Three requests on two connections, one outage.
SPECIFICATION Spec
CONSTANTS
    Token = {t1, t2, t3}
    None = None
    MaxOutages = 1
    CidCount = 2
SYMMETRY TokenSymmetry
INVARIANTS
    TypeOK
    TokenQueued
PROPERTIES
    SetupOwnConnection
    DeactivatedRemoved
CHECK_DEADLOCK FALSE
