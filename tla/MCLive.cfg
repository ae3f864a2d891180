\* Liveness: no symmetry.
SPECIFICATION FairSpec
CONSTANTS
    Token = {t1, t2}
    NoToken = NoToken
    Kind = {"RADIO_POWER", "DIAL"}
    Command <- Commands
    Handler <- MCHandler
    SeqMax = 2
    RetryCount = 3
    MaxIssued = 2
    MaxCancels = 1
PROPERTIES
    PendingDispatched
    ExecuteAnswered
CHECK_DEADLOCK FALSE
