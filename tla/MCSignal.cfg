\* A query whose answer is lost.
SPECIFICATION FairSpec
CONSTANTS
    Token = {t1, t2}
    NoToken = NoToken
    Kind = {"RADIO_POWER", "SIGNAL_STRENGTH"}
    Command <- Commands
    Handler <- MCHandler
    SeqMax = 2
    RetryCount = 2
    MaxIssued = 2
    MaxCancels = 0
PROPERTIES
    SignalStrengthAnswered
CHECK_DEADLOCK FALSE
