\* Up to three requests of four kinds; numbers wrap around (SeqMax), the client gives
\* up (RetryCount), one request is cancelled.
SPECIFICATION Spec
CONSTANTS
    Token = {t1, t2, t3}
    NoToken = NoToken
    Kind = {"RADIO_POWER", "QUERY_AVAILABLE_NETWORKS", "SCREEN_STATE", "UNSUPPORTED"}
    Command <- Commands
    Handler <- MCHandler
    SeqMax = 2
    RetryCount = 3
    MaxIssued = 3
    MaxCancels = 1
SYMMETRY TokenSymmetry
INVARIANTS
    TypeOK
    Mirrored
    AnsweredOnce
    NoLostWakeup
    UnhandledHasReason
    ExclusiveInOrder
    RadioNeedsClient
    AnswersFindTheirRequest
PROPERTIES
    ServiceSpec
CHECK_DEADLOCK FALSE
