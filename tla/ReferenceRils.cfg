\* The reference RILs and the mock RIL.
SPECIFICATION Spec
CONSTANTS
    None = None
    Parts = {"at", "at reopens", "requests", "radio power", "older", "mock", "mock queues", "mock ends", "calls", "ringing", "ctrl", "ctrl stops"}
INVARIANTS
    TypeOK
    CommandsAnswered
    RadioAsReported
    CallsConsistent
CHECK_DEADLOCK FALSE
