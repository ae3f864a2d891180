\* The components between the framework and the modem.
SPECIFICATION Spec
CONSTANTS
    None = None
    Parts = {"service mode", "clients", "srs", "java", "libril", "libril sockets", "event loop", "memory", "requests", "responses", "samsung responses", "dispatch", "dispatch ends", "answers", "reports", "radio", "radio threads"}
INVARIANTS
    TypeOK
    RequestsKept
    DataCarried
    StateShown
PROPERTIES
    AnsweredTruly
CHECK_DEADLOCK FALSE
