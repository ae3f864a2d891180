\* What must come to an end between the framework and the modem.
SPECIFICATION FairSpec
CONSTANTS
    None = None
    Parts = {"service mode ends", "clients retry", "srs serves", "java tells", "libril ends", "event loop serves", "dispatch ends", "radio ends"}
PROPERTIES
    EverythingEnds
CHECK_DEADLOCK FALSE
