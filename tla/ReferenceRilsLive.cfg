\* What must come to an end in the reference RILs and the mock RIL.
SPECIFICATION FairSpec
CONSTANTS
    None = None
    Parts = {"at ends", "older ends", "mock ends", "calls settle", "ctrl"}
PROPERTIES
    EverythingEnds
CHECK_DEADLOCK FALSE
