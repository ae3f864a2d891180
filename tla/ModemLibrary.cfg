SPECIFICATION FairSpec
CONSTANTS
    None = None
    Parts = {"boot", "old boot", "boot ends", "transport", "ipc client", "tool", "modemctrl", "messages", "nv", "nv faults", "old nv", "rfs"}
INVARIANTS
    TypeOK
    BootsAndCloses
    MessagesWhole
    StorageHolds
PROPERTIES
    EverythingEnds
CHECK_DEADLOCK FALSE
