\* Three requests (two to the SIM), one outage.
SPECIFICATION Spec
CONSTANTS
    Token = {t1, t2, t3}
    None = None
    MaxOutages = 1
    Parts = {"sms", "dtmf", "calls", "network", "identity", "sim"}
    SmsKind = {"SEND_SMS", "SMS_ACKNOWLEDGE"}
    OwnSmsc = {TRUE, FALSE}
    Smsc = Smsc
    MaxIncoming = 2
    SimKind = {"STATUS", "PIN", "PUK", "CHANGE", "LOCK", "IO", "PIN2", "PUK2", "CHANGE2"}
    Pin = {p, q}
    MaxTries = 2
    MaxReports = 1
    Call = {c1, c2}
    MaxChanges = 2
    MaxQueries = 2
SYMMETRY Symmetry
INVARIANTS
    TypeOK
    StoredPduMatches
    ReportedOnce
    TonesFollowed
    CauseOnce
    SerialWaits
    CardAsked
PROPERTIES
    FreshAfterOutage
CHECK_DEADLOCK FALSE
