\* Both kinds of message to send.
SPECIFICATION Spec
CONSTANTS
    Token = {t1, t2, t3}
    Kind = {"SEND_SMS", "SEND_SMS_EXPECT_MORE"}
    OwnSmsc = {FALSE}
    Smsc = Smsc
    None = None
    MaxIncoming = 0
    MaxOutages = 0
INVARIANTS
    SuccessMeansSent
CHECK_DEADLOCK FALSE
