SPECIFICATION FairSpec
CONSTANTS
    CHARGE = 6
    DISCHARGE_THRESHOLD = 4
    DISCHARGE = 2
    DEC_VALUE = 2
    Word = 16
    FULL = 1
    MaxGarbage = 1
    MailCap = 1
    Links <- OneLink
    Slack = 2
PROPERTY EmptyBatteryTurnsOff
CHECK_DEADLOCK FALSE
