SPECIFICATION FairSpec
CONSTANTS
    CHARGE = 3
    DISCHARGE_THRESHOLD = 2
    DISCHARGE = 1
    DEC_VALUE = 1
    Word = 4
    FULL = 1
    MaxGarbage = 1
    MailCap = 1
    Links <- MCLinks
    Slack = 2
INVARIANTS MutexExclusive TSystemNeverBlocks NoLostWakeup
PROPERTIES QuietShutdown ShutdownCompletes
CHECK_DEADLOCK FALSE
