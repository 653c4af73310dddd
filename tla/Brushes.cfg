SPECIFICATION BrushesSpec
CONSTANTS
    STOP_BRUSHES = 0
    LOW = 1
    MEDIUM = 2
    HIGH = 3
    MailCap = 2
    Uninitialized <- StackGarbage
INVARIANT SensorKeepsPulsing
PROPERTY MailStopsBrushes
CHECK_DEADLOCK FALSE
