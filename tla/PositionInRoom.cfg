SPECIFICATION Spec
CONSTANTS
    MAP_SIDE = 3
    MailCap = 1
    MaxObstacles = 2
    MaxGarbage = 9
    StuckGarbage = {0}
    TimersMayOverrun = FALSE
INVARIANT PositionInRoom
