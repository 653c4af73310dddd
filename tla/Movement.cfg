SPECIFICATION FairSpec
CONSTANTS
    MAP_SIDE = 3
    MailCap = 2
    MaxObstacles = 2
    MaxGarbage = 9
    StuckGarbage = {0, 1}
    TimersMayOverrun = FALSE
INVARIANTS NoLostWakeup SignalArmed
PROPERTIES NoStartOverObstacle ReturnIsFinal MailBringsReturn JobFollowsActivation HomeFromInside
