SPECIFICATION FairSpec
CONSTANTS
    Timers = {a, b}
    Word = 8
    Times = {1, 2}
INVARIANT EarlyFirst
PROPERTIES RefinesCountdown InterruptEnds
