SPECIFICATION Spec
CONSTANTS
    FULL = 2
    StartTicks = {0}
INVARIANTS TypeOK JobsEndInPeriod DeadlinesMet FullIsSeen TSystemGetsCPU
