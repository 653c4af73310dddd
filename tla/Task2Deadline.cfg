SPECIFICATION Spec
CONSTANTS
    FULL = 2
    StartTicks = {0}
INVARIANT Task2Deadline
