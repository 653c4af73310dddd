SPECIFICATION EventSpec
CONSTANTS
    Threads = {1, 2, 3}
    Flags = {f, g}
    Priority <- Identity
    Flag = "PRIO"
    Interruptible = {1}
INVARIANTS EventTypeOK ListExact NoSatisfiedWaiter EventKept
PROPERTY UrgentServedFirst
