SPECIFICATION Spec
CONSTANTS
    Threads = {1, 2, 3}
    NoThread = NoThread
    Priority <- Identity
    Address <- AddressBytes
    MutexAddress = 0
    HoldMax = 2
    ValueMax = 2
    Interruptible = {2}
INVARIANTS ListExact OwnershipExact UrgentFirst
CHECK_DEADLOCK FALSE
