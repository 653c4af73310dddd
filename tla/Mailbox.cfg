SPECIFICATION Spec
CONSTANTS
    Threads = {1, 2, 3}
    Values = {a, b}
    NoMail = none
    Size = 2
    Priority <- Identity
    Flag = "PRIO"
    Interruptible = {1}
INVARIANTS ListsExact NobodyStranded
PROPERTY RefinesMailbox
CHECK_DEADLOCK FALSE
