SPECIFICATION FairSpec
CONSTANTS
    Tasks = {"TaskS", "Task1", "Task2", "Task3", "Task4", "Task5"}
    Priority <- MCPriority
    Order <- MCOrder
    Timers <- MCTimers
    Sends <- MCSends
    Kills <- MCKills
    Enders = {"Task2"}
    Sleepers = {"Task2", "Task4"}
INVARIANTS ListsMatchState OffMeansClosed TimeoutFindsSleeper HaltsOnlyOnLateSignal
PROPERTY ClosingEnds
CHECK_DEADLOCK FALSE
