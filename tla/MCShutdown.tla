----------------------------- MODULE MCShutdown -----------------------------
\* The tasks of the application with the priorities of tasks.h.
EXTENDS Shutdown

MCPriority ==
    [t \in Threads |-> CASE t = "TaskS" -> 1 [] t = "Task1" -> 2 [] t = "Task2" -> 3
                         [] t = "Task3" -> 4 [] t = "Task5" -> 5 [] t = "Task4" -> 6
                         [] t = "TSystem" -> 10 [] t = "idle" -> 31]

MCOrder == SelectSeq(<<"TaskS", "Task1", "Task2", "Task3", "Task4", "Task5">>,
                     LAMBDA t : t \in Tasks)
MCTimers == SelectSeq(<<"Task1", "Task2", "Task3", "Task5">>, LAMBDA t : t \in Tasks)
MCSends == {p \in {<<"Task1", "TaskS">>, <<"Task3", "Task4">>} : p \in Tasks \X Tasks}
MCKills == {<<"Task1", "Task2">>}
=============================================================================
