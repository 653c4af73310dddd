------------------------------ MODULE MCPower ------------------------------
(***************************************************************************)
(* Power for TLC.  One link for each thing the address bytes can do to the *)
(* priorities: TSystem stays the least urgent; it inherits more urgency    *)
(* than Task3 and then falls just below it; it becomes as urgent as Task3  *)
(* or more and waits for the mutex, which moves Task3 as well; Task3, or   *)
(* TSystem, is put outside the ready table.                                *)
(***************************************************************************)
EXTENDS Power

Link(task3, tsystem, mutexByte) ==
    [a \in {"Task3", "TSystem", "mutex"} |->
        CASE a = "Task3" -> task3 [] a = "TSystem" -> tsystem [] a = "mutex" -> mutexByte]

MCLinks ==
    {Link(20, 9, 14), Link(3, 9, 5), Link(20, 2, 4), Link(9, 40, 3), Link(9, 9, 40)}

OneLink == {Link(20, 9, 14)}
=============================================================================
