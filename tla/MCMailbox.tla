----------------------------- MODULE MCMailbox -----------------------------
(***************************************************************************)
(* RtMailbox for TLC: the threads are the numbers of their priorities.     *)
(***************************************************************************)
EXTENDS RtMailbox

Identity == [t \in Threads |-> t]

=============================================================================
