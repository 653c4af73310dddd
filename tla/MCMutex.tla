------------------------------ MODULE MCMutex ------------------------------
(***************************************************************************)
(* RtMutex for TLC: the threads are the numbers of their priorities, and   *)
(* the address bytes are one of these or less urgent than all of them.     *)
(***************************************************************************)
EXTENDS RtMutex

Identity == [t \in Threads |-> t]
AddressBytes == [t \in Threads |-> IF t = 1 THEN 2 ELSE 44 * t]

=============================================================================
