------------------------------ MODULE MCEvent ------------------------------
\* RtEvent for TLC: the threads are the numbers of their priorities.
EXTENDS RtEvent

Identity == [t \in Threads |-> t]
=============================================================================
