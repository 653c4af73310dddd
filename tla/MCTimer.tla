------------------------------ MODULE MCTimer ------------------------------
\* RtTimer for TLC.
EXTENDS RtTimer

=============================================================================
