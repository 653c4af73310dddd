------------------------------ MODULE MCTiming ------------------------------
\* Instances of Timing for TLC: every other value is the code's own.
EXTENDS Timing
=============================================================================
