----------------------------- MODULE Countdown -----------------------------
(***************************************************************************)
(* What the kernel's timers promise: a timer that has been started for n   *)
(* ticks has its callback called at the n-th tick from then, neither       *)
(* earlier nor later, unless it is stopped or started again before; a      *)
(* periodic one is then armed again for its period, unless its callback    *)
(* has stopped or restarted it.  RtTimer, the sorted list of               *)
(* rt-thread/src/timer.c over a tick counter that wraps around, implements *)
(* this.                                                                   *)
(***************************************************************************)
EXTENDS Integers

CONSTANTS Timers, Times

VARIABLES
    armed, left,       \* the armed timers, and the ticks each has left (0 if not armed)
    period, periodic,  \* ticks it is armed for, and the timers armed again after firing
    firing,            \* the timer whose callback runs and has not touched it
    again,             \* ... if it is to be armed again after the callback
    pc                 \* "thread", or in the tick interrupt "check" or "callback"

vars == <<armed, left, period, periodic, firing, again, pc>>

Init ==
    /\ armed = {} /\ left = [t \in Timers |-> 0]
    /\ period \in [Timers -> Times] /\ periodic \in SUBSET Timers
    /\ firing = {} /\ again = {} /\ pc = "thread"

Callable == pc \in {"thread", "callback"}

Start(t) ==
    /\ Callable
    /\ armed' = armed \cup {t} /\ left' = [left EXCEPT ![t] = period[t]]
    /\ firing' = firing \ {t} /\ again' = again \ {t}
    /\ UNCHANGED <<period, periodic, pc>>

Stop(t) ==
    /\ Callable
    /\ armed' = armed \ {t} /\ left' = [left EXCEPT ![t] = 0]
    /\ firing' = firing \ {t} /\ again' = again \ {t}
    /\ UNCHANGED <<period, periodic, pc>>

Configure ==
    /\ Callable
    /\ period' \in [Timers -> Times] /\ periodic' \in SUBSET Timers
    /\ UNCHANGED <<armed, left, firing, again, pc>>

Tick ==
    /\ pc = "thread" /\ pc' = "check"
    /\ left' = [t \in Timers |-> IF t \in armed THEN left[t] - 1 ELSE 0]
    /\ UNCHANGED <<armed, period, periodic, firing, again>>

Fire(t) ==
    /\ pc = "check" /\ pc' = "callback"
    /\ t \in armed /\ left[t] = 0
    /\ armed' = armed \ {t}
    /\ firing' = {t} /\ again' = {t} \cap periodic
    /\ UNCHANGED <<left, period, periodic>>

Return ==
    /\ pc = "callback" /\ pc' = "check"
    /\ firing' = {} /\ again' = {}
    /\ LET rearmed == again \cap periodic
       IN  /\ armed' = armed \cup rearmed
           /\ left' = [t \in Timers |-> IF t \in rearmed THEN period[t] ELSE left[t]]
    /\ UNCHANGED <<period, periodic>>

Done ==
    /\ pc = "check" /\ pc' = "thread"
    /\ \A t \in armed : left[t] > 0
    /\ UNCHANGED <<armed, left, period, periodic, firing, again>>

Next ==
    \/ \E t \in Timers : Start(t) \/ Stop(t) \/ Fire(t)
    \/ Configure \/ Tick \/ Return \/ Done

Spec == Init /\ [][Next]_vars

=============================================================================
