------------------------------- MODULE RtTimer -------------------------------
(***************************************************************************)
(* The timers of rt-thread/src/timer.c and the tick interrupt of clock.c:  *)
(* the list of active timers in the order of their time-outs, the tick     *)
(* counter that wraps around, and rt_timer_check, which calls the          *)
(* callbacks of the timers that are due.                                   *)
(*                                                                         *)
(* RT_TIMER_SKIP_LIST_LEVEL is 1: the skip list is a plain list.  A thread *)
(* uses a timer in critical sections, a callback runs inside               *)
(* rt_timer_check with the interrupts disabled and may use any timer, its  *)
(* own included.                                                           *)
(***************************************************************************)
EXTENDS Integers, FiniteSets, SequencesExt

CONSTANTS
    Timers,
    Word,      \* 2 ^ 32 in the code: rt_tick_t is a uint32_t
    Times      \* the values init_tick may have

\* RT_TICK_MAX / 2
Half == (Word - 1) \div 2

\* rt_timer_start asserts init_tick < RT_TICK_MAX / 2.  A time of 0 is left out: a
\* periodic timer of 0 ticks would be due again and again within one interrupt.
ASSUME TimerAssumption ==
    /\ Word \in Nat /\ Half > 1
    /\ Times \subseteq 1 .. Half - 1 /\ Times # {}

VARIABLES
    tick,       \* rt_tick
    list,       \* _timer_list
    timeout,    \* timeout_tick of each timer
    init,       \* init_tick of each timer
    periodic,   \* timers with RT_TIMER_FLAG_PERIODIC
    on,         \* timers with RT_TIMER_FLAG_ACTIVATED
    object,     \* timers that have not been detached
    temp,       \* the temporary list of rt_timer_check
    stopping,   \* timers a thread in rt_timer_stop has found active
    pc,         \* "thread", or in the tick interrupt "check" or "callback"
    older       \* history: pairs of active timers, the one started earlier first

kind == <<init, periodic>>
vars == <<tick, list, timeout, kind, on, object, temp, stopping, pc, older>>

\* Unsigned arithmetic of the width of rt_tick_t, on operands of that width.
Add(a, b) == IF a + b >= Word THEN a + b - Word ELSE a + b
Sub(a, b) == IF a >= b THEN a - b ELSE a - b + Word

-----------------------------------------------------------------------------
(* Starting and stopping; a thread, or a callback in the tick interrupt *)

Callable(t) == pc \in {"thread", "callback"} /\ t \in object

\* Mutant: of two timers for the same tick the later one is put in front.
Position_before_equals(l, to, i) ==
    /\ \A j \in 1 .. i - 1 : Sub(timeout[l[j]], to) >= Half
    /\ i <= Len(l) => Sub(timeout[l[i]], to) < Half

\* The search of rt_timer_start: behind the timers that are due earlier or at the
\* same tick, by the sign of the difference.
Position(l, to, i) ==
    /\ \A j \in 1 .. i - 1 : LET d == Sub(timeout[l[j]], to) IN d = 0 \/ d >= Half
    /\ i <= Len(l) => LET d == Sub(timeout[l[i]], to) IN d # 0 /\ d < Half

\* Mutant: the time-out is counted from nothing.
start_due(t) ==
    LET rest == RemoveFirst(list, t)
    IN  /\ timeout' = [timeout EXCEPT ![t] = tick]
        /\ \E i \in 1 .. Len(rest) + 1 : Position(rest, tick, i) /\ list' = InsertAt(rest, i, t)
        /\ on' = on \cup {t}
        /\ older' = {p \in older : t \notin {p[1], p[2]}} \cup (ToSet(rest) \X {t})

\* The body of rt_timer_start.
start(t) ==
    LET to == Add(tick, init[t])
        rest == RemoveFirst(list, t)
    IN  /\ timeout' = [timeout EXCEPT ![t] = to]
        /\ \E i \in 1 .. Len(rest) + 1 : Position(rest, to, i) /\ list' = InsertAt(rest, i, t)
        /\ on' = on \cup {t}
        /\ older' = {p \in older : t \notin {p[1], p[2]}} \cup (ToSet(rest) \X {t})

\* An active timer is started anew; it leaves whichever list it is on.
rt_timer_start(t) ==
    /\ Callable(t)
    /\ start(t)
    /\ temp' = temp \ {t}
    /\ UNCHANGED <<tick, kind, object, stopping, pc>>

\* _timer_remove, and the flag.
timer_remove(t) ==
    /\ list' = RemoveFirst(list, t) /\ temp' = temp \ {t}
    /\ on' = on \ {t}
    /\ older' = {p \in older : t \notin {p[1], p[2]}}

\* rt_timer_stop of a thread tests the flag before it disables the interrupts, so
\* the timer may fire, or be restarted by a callback, before it is removed.
stop_tests(t) ==
    /\ pc = "thread" /\ t \in object
    /\ t \in on /\ stopping' = stopping \cup {t}
    /\ UNCHANGED <<tick, list, timeout, kind, on, object, temp, pc, older>>

stop_removes(t) ==
    /\ pc = "thread" /\ t \in stopping
    /\ stopping' = stopping \ {t}
    /\ timer_remove(t)
    /\ UNCHANGED <<tick, timeout, kind, object, pc>>

\* In a callback nothing comes in between.
stop_in_callback(t) ==
    /\ pc = "callback" /\ t \in object
    /\ t \in on /\ timer_remove(t)
    /\ UNCHANGED <<tick, timeout, kind, object, stopping, pc>>

rt_timer_detach(t) ==
    /\ Callable(t)
    /\ timer_remove(t)
    /\ object' = object \ {t}
    /\ UNCHANGED <<tick, timeout, kind, stopping, pc>>

\* rt_timer_control: SET_TIME, SET_ONESHOT and SET_PERIODIC change no list.
rt_timer_control(t) ==
    /\ Callable(t)
    /\ \/ \E n \in Times : init' = [init EXCEPT ![t] = n] /\ UNCHANGED periodic
       \/ periodic' = periodic \ {t} /\ UNCHANGED init
       \/ periodic' = periodic \cup {t} /\ UNCHANGED init
    /\ UNCHANGED <<tick, list, timeout, on, object, temp, stopping, pc, older>>

-----------------------------------------------------------------------------
(* The tick interrupt *)

\* rt_tick_increase, and rt_timer_check is entered.
rt_tick_increase ==
    /\ pc = "thread" /\ pc' = "check"
    /\ tick' = Add(tick, 1)
    /\ UNCHANGED <<list, timeout, kind, on, object, temp, stopping, older>>

\* (current_tick - t->timeout_tick) < RT_TICK_MAX / 2
IsDue(t) == Sub(tick, timeout[t]) < Half

HeadIsDue == list # << >> /\ IsDue(Head(list))

\* The head of the list is due: it is taken off and its callback is called.
check_fires ==
    /\ pc = "check" /\ HeadIsDue
    /\ list' = Tail(list) /\ temp' = {Head(list)}
    /\ on' = IF Head(list) \in periodic THEN on ELSE on \ {Head(list)}
    /\ older' = {p \in older : Head(list) \notin {p[1], p[2]}}
    /\ pc' = "callback"
    /\ UNCHANGED <<tick, timeout, kind, object, stopping>>

\* Mutant: a timer its callback has stopped is started again.
check_returns_always ==
    /\ pc = "callback" /\ pc' = "check" /\ temp' = {}
    /\ \/ \E t \in periodic \cap object : t \notin ToSet(list) /\ start(t)
       \/ periodic \cap object \subseteq ToSet(list) /\ UNCHANGED <<list, timeout, on, older>>
    /\ UNCHANGED <<tick, kind, object, stopping>>

\* After the callback a periodic timer that is still on the temporary list, and
\* still active, is started again.
check_returns ==
    /\ pc = "callback" /\ pc' = "check" /\ temp' = {}
    /\ \/ \E t \in temp \cap periodic \cap on : start(t)
       \/ temp \cap periodic \cap on = {} /\ UNCHANGED <<list, timeout, on, older>>
    /\ UNCHANGED <<tick, kind, object, stopping>>

\* Nobody is due: rt_timer_check ends, and the interrupt.
check_ends ==
    /\ pc = "check" /\ ~HeadIsDue
    /\ pc' = "thread"
    /\ UNCHANGED <<tick, list, timeout, kind, on, object, temp, stopping, older>>

rt_timer_check == check_fires \/ check_returns \/ check_ends

-----------------------------------------------------------------------------
\* _timer_init: no timer is active.  The tick counter may be anywhere.
Init ==
    /\ tick \in 0 .. Word - 1
    /\ list = << >> /\ timeout = [t \in Timers |-> 0]
    /\ init \in [Timers -> Times] /\ periodic \in SUBSET Timers
    /\ on = {} /\ object = Timers /\ temp = {} /\ stopping = {}
    /\ pc = "thread" /\ older = {}

Uses(t) ==
    \/ rt_timer_start(t) \/ stop_tests(t) \/ stop_removes(t) \/ stop_in_callback(t)
    \/ rt_timer_detach(t) \/ rt_timer_control(t)

Next == rt_tick_increase \/ rt_timer_check \/ \E t \in Timers : Uses(t)

Spec == Init /\ [][Next]_vars

\* The tick interrupt keeps coming, and callbacks return.
FairSpec == Spec /\ WF_vars(rt_tick_increase) /\ WF_vars(rt_timer_check)

-----------------------------------------------------------------------------
(* Properties *)

\* Type invariant; ticks and time-outs stay words of the width of rt_tick_t.
TypeOK ==
    /\ tick \in 0 .. Word - 1
    /\ list \in Seq(Timers)
    /\ timeout \in [Timers -> 0 .. Word - 1]
    /\ init \in [Timers -> Times] /\ periodic \subseteq Timers
    /\ on \subseteq Timers /\ object \subseteq Timers
    /\ temp \subseteq Timers /\ stopping \subseteq Timers
    /\ pc \in {"thread", "check", "callback"}
    /\ older \subseteq Timers \X Timers

\* The ticks an active timer has left.
Remaining == [t \in Timers |-> IF t \in ToSet(list) THEN Sub(timeout[t], tick) ELSE 0]

\* The sorted list over the wrapping counter behaves as ideal countdown timers: no
\* callback comes early or late, none is lost when several timers are due at once,
\* when a thread stops a timer as it fires, or when a callback stops, restarts,
\* detaches or reconfigures its own timer or another one.
Ideal ==
    INSTANCE Countdown WITH
        armed <- ToSet(list), left <- Remaining, period <- init, firing <- temp,
        again <- temp \cap on

RefinesCountdown == Ideal!Spec

\* rt_timer_check only looks at the head of the list: the timers are in the order in
\* which they are due, also across the wrap-around of the counter.
HeadIsNext ==
    \A i, j \in 1 .. Len(list) : i < j => Remaining[list[i]] <= Remaining[list[j]]

\* "If we have two timers that timeout at the same time, it's preferred that the
\* timer inserted early get called early" (rt_timer_start).
EarlyFirst ==
    \A i, j \in 1 .. Len(list) :
        i < j /\ timeout[list[i]] = timeout[list[j]] => <<list[i], list[j]>> \in older

\* The interrupt ends: timers that are restarted while it runs are not due in it.
InterruptEnds == pc # "thread" ~> pc = "thread"

=============================================================================
