------------------------------- MODULE Timing -------------------------------
(***************************************************************************)
(* The timing of the application, tick by tick, with the periods, the      *)
(* durations and the priorities of applications/tasks.h: rt_tick_increase  *)
(* (clock.c) counts down the tick_count of the thread it interrupts, the   *)
(* activation timers release the jobs, and every job spins until its       *)
(* tick_count is 0.                                                        *)
(*                                                                         *)
(* The code of a job takes less time than the ticks it spins for: it may   *)
(* do its work in any of those ticks, and what is outside the spinning     *)
(* takes no time.  TaskS and the signal handlers take no time either.      *)
(* main shares priority 10 with TSystem, by time slices, until it has      *)
(* started the timer of Task5.                                             *)
(***************************************************************************)
EXTENDS Integers, FiniteSets

CONSTANTS
    FULL,         \* garbage level that is reported (30 in the code)
    StartTicks    \* what rt_tick % 90 may be when the timers are started

ASSUME TimingAssumption == FULL \in Nat \ {0} /\ StartTicks \subseteq 0 .. 89

VARIABLES
    tick,        \* rt_tick % 90
    due,         \* ticks until the timer of a task fires; 0: it is not started
    jobs,        \* tasks with an unfinished job
    flag,        \* tasks whose activation event is set and not received
    tick_count,  \* of every task
    undone,      \* Task2 and Task3 when their job has not done its work yet
    age,         \* ticks since the activation that the job serves
    closed,      \* tasks that have ended
    low, slice,  \* the thread of priority 10 that has the CPU, and its remaining_tick
    garbage,     \* the garbage bag
    seen,        \* Task3 has read the level FULL
    crowd        \* activations of Task3 since TSystem last had the CPU

vars == <<tick, due, jobs, flag, tick_count, undone, age, closed, low, slice, garbage,
          seen, crowd>>

\* Bounds: where the two counters stop.
GarbageMax == FULL + 1
CrowdMax == 3

-----------------------------------------------------------------------------
(* tasks.h and main.c *)

Periodic == {"Task1", "Task2", "Task3", "Task5"}
Tasks == Periodic \cup {"Task4"}
Workers == {"Task2", "Task3"}

\* Mutant: Task1 comes last of the periodic tasks.
Priority_late1 == [t \in Tasks |-> CASE t = "Task1" -> 5 [] t = "Task2" -> 2 [] t = "Task3" -> 3
                                     [] t = "Task5" -> 4 [] t = "Task4" -> 6]

Priority == [t \in Tasks |-> CASE t = "Task1" -> 2 [] t = "Task2" -> 3 [] t = "Task3" -> 4
                               [] t = "Task5" -> 5 [] t = "Task4" -> 6]

\* Mutant: Task3 is as slow as the other tasks.
Period_slow == [t \in Periodic |-> IF t = "Task5" THEN 25 ELSE IF t = "Task3" THEN 100 ELSE 50]

Period == [t \in Periodic |-> IF t \in {"Task3", "Task5"} THEN 25 ELSE 50]

\* Mutant: one tick more for Task5.
Duration_longer == [t \in Tasks |-> CASE t = "Task1" -> 5 [] t = "Task2" -> 6
                                      [] t = "Task3" -> 6 [] t = "Task4" -> 2
                                      [] t = "Task5" -> 8]

\* Mutant: Task4 spins as long as the battery takes to lose a step.
Duration_alarm == [t \in Tasks |-> CASE t = "Task1" -> 5 [] t = "Task2" -> 6
                                     [] t = "Task3" -> 6 [] t = "Task4" -> 20
                                     [] t = "Task5" -> 7]

\* TICK_DELAY_T1 to TICK_DELAY_T5.
Duration == [t \in Tasks |-> CASE t = "Task1" -> 5 [] t = "Task2" -> 6 [] t = "Task3" -> 6
                               [] t = "Task4" -> 2 [] t = "Task5" -> 7]

\* init_tick of main and of TSystem.
Slice == [t \in {"main", "TSystem"} |-> IF t = "main" THEN 20 ELSE 5]

\* main has not returned.
Starting == due["Task5"] = 0

\* The thread that has the CPU.
Current ==
    IF jobs = {} THEN low
    ELSE CHOOSE t \in jobs : \A u \in jobs : Priority[t] <= Priority[u]

-----------------------------------------------------------------------------
(* The clock interrupt *)

Fires(t) == due[t] = 1

\* Mutant: the slice is renewed one tick late.
Slices_late ==
    IF Current # low THEN UNCHANGED <<low, slice>>
    ELSE IF slice > 0 THEN slice' = slice - 1 /\ UNCHANGED low
    ELSE /\ low' = IF ~Starting THEN low ELSE IF low = "main" THEN "TSystem" ELSE "main"
         /\ slice' = Slice[low']

\* The time slices of the two threads of priority 10.
Slices ==
    IF Current # low THEN UNCHANGED <<low, slice>>
    ELSE IF slice > 1 THEN slice' = slice - 1 /\ UNCHANGED low
    ELSE /\ low' = IF ~Starting THEN low ELSE IF low = "main" THEN "TSystem" ELSE "main"
         /\ slice' = Slice[low']

\* Only the interrupted thread is counted down.
Counts == [t \in Tasks |-> IF t = Current /\ tick_count[t] > 0 THEN tick_count[t] - 1
                           ELSE tick_count[t]]

\* The thread that has the CPU does nothing but spin until the next tick.
Spins ==
    /\ Current \in Tasks => /\ tick_count[Current] > 0
                            /\ Current \in undone => tick_count[Current] > 1
    /\ ~(Current = "main" /\ due["Task1"] <= 35)

\* rt_tick_increase and rt_timer_check.  A timer's rt_event_send starts a job of a
\* waiting task, otherwise it leaves the event set.
rt_tick_increase ==
    LET fired == {t \in Periodic : Fires(t)}
        fresh == fired \ (jobs \cup closed)
    IN  /\ Spins
        /\ tick' = (tick + 1) % 90
        /\ due' = [t \in Periodic |-> IF Fires(t) THEN Period[t]
                                      ELSE IF due[t] = 0 THEN 0 ELSE due[t] - 1]
        /\ Slices
        /\ jobs' = jobs \cup fresh
        /\ flag' = flag \cup (fired \ fresh)
        /\ tick_count' = [t \in Tasks |-> IF t \in fresh THEN Duration[t] ELSE Counts[t]]
        /\ undone' = undone \cup (fresh \cap Workers)
        /\ age' = [t \in Periodic |-> IF t \in jobs THEN age[t] + 1 ELSE 0]
        /\ crowd' = IF Current = "TSystem" THEN Cardinality(fired \cap {"Task3"})
                    ELSE IF "Task3" \in fired /\ crowd < CrowdMax THEN crowd + 1 ELSE crowd
        /\ UNCHANGED <<closed, garbage, seen>>

-----------------------------------------------------------------------------
(* main and the jobs *)

\* The end of main's busy waiting: 15 ticks after the first three timers.
main_starts_Task5 ==
    /\ Current = "main" /\ due["Task1"] <= 35
    /\ due' = [due EXCEPT !["Task5"] = Period["Task5"]]
    /\ low' = "TSystem" /\ slice' = Slice["TSystem"]
    /\ UNCHANGED <<tick, jobs, flag, tick_count, undone, age, closed, garbage, seen, crowd>>

\* Task2 puts the garbage of a tile that it has not cleaned before into the bag.
T2_cleans ==
    /\ Current = "Task2" /\ "Task2" \in undone
    /\ undone' = undone \ {"Task2"}
    /\ garbage' \in {garbage, garbage + 1} /\ garbage' <= GarbageMax
    /\ UNCHANGED <<tick, due, jobs, flag, tick_count, age, closed, low, slice, seen, crowd>>

\* The robot is stuck: Task2 ends without spinning.
T2_stuck ==
    /\ Current = "Task2" /\ "Task2" \in undone
    /\ undone' = undone \ {"Task2"} /\ jobs' = jobs \ {"Task2"}
    /\ closed' = closed \cup {"Task2"}
    /\ tick_count' = [tick_count EXCEPT !["Task2"] = 0]
    /\ age' = [age EXCEPT !["Task2"] = 0]
    /\ UNCHANGED <<tick, due, flag, low, slice, garbage, seen, crowd>>

\* Task3 reads the battery and the bag; for either it may wake Task4.
T3_checks(alarm) ==
    /\ Current = "Task3" /\ "Task3" \in undone
    /\ garbage = FULL => alarm
    /\ undone' = undone \ {"Task3"}
    /\ seen' = (seen \/ garbage = FULL)
    /\ IF alarm /\ "Task4" \notin jobs
       THEN /\ jobs' = jobs \cup {"Task4"} /\ UNCHANGED flag
            /\ tick_count' = [tick_count EXCEPT !["Task4"] = Duration["Task4"]]
       ELSE /\ flag' = IF alarm THEN flag \cup {"Task4"} ELSE flag
            /\ UNCHANGED <<jobs, tick_count>>
    /\ UNCHANGED <<tick, due, age, closed, low, slice, garbage, crowd>>

\* The spinning is over; rt_event_recv goes on with an event that is set, and waits
\* when there is none.
job_ends(t) ==
    /\ Current = t /\ tick_count[t] = 0 /\ t \notin undone
    /\ flag' = flag \ {t}
    /\ jobs' = IF t \in flag THEN jobs ELSE jobs \ {t}
    /\ tick_count' = [tick_count EXCEPT ![t] = IF t \in flag THEN Duration[t] ELSE 0]
    /\ undone' = IF t \in flag THEN undone \cup ({t} \cap Workers) ELSE undone
    /\ age' = [u \in Periodic |-> IF u # t THEN age[u]
                                  ELSE IF t \in flag THEN age[u] - Period[u] ELSE 0]
    /\ UNCHANGED <<tick, due, closed, low, slice, garbage, seen, crowd>>

-----------------------------------------------------------------------------
\* main has started the timers of Task1, Task2 and Task3 and busy waits, with some of
\* its time slice left.
Init ==
    /\ tick \in StartTicks
    /\ due = [t \in Periodic |-> IF t = "Task5" THEN 0 ELSE Period[t]]
    /\ jobs = {} /\ flag = {} /\ closed = {} /\ undone = {}
    /\ tick_count = [t \in Tasks |-> 0] /\ age = [t \in Periodic |-> 0]
    /\ low = "main" /\ slice \in 1 .. Slice["main"]
    /\ garbage = 0 /\ seen = FALSE /\ crowd = 0

Next ==
    \/ rt_tick_increase
    \/ main_starts_Task5
    \/ T2_cleans \/ T2_stuck
    \/ \E alarm \in BOOLEAN : T3_checks(alarm)
    \/ \E t \in Tasks : job_ends(t)

Spec == Init /\ [][Next]_vars

-----------------------------------------------------------------------------
(* Properties *)

\* Type invariant; the time slice of main and of TSystem is used up within its length.
TypeOK ==
    /\ tick \in 0 .. 89
    /\ due \in [Periodic -> Nat] /\ age \in [Periodic -> Nat]
    /\ jobs \subseteq Tasks /\ flag \subseteq Tasks /\ closed \subseteq {"Task2"}
    /\ undone \subseteq jobs \cap Workers
    /\ tick_count \in [Tasks -> Nat]
    /\ low \in {"main", "TSystem"} /\ slice \in 1 .. Slice[low]
    /\ garbage \in 0 .. GarbageMax /\ seen \in BOOLEAN /\ crowd \in 0 .. CrowdMax

\* No activation timer fires while the task's previous job is unfinished, whenever
\* main got round to starting the timer of Task5: an activation that finds its event
\* still set is lost.
JobsEndInPeriod == flag \subseteq closed \cup {"Task4"}

\* main was not delayed on its way to the timer of Task5, which then fires 15 ticks
\* after those of Task1 and Task3, as the busy waiting is meant to arrange.
OnTime == (due["Task5"] - due["Task1"]) % 25 = 15

\* How long after its activation a job ends at the latest, preemptions included: the
\* deadlines of implementation.md hold for Task1, Task3 and (with its timer started
\* on time) Task5, and Task2 is at most one tick late.
DeadlinesMet ==
    /\ age["Task1"] < 10 /\ age["Task2"] <= 11 /\ age["Task3"] < 20
    /\ ~Starting /\ OnTime => age["Task5"] < 20

\* Task3 compares the level of the bag with FULL for equality, and yet never misses
\* it: before Task2 puts the next tile's garbage in, Task3 has read FULL.
FullIsSeen == garbage > FULL => seen

\* TSystem has the CPU at least once between any three activations of Task3 (the
\* bound Slack of Power), whatever alarms Task4 sounds.
TSystemGetsCPU == crowd <= 2

-----------------------------------------------------------------------------
(* What implementation.md says and the code does not *)

\* "Task2 ... Hard R.T. ... 100" (implementation.md): a job of Task2 has ended 100 ms
\* after its activation.
Task2Deadline == age["Task2"] <= 10

=============================================================================
