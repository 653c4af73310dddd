------------------------------- MODULE Power -------------------------------
(***************************************************************************)
(* The resource and power subsystem: Task3 check_resources, Task4          *)
(* acoustic_signals and TSystem (applications/tasks.c and system.c), the   *)
(* battery they share under battMutex, the garbage bag, event_resources,   *)
(* the mailbox mb2_3, the SIGUSR2 soft interrupt that turns the system off *)
(* and the closing of all tasks.                                           *)
(*                                                                         *)
(* As in Movement one kernel call is one step and the ready thread of the  *)
(* highest priority has the CPU, except that a thread whose                *)
(* preemptableFlag is 1 is never switched away from.  Task1, Task2 and     *)
(* TaskS outrank everything here; Task2 appears as an environment that     *)
(* fills the garbage bag, takes mails, comes home or gets stuck.           *)
(*                                                                         *)
(* rt_mutex_take and rt_mutex_release pass the ADDRESS of a priority to    *)
(* rt_thread_control, which stores its argument: the owner's priority      *)
(* becomes the low byte of that address.  The link fixes the three bytes   *)
(* concerned, and they may be any: Init chooses them.  A byte that makes   *)
(* TSystem as urgent as Task3 lets it wait for battMutex, where SIGUSR2    *)
(* finds it; a byte outside the ready table makes the scheduler write      *)
(* behind the table, where the model ends.                                 *)
(***************************************************************************)
EXTENDS Integers, FiniteSets

CONSTANTS
    CHARGE, DISCHARGE_THRESHOLD, DISCHARGE, DEC_VALUE,   \* system.h
    Word,          \* 2 ^ 32 in the code: batteryStatus is a uint32_t
    FULL,          \* garbage level that is reported
    MaxGarbage,    \* bound: where the garbage counter saturates
    MailCap,       \* mails mb2_3 holds (32 in the code)
    Links,         \* the address bytes the link may produce, see byte
    Slack          \* Task3 activations between two moments TSystem has the CPU

ASSUME PowerAssumption ==
    /\ Word \in Nat /\ CHARGE \in 0 .. Word - 1 /\ DEC_VALUE \in 1 .. Word - 1
    /\ DISCHARGE \in Nat /\ DISCHARGE_THRESHOLD \in Nat
    /\ FULL \in Nat /\ MaxGarbage \in Nat /\ MailCap \in Nat \ {0}
    /\ Links \subseteq [{"Task3", "TSystem", "mutex"} -> 0 .. 255]
    /\ Slack \in Nat \ {0}

VARIABLES
    stat, pc,      \* of Task3, Task4, TSystem
    activation,    \* EVENT_CHECK_RESOURCES_ACTIVATION is set
    resources,     \* event_resources.set, a subset of {"battery", "garbage"}
    e,             \* the flags Task4 has received
    speaker,       \* the alarm Task4's job has sounded
    owner,         \* battMutex.owner, "none" when it is free
    original,      \* battMutex.original_priority
    prio,          \* current_priority of each thread
    byte,          \* low bytes of &check_resources.current_priority,
                   \* &Tsystem.current_priority and &battMutex.original_priority
    interrupted,   \* TSystem's thread->error is -RT_EINTR
    halted,        \* "no", or what has stopped the program: "assert", "table"
    nonpreempt,    \* TSystem's preemptableFlag is 1
    sig_pending, sig_mask, sig_entry,  \* SIGUSR2 at TSystem, as in Movement
    turnOffFlag,
    batteryStatus, garbage,
    mb2_3,         \* number of mails in mb2_3
    window,        \* the current tick has curr_time % 900 == 0
    task2,         \* the environment's Task2
    crowd          \* Task3 activations since TSystem last had the CPU

signals == <<sig_pending, sig_mask, sig_entry>>
mutex == <<owner, original, prio>>
events == <<activation, resources, e, speaker>>
levels == <<batteryStatus, garbage>>
machine == <<byte, interrupted, halted>>
vars == <<stat, pc, events, mutex, nonpreempt, signals, turnOffFlag, machine, levels,
          mb2_3, window, task2, crowd>>

-----------------------------------------------------------------------------
(* The CPU and the kernel objects *)

Threads == {"Task3", "Task4", "TSystem"}

\* CHECK_RESOURCES_PRIORITY, ACOUSTIC_SIGNALS_PRIORITY, TSYSTEM_PRIORITY
Priority == [t \in Threads |-> CASE t = "Task3" -> 4 [] t = "Task4" -> 6 [] t = "TSystem" -> 10]

\* rt_schedule does nothing while the current thread has preemptableFlag == 1, not
\* even when that thread has just suspended itself.
Running(t) ==
    /\ halted = "no" /\ stat[t] # "close"
    /\ nonpreempt => t = "TSystem"
    /\ ~nonpreempt => /\ stat[t] = "ready"
                      /\ \A u \in Threads : prio[u] < prio[t] => stat[u] # "ready"

Goto(t, from, to) ==
    /\ Running(t) /\ pc[t] = from
    /\ pc' = [pc EXCEPT ![t] = to]

\* rt_event_send(&event_resources, f): a waiting Task4 receives f at once and the
\* flag is cleared again, otherwise the flag is kept.
event_send(f) ==
    IF stat["Task4"] = "suspend"
    THEN /\ stat' = [stat EXCEPT !["Task4"] = "ready"]
         /\ e' = {f}
         /\ UNCHANGED resources
    ELSE resources' = resources \cup {f} /\ UNCHANGED <<stat, e>>

\* rt_mb_send on mb2_3: -RT_EFULL when full, which Task3 ignores.
mb_send == mb2_3' = IF mb2_3 < MailCap THEN mb2_3 + 1 ELSE mb2_3

\* Mutant: the signal is recorded, TSystem gets no handler frame.
kill_TSystem_no_frame == sig_pending' = TRUE /\ UNCHANGED <<sig_entry, stat>>

\* rt_thread_kill(&Tsystem, SIGUSR2): a signal that is not pending yet is delivered;
\* a TSystem asleep on battMutex is resumed and leaves the waiting list.
kill_TSystem ==
    /\ sig_pending' = TRUE
    /\ IF sig_pending \/ ~sig_mask
       THEN UNCHANGED <<sig_entry, stat>>
       ELSE /\ sig_entry' = TRUE
            /\ stat' = IF stat["TSystem"] = "suspend"
                       THEN [stat EXCEPT !["TSystem"] = "ready"] ELSE stat

\* rt_thread_control(t, RT_THREAD_CTRL_CHANGE_PRIORITY, b) on a thread of the ready
\* table (queued), or on the running one.
change_priority(t, b, queued) ==
    /\ prio' = [prio EXCEPT ![t] = b]
    /\ halted' = IF queued /\ b >= 32 THEN "table" ELSE halted

\* rt_mutex_take by t of the mutex its owner keeps: a less urgent owner, which is
\* ready, gets the address of t's priority.
Inherit(t) ==
    IF prio[t] < prio[owner]
    THEN change_priority(owner, byte[t], TRUE)
    ELSE UNCHANGED <<prio, halted>>

\* Mutant: the owner keeps the priority it has inherited.
Restore_forgotten(t) == UNCHANGED <<prio, halted>>

\* The end of rt_mutex_release by t: a priority that has changed is replaced by the
\* address of the original one.  t is running; it is put into the ready table when
\* the new owner preempts it.
Restore(t) ==
    IF original # prio[t]
    THEN change_priority(t, byte["mutex"], ~nonpreempt)
    ELSE UNCHANGED <<prio, halted>>

\* The first thread that waits, resumed as the owner; otherwise the mutex is free.
HandOver(t, waits) ==
    IF waits
    THEN /\ owner' = t /\ original' = prio[t]
         /\ stat' = [stat EXCEPT ![t] = "ready"]
    ELSE owner' = "none" /\ original' = 255 /\ UNCHANGED stat

-----------------------------------------------------------------------------
(* Task3, check_resources_entry *)

\* timeout_check_resources: the timer's rt_event_send to Task3.  Every timer of
\* the application is stopped before the tasks are closed.
timeout_check_resources ==
    /\ halted = "no" /\ stat["Task3"] # "close" /\ crowd < Slack
    /\ IF stat["Task3"] = "suspend" /\ pc["Task3"] = "return"
       THEN stat' = [stat EXCEPT !["Task3"] = "ready"] /\ UNCHANGED activation
       ELSE activation' = TRUE /\ UNCHANGED stat
    /\ crowd' = crowd + 1
    /\ UNCHANGED <<pc, resources, e, speaker, mutex, nonpreempt, signals, turnOffFlag, machine,
                   levels, mb2_3, window, task2>>

T3_recv ==
    /\ Goto("Task3", "recv", "return")
    /\ activation' = FALSE
    /\ stat' = IF activation THEN stat ELSE [stat EXCEPT !["Task3"] = "suspend"]
    /\ UNCHANGED <<resources, e, speaker, mutex, nonpreempt, signals, turnOffFlag, machine, levels,
                   mb2_3, window, task2, crowd>>

T3_return ==
    /\ Goto("Task3", "return", "take")
    /\ UNCHANGED <<stat, events, mutex, nonpreempt, signals, turnOffFlag, machine, levels, mb2_3,
                   window, task2, crowd>>

\* Mutant: mutex->value is not tested.
T3_take_barging ==
    /\ Goto("Task3", "take", "check")
    /\ owner' = "Task3" /\ original' = prio["Task3"]
    /\ UNCHANGED <<prio, stat, events, nonpreempt, signals, turnOffFlag, machine, levels, mb2_3,
                   window, task2, crowd>>

\* rt_mutex_take.  Task3 goes on at "check" when it owns the mutex: at once, or
\* after the release of TSystem has made it the owner.
T3_take ==
    /\ Goto("Task3", "take", "check")
    /\ \/ /\ owner = "none"
          /\ owner' = "Task3" /\ original' = prio["Task3"]
          /\ UNCHANGED <<prio, halted, stat>>
       \/ /\ owner # "none"
          /\ Inherit("Task3")
          /\ stat' = [stat EXCEPT !["Task3"] = "suspend"]
          /\ UNCHANGED <<owner, original>>
    /\ UNCHANGED <<events, nonpreempt, signals, turnOffFlag, byte, interrupted, levels,
                   mb2_3, window, task2, crowd>>

\* CASE B and CASE C; they differ only in the text of the mail.
BatteryLow ==
    \/ batteryStatus > 0 /\ batteryStatus <= DISCHARGE
    \/ batteryStatus > DISCHARGE /\ batteryStatus <= DISCHARGE_THRESHOLD

\* batteryStatus is unsigned: CASE A is the value 0.
T3_check ==
    /\ Goto("Task3", "check", IF batteryStatus = 0 THEN "kill"
                               ELSE IF BatteryLow THEN "warn" ELSE "release")
    /\ UNCHANGED <<stat, events, mutex, nonpreempt, signals, turnOffFlag, machine, levels, mb2_3,
                   window, task2, crowd>>

T3_kill ==
    /\ Goto("Task3", "kill", "release")
    /\ kill_TSystem
    /\ UNCHANGED <<events, mutex, nonpreempt, sig_mask, turnOffFlag, machine, levels, mb2_3,
                   window, task2, crowd>>

T3_warn ==
    /\ Goto("Task3", "warn", "mail")
    /\ event_send("battery")
    /\ UNCHANGED <<activation, speaker, mutex, nonpreempt, signals, turnOffFlag, machine, levels,
                   mb2_3, window, task2, crowd>>

T3_mail ==
    /\ Goto("Task3", "mail", "release")
    /\ mb_send
    /\ UNCHANGED <<stat, events, mutex, nonpreempt, signals, turnOffFlag, machine, levels, window,
                   task2, crowd>>

\* rt_mutex_release
T3_release ==
    /\ Goto("Task3", "release", "bag")
    /\ Restore("Task3")
    /\ HandOver("TSystem", stat["TSystem"] = "suspend")
    /\ UNCHANGED <<events, nonpreempt, signals, turnOffFlag, byte, interrupted, levels,
                   mb2_3, window, task2, crowd>>

\* rt_device_read of the garbage bag and the test == FULL.
T3_bag ==
    /\ Goto("Task3", "bag", IF garbage = FULL THEN "warn2" ELSE "spin")
    /\ UNCHANGED <<stat, events, mutex, nonpreempt, signals, turnOffFlag, machine, levels, mb2_3,
                   window, task2, crowd>>

T3_warn2 ==
    /\ Goto("Task3", "warn2", "mail2")
    /\ event_send("garbage")
    /\ UNCHANGED <<activation, speaker, mutex, nonpreempt, signals, turnOffFlag, machine, levels,
                   mb2_3, window, task2, crowd>>

T3_mail2 ==
    /\ Goto("Task3", "mail2", "spin")
    /\ mb_send
    /\ UNCHANGED <<stat, events, mutex, nonpreempt, signals, turnOffFlag, machine, levels, window,
                   task2, crowd>>

T3_spin ==
    /\ Goto("Task3", "spin", "recv")
    /\ UNCHANGED <<stat, events, mutex, nonpreempt, signals, turnOffFlag, machine, levels, mb2_3,
                   window, task2, crowd>>

check_resources ==
    \/ T3_recv \/ T3_return \/ T3_take \/ T3_check \/ T3_kill \/ T3_warn \/ T3_mail
    \/ T3_release \/ T3_bag \/ T3_warn2 \/ T3_mail2 \/ T3_spin

-----------------------------------------------------------------------------
(* Task4, acoustic_signals_entry *)

\* rt_event_recv(EVENT_FLAG1 | EVENT_FLAG2, OR | CLEAR, forever)
T4_recv ==
    /\ Goto("Task4", "recv", "return")
    /\ IF resources # {}
       THEN e' = resources /\ resources' = {} /\ UNCHANGED stat
       ELSE stat' = [stat EXCEPT !["Task4"] = "suspend"] /\ UNCHANGED <<e, resources>>
    /\ UNCHANGED <<activation, speaker, mutex, nonpreempt, signals, turnOffFlag, machine, levels,
                   mb2_3, window, task2, crowd>>

\* e == 0x2 and e == 0x4 sound an alarm, 0x6 does not; e is not read again.
T4_alarm ==
    /\ Goto("Task4", "return", "spin")
    /\ speaker' = IF e \in {{"battery"}, {"garbage"}} THEN e ELSE {}
    /\ e' = {}
    /\ UNCHANGED <<stat, activation, resources, mutex, nonpreempt, signals, turnOffFlag,
                   machine, levels, mb2_3, window, task2, crowd>>

T4_spin ==
    /\ Goto("Task4", "spin", "recv")
    /\ speaker' = {}
    /\ UNCHANGED <<stat, activation, resources, e, mutex, nonpreempt, signals, turnOffFlag,
                   machine, levels, mb2_3, window, task2, crowd>>

acoustic_signals == T4_recv \/ T4_alarm \/ T4_spin

-----------------------------------------------------------------------------
(* TSystem, Tsystem_task_entry and its signal handler *)

TSystemAt(from, to) == ~sig_entry /\ Goto("TSystem", from, to)

\* Mutant: the highest priority, but not the preemptableFlag.
turnOffSystem_preemptable ==
    /\ Running("TSystem") /\ sig_entry /\ sig_pending /\ sig_mask
    /\ sig_pending' = FALSE /\ sig_entry' = FALSE /\ sig_mask' = FALSE
    /\ prio' = [prio EXCEPT !["TSystem"] = 0]
    /\ turnOffFlag' = TRUE /\ interrupted' = TRUE
    /\ UNCHANGED <<stat, pc, events, owner, original, nonpreempt, byte, halted, levels, mb2_3,
                   window, task2, crowd>>

\* turnOffSystem, run by rt_thread_handle_sig before TSystem's next statement; the
\* latter sets thread->error.
turnOffSystem ==
    /\ Running("TSystem") /\ sig_entry /\ sig_pending /\ sig_mask
    /\ sig_pending' = FALSE /\ sig_entry' = FALSE /\ sig_mask' = FALSE
    /\ prio' = [prio EXCEPT !["TSystem"] = 0] /\ nonpreempt' = TRUE
    /\ turnOffFlag' = TRUE /\ interrupted' = TRUE
    /\ UNCHANGED <<stat, pc, events, owner, original, byte, halted, levels, mb2_3, window,
                   task2, crowd>>

\* One turn of the loop with nothing to do.
Sys_idle ==
    /\ TSystemAt("loop", "loop")
    /\ ~turnOffFlag /\ ~window
    /\ crowd' = 0
    /\ UNCHANGED <<stat, events, mutex, nonpreempt, signals, turnOffFlag, machine, levels, mb2_3,
                   window, task2>>

\* curr_time % 900 == 0 for one tick; the loop comes here again and again in it.
Sys_due ==
    /\ TSystemAt("loop", "take")
    /\ ~turnOffFlag /\ window
    /\ crowd' = 0
    /\ UNCHANGED <<stat, events, mutex, nonpreempt, signals, turnOffFlag, machine, levels, mb2_3,
                   window, task2>>

\* What rt_mutex_take does with a free mutex, and with one that is taken.
Grab ==
    /\ owner = "none"
    /\ owner' = "TSystem" /\ original' = prio["TSystem"]
    /\ UNCHANGED <<stat, prio, halted>>

Sleep ==
    /\ owner # "none"
    /\ Inherit("TSystem")
    /\ stat' = [stat EXCEPT !["TSystem"] = "suspend"]
    /\ UNCHANGED <<owner, original>>

\* rt_mutex_take up to its rt_schedule ...
Sys_take ==
    /\ interrupted' = FALSE
    /\ \/ TSystemAt("take", "dec") /\ Grab
       \/ TSystemAt("take", "wait") /\ Sleep
    /\ UNCHANGED <<events, nonpreempt, signals, turnOffFlag, byte, levels, mb2_3, window,
                   task2, crowd>>

\* ... and behind it: TSystem has been given the mutex, or rt_schedule has not
\* switched at all because TSystem is not preemptable ...
Sys_taken ==
    /\ TSystemAt("wait", "dec") /\ ~interrupted
    /\ UNCHANGED <<stat, events, mutex, nonpreempt, signals, turnOffFlag, machine, levels,
                   mb2_3, window, task2, crowd>>

\* ... or turnOffSystem has run: goto __again, with TSystem not preemptable and
\* thread->error as it is.
Sys_again ==
    /\ interrupted
    /\ \/ TSystemAt("wait", "dec") /\ Grab
       \/ TSystemAt("wait", "wait") /\ Sleep
    /\ UNCHANGED <<events, nonpreempt, signals, turnOffFlag, byte, interrupted, levels, mb2_3,
                   window, task2, crowd>>

\* batteryStatus -= DEC_VALUE, in uint32_t arithmetic.
Sys_dec ==
    /\ TSystemAt("dec", "release")
    /\ batteryStatus' = (batteryStatus - DEC_VALUE) % Word
    /\ UNCHANGED <<stat, events, mutex, nonpreempt, signals, turnOffFlag, machine, garbage, mb2_3,
                   window, task2, crowd>>

Waiting == stat["Task3"] = "suspend" /\ pc["Task3"] = "check"

\* Mutant: the mutex is freed and the waiting Task3 is left asleep.
Sys_release_no_resume ==
    /\ TSystemAt("release", "loop") /\ owner = "TSystem"
    /\ Restore("TSystem")
    /\ HandOver("Task3", FALSE)
    /\ UNCHANGED <<events, nonpreempt, signals, turnOffFlag, byte, interrupted, levels, mb2_3,
                   window, task2, crowd>>

\* rt_mutex_release: refused unless TSystem is the owner.
Sys_release ==
    /\ TSystemAt("release", "loop")
    /\ IF owner = "TSystem"
       THEN Restore("TSystem") /\ HandOver("Task3", Waiting)
       ELSE UNCHANGED <<mutex, stat, halted>>
    /\ UNCHANGED <<events, nonpreempt, signals, turnOffFlag, byte, interrupted, levels, mb2_3,
                   window, task2, crowd>>

\* closeAllTasks: the timers are stopped and every other task is detached.  The
\* signal bits in the state of a Task2 that has ended and was signalled make
\* closeTask detach it again: its object is gone, an assertion of rt_thread_detach
\* fails before Task3 and Task4 are reached.
closeAllTasks ==
    /\ turnOffFlag
    /\ IF task2 = "signalled"
       THEN /\ TSystemAt("loop", "loop")
            /\ halted' = "assert"
            /\ UNCHANGED <<stat, task2>>
       ELSE /\ TSystemAt("loop", "off")
            /\ stat' = [stat EXCEPT !["Task3"] = "close", !["Task4"] = "close"]
            /\ task2' = "closed"
            /\ UNCHANGED halted
    /\ UNCHANGED <<events, mutex, nonpreempt, signals, turnOffFlag, byte, interrupted, levels,
                   mb2_3, window, crowd>>

\* set_task_as_preemptable, then the entry function returns.  A tick between the two
\* takes the CPU for good from a TSystem that is marked as suspended.
Sys_off ==
    /\ TSystemAt("off", "exit")
    /\ prio' = [prio EXCEPT !["TSystem"] = 10] /\ nonpreempt' = FALSE
    /\ stat' \in {[stat EXCEPT !["TSystem"] = "close"]} \cup
                 (IF stat["TSystem"] = "suspend" THEN {stat} ELSE {})
    /\ UNCHANGED <<events, owner, original, signals, turnOffFlag, machine, levels, mb2_3,
                   window, task2, crowd>>

TSystem ==
    \/ turnOffSystem \/ Sys_idle \/ Sys_due \/ Sys_take \/ Sys_taken \/ Sys_again
    \/ Sys_dec \/ Sys_release \/ closeAllTasks \/ Sys_off

-----------------------------------------------------------------------------
(* Environment: the clock, and Task2, which outranks the threads above *)

\* The tick in which curr_time % 900 == 0 begins or ends.
Clock ==
    /\ halted = "no" /\ stat["TSystem"] # "close"
    /\ window' = ~window
    /\ UNCHANGED <<stat, pc, events, mutex, nonpreempt, signals, turnOffFlag, machine, levels,
                   mb2_3, task2, crowd>>

\* A task that is not modelled here has the CPU.
Preempts(p) ==
    halted = "no" /\ ~nonpreempt /\ \A t \in Threads : stat[t] = "ready" => p <= prio[t]

Task2Runs == Preempts(3) /\ task2 \in {"cleaning", "returning"}

T2_cleans ==
    /\ Task2Runs /\ garbage < MaxGarbage
    /\ garbage' = garbage + 1
    /\ UNCHANGED <<stat, pc, events, mutex, nonpreempt, signals, turnOffFlag, machine,
                   batteryStatus, mb2_3, window, task2, crowd>>

T2_takes_mail ==
    /\ Task2Runs /\ mb2_3 > 0
    /\ mb2_3' = mb2_3 - 1 /\ task2' = "returning"
    /\ UNCHANGED <<stat, pc, events, mutex, nonpreempt, signals, turnOffFlag, machine, levels,
                   window, crowd>>

T2_home ==
    /\ Task2Runs /\ task2 = "returning"
    /\ kill_TSystem
    /\ task2' = "home"
    /\ UNCHANGED <<pc, events, mutex, nonpreempt, sig_mask, turnOffFlag, machine, levels, mb2_3,
                   window, crowd>>

T2_stuck ==
    /\ Task2Runs /\ task2' = "stuck"
    /\ UNCHANGED <<stat, pc, events, mutex, nonpreempt, signals, turnOffFlag, machine, levels,
                   mb2_3, window, crowd>>

\* Task1 finds an obstacle and signals Task2, which has ended as stuck.
T1_signals ==
    /\ Preempts(2) /\ task2 = "stuck" /\ task2' = "signalled"
    /\ UNCHANGED <<stat, pc, events, mutex, nonpreempt, signals, turnOffFlag, machine, levels,
                   mb2_3, window, crowd>>

Environment == Clock \/ T2_cleans \/ T2_takes_mail \/ T2_home \/ T2_stuck \/ T1_signals

-----------------------------------------------------------------------------
Init ==
    /\ stat = [t \in Threads |-> IF t = "TSystem" THEN "ready" ELSE "suspend"]
    /\ pc = [t \in Threads |-> IF t = "TSystem" THEN "loop" ELSE "return"]
    /\ activation = FALSE /\ resources = {} /\ e = {} /\ speaker = {}
    /\ owner = "none" /\ original = 255 /\ prio = Priority /\ nonpreempt = FALSE
    /\ byte \in Links /\ interrupted = FALSE /\ halted = "no"
    /\ sig_pending = FALSE /\ sig_mask = TRUE /\ sig_entry = FALSE
    /\ turnOffFlag = FALSE
    /\ batteryStatus = CHARGE /\ garbage = 0 /\ mb2_3 = 0
    /\ window = FALSE /\ task2 = "cleaning" /\ crowd = 0

Next == timeout_check_resources \/ check_resources \/ acoustic_signals \/ TSystem \/ Environment

Spec == Init /\ [][Next]_vars

\* The tick interrupt keeps firing Task3's timer and the thread that has the CPU
\* keeps executing.
Fairness ==
    /\ WF_vars(timeout_check_resources) /\ WF_vars(check_resources)
    /\ WF_vars(acoustic_signals) /\ WF_vars(TSystem)

FairSpec == Spec /\ Fairness
-----------------------------------------------------------------------------
(* Properties *)

TypeThreads ==
    /\ stat \in [Threads -> {"ready", "suspend", "close"}]
    /\ pc \in [Threads -> {"recv", "return", "take", "check", "kill", "warn", "mail",
                           "release", "bag", "warn2", "mail2", "spin", "loop", "wait",
                           "dec", "off", "exit"}]
    /\ prio \in [Threads -> 0 .. 255] /\ byte \in Links
    /\ halted \in {"no", "assert", "table"}

TypeFlags ==
    /\ nonpreempt \in BOOLEAN /\ activation \in BOOLEAN /\ turnOffFlag \in BOOLEAN
    /\ sig_pending \in BOOLEAN /\ sig_mask \in BOOLEAN /\ sig_entry \in BOOLEAN
    /\ window \in BOOLEAN /\ interrupted \in BOOLEAN

TypeKernel ==
    /\ resources \subseteq {"battery", "garbage"} /\ e \subseteq {"battery", "garbage"}
    /\ speaker \subseteq {"battery", "garbage"}
    /\ owner \in {"none", "Task3", "TSystem"} /\ original \in 0 .. 255

TypeEnvironment ==
    /\ batteryStatus \in 0 .. Word - 1 /\ garbage \in 0 .. MaxGarbage
    /\ mb2_3 \in 0 .. MailCap
    /\ task2 \in {"cleaning", "returning", "home", "stuck", "signalled", "closed"}
    /\ crowd \in 0 .. Slack

\* Every variable keeps its type; in particular batteryStatus stays a uint32_t.
TypeOK == TypeThreads /\ TypeFlags /\ TypeKernel /\ TypeEnvironment

\* The statements between rt_mutex_take and rt_mutex_release.  Task3 asleep at
\* "check" is still inside rt_mutex_take.
InSection(t) ==
    \/ t = "Task3" /\ pc[t] \in {"check", "kill", "warn", "mail", "release"} /\ ~Waiting
    \/ t = "TSystem" /\ pc[t] \in {"dec", "release"}

\* The byte that a contended release stores leaves TSystem less urgent than Task3.
Demoted == byte["mutex"] > 4

\* battMutex protects the battery: whoever is between take and release owns it (so
\* never both), through contention, hand-over and power-off and whatever the bytes
\* are.  The one exception needs a byte that keeps TSystem as urgent as Task3: then
\* the power-off can find TSystem in front of a taken mutex, and a thread that is
\* not preemptable does not wait there.
MutexExclusive ==
    \A t \in {"Task3", "TSystem"} :
        InSection(t) => owner = t \/ (t = "TSystem" /\ turnOffFlag /\ ~Demoted)

\* TSystem never sleeps on battMutex, so that SIGUSR2 never finds it there (it would
\* retry for ever, see Sys_again), unless a contended release has stored a byte of
\* at most Task3's priority: otherwise Task3 outranks TSystem whenever TSystem does
\* not hold the mutex, whatever priority it inherits, and does not block while it
\* holds the mutex.
TSystemNeverBlocks == Demoted => stat["TSystem"] # "suspend"

\* No lost wake-up, whatever the bytes are: Task3 sleeps on its event only while the
\* bit is clear and on battMutex only while TSystem holds it, Task4 only while no
\* alarm is due, TSystem before the power-off only while Task3 holds the mutex.
NoLostWakeup ==
    /\ stat["Task3"] = "suspend" =>
          \/ pc["Task3"] = "return" /\ ~activation
          \/ pc["Task3"] = "check" /\ owner = "TSystem"
    /\ stat["Task4"] = "suspend" => pc["Task4"] = "return" /\ resources = {}
    /\ stat["TSystem"] = "suspend" /\ ~turnOffFlag => pc["TSystem"] = "wait" /\ owner = "Task3"

\* From turnOffSystem on nobody but TSystem executes: no task runs while it is
\* being closed.  Priority 0 alone would not do: TSystem may hold battMutex when
\* the signal arrives, and the release changes its priority again.
QuietShutdown ==
    [][turnOffFlag => pc'["Task3"] = pc["Task3"] /\ pc'["Task4"] = pc["Task4"]]_vars

\* Once SIGUSR2 has been sent to TSystem, the system is turned off: all tasks are
\* closed and TSystem has left its loop.  Three things can stop that, each for its
\* own reason only: the assertion of rt_thread_detach, if Task2 had ended as stuck
\* and was signalled afterwards; a byte outside the ready table; and a TSystem that
\* was asleep on battMutex, or about to be, for want of Demoted.
ShutdownCompletes ==
    sig_pending ~> \/ \A t \in Threads : stat[t] = "close"
                   \/ halted = "assert" /\ task2 = "signalled"
                   \/ halted = "table" /\ \E a \in DOMAIN byte : byte[a] >= 32
                   \/ ~Demoted /\ turnOffFlag /\ stat["TSystem"] = "suspend"

-----------------------------------------------------------------------------
(* What the documents of the repository say and the code does not *)

\* "If the battery is TOTALLY LOW, it sends a soft interrupt to the internal system
\* to force the turning off" (implementation.md).
EmptyBatteryTurnsOff == batteryStatus = 0 ~> turnOffFlag
=============================================================================
