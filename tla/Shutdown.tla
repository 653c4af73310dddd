------------------------------ MODULE Shutdown ------------------------------
(***************************************************************************)
(* The life cycle of the threads and the closing of the system: the ready  *)
(* table and rt_schedule, suspension and resumption, _thread_exit,         *)
(* rt_thread_kill, and closeAllTasks of applications/tasks.c with the      *)
(* rt_thread_detach it calls (rt-thread/src/thread.c), which the tick      *)
(* interrupt can interrupt between its critical sections.                  *)
(*                                                                         *)
(* A task is any thread that loops over rt_event_recv; while it has the    *)
(* CPU it may wake and signal the tasks the source lets it wake and        *)
(* signal, sleep, or return from its entry function.  What the jobs        *)
(* compute is in Movement, Power and Brushes, and so is the SIGUSR2 that   *)
(* starts the closing: here it may arrive whenever TSystem runs.           *)
(***************************************************************************)
EXTENDS Integers, Sequences, FiniteSets

CONSTANTS
    Tasks,       \* the threads closeAllTasks closes
    Priority,    \* of every thread, the smaller the more urgent
    Order,       \* the order in which closeAllTasks closes the tasks
    Timers,      \* the tasks with an activation timer, in the order of rt_timer_stop
    Sends,       \* pairs <<t, u>>: t sends u an event
    Kills,       \* pairs <<t, u>>: t sends u a signal, which u has unmasked
    Enders,      \* tasks whose entry function returns
    Sleepers     \* tasks that also wait with a time-out (none in the application)

Threads == Tasks \cup {"TSystem", "idle"}
Elements(s) == {s[i] : i \in DOMAIN s}

ASSUME ShutdownAssumption ==
    /\ "TSystem" \notin Tasks /\ "idle" \notin Tasks
    /\ Priority \in [Threads -> Nat]
    /\ \A t, u \in Threads : Priority[t] = Priority[u] => t = u
    /\ \A t \in Tasks : Priority[t] < Priority["TSystem"]
    /\ Priority["TSystem"] < Priority["idle"]
    /\ Order \in Seq(Tasks) /\ Elements(Order) = Tasks
    /\ \A i, j \in DOMAIN Order : Order[i] = Order[j] => i = j
    /\ Timers \in Seq(Tasks) /\ Timers # << >>
    /\ Sends \subseteq {p \in Tasks \X Tasks : p[1] # p[2]}
    /\ Kills \subseteq {p \in Tasks \X Tasks : p[1] # p[2]}
    /\ Enders \subseteq Tasks /\ Sleepers \subseteq Tasks

VARIABLES
    stat,        \* thread->stat & RT_THREAD_STAT_MASK
    signalled,   \* threads with RT_THREAD_STAT_SIGNAL in thread->stat
    object,      \* threads whose object type is RT_Object_Class_Thread
    ready,       \* threads linked into rt_thread_priority_table
    waiting,     \* tasks linked into the suspend list of an event
    event,       \* tasks whose event flag is set
    sleeping,    \* tasks whose thread_timer is active
    active,      \* tasks whose activation timer is active
    current,     \* rt_current_thread
    nonpreempt,  \* TSystem's preemptableFlag is 1
    pc, k        \* where TSystem is, and its index into Timers or Order

lists == <<ready, waiting, event, sleeping>>
closing == <<nonpreempt, pc, k>>
vars == <<stat, signalled, object, lists, active, current, closing>>

-----------------------------------------------------------------------------
(* The scheduler and the interrupts *)

MostUrgent(h, q) == h \in q /\ \A u \in q : Priority[h] <= Priority[u]

\* The current thread keeps the CPU.
Keeps(st, q, np) ==
    \/ np \/ q = {}
    \/ st[current] = "running" /\ \A u \in q : Priority[current] <= Priority[u]

\* Mutant: the thread switched to stays in the ready table.
switch_leaves(st, q, h) ==
    LET runs == st[current] = "running"
    IN  /\ stat' = [st EXCEPT ![h] = "running", ![current] = IF runs THEN "ready" ELSE @]
        /\ ready' = q \cup (IF runs THEN {current} ELSE {})
        /\ current' = h

\* A current thread that is only preempted goes into the ready table.
switch(st, q, h) ==
    LET runs == st[current] = "running"
    IN  /\ stat' = [st EXCEPT ![h] = "running", ![current] = IF runs THEN "ready" ELSE @]
        /\ ready' = (q \ {h}) \cup (IF runs THEN {current} ELSE {})
        /\ current' = h

\* rt_schedule in the state where the threads are st and the ready table is q; np:
\* the current thread's preemptableFlag is 1.
rt_schedule(st, q, np) ==
    \/ Keeps(st, q, np) /\ stat' = st /\ ready' = q /\ current' = current
    \/ ~Keeps(st, q, np) /\ \E h \in q : MostUrgent(h, q) /\ switch(st, q, h)

\* Mutant: the thread timer goes on.
rt_thread_resume_keeps_timer(u) ==
    /\ waiting' = waiting \ {u} /\ UNCHANGED sleeping
    /\ rt_schedule([stat EXCEPT ![u] = "ready"], ready \cup {u}, nonpreempt)

\* rt_thread_resume(u): off its list, its timer stopped, into the ready table.
rt_thread_resume(u) ==
    /\ waiting' = waiting \ {u} /\ sleeping' = sleeping \ {u}
    /\ rt_schedule([stat EXCEPT ![u] = "ready"], ready \cup {u}, nonpreempt)

\* rt_event_send to u: a u on the suspend list receives the flag, which is cleared
\* again; otherwise the flag is kept.
rt_event_send(u) ==
    /\ \/ u \in waiting /\ rt_thread_resume(u) /\ UNCHANGED event
       \/ /\ u \notin waiting /\ event' = event \cup {u}
          /\ UNCHANGED <<stat, ready, waiting, sleeping, current>>
    /\ UNCHANGED <<signalled, object, active, closing>>

\* The tick interrupt: the callback of an activation timer,
timeout_activation(u) == u \in active /\ rt_event_send(u)

\* or rt_thread_timeout, the callback of a thread timer.  The one-shot timer is off
\* the timer list when its callback runs.
rt_thread_timeout(u) ==
    /\ u \in sleeping /\ sleeping' = sleeping \ {u}
    /\ rt_schedule([stat EXCEPT ![u] = "ready"], ready \cup {u}, nonpreempt)
    /\ UNCHANGED <<signalled, object, waiting, event, active, closing>>

-----------------------------------------------------------------------------
(* A task that has the CPU; a pending signal is handled before anything else *)

\* What a detached thread does that gets the CPU again is left out.
Runs(t) == current = t /\ t \notin signalled /\ t \in object

\* rt_event_recv with RT_EVENT_FLAG_CLEAR, forever.
rt_event_recv(t) ==
    /\ Runs(t)
    /\ \/ /\ t \in event /\ event' = event \ {t}
          /\ UNCHANGED <<stat, ready, waiting, current>>
       \/ /\ t \notin event /\ waiting' = waiting \cup {t}
          /\ rt_schedule([stat EXCEPT ![t] = "suspend"], ready, nonpreempt)
          /\ UNCHANGED event
    /\ UNCHANGED <<signalled, object, sleeping, active, closing>>

rt_thread_sleep(t) ==
    /\ Runs(t) /\ t \in Sleepers
    /\ sleeping' = sleeping \cup {t}
    /\ rt_schedule([stat EXCEPT ![t] = "suspend"], ready, nonpreempt)
    /\ UNCHANGED <<signalled, object, waiting, event, active, closing>>

Task_sends(t, u) == Runs(t) /\ rt_event_send(u)

\* rt_thread_kill(u), _signal_deliver.  A suspended u is resumed; any other u gets a
\* handler frame and the bit in its state, a closed one too: rt_thread_free_sig
\* leaves sig_mask as it was.
rt_thread_kill(t, u) ==
    /\ Runs(t)
    /\ signalled' = signalled \cup {u}
    /\ \/ stat[u] = "suspend" /\ rt_thread_resume(u)
       \/ stat[u] # "suspend" /\ UNCHANGED <<stat, ready, waiting, sleeping, current>>
    /\ UNCHANGED <<object, event, active, closing>>

\* rt_thread_handle_sig clears the bit once the handlers have run.
rt_thread_handle_sig(t) ==
    /\ current = t /\ t \in signalled
    /\ signalled' = signalled \ {t}
    /\ UNCHANGED <<stat, object, lists, active, current, closing>>

\* _thread_exit, when the entry function returns.
thread_exit(t) ==
    /\ Runs(t) /\ t \in Enders
    /\ object' = object \ {t}
    /\ rt_schedule([stat EXCEPT ![t] = "close"], ready, nonpreempt)
    /\ UNCHANGED <<signalled, waiting, event, sleeping, active, closing>>

-----------------------------------------------------------------------------
(* TSystem: turnOffSystem and closeAllTasks *)

At(from) == current = "TSystem" /\ pc = from
Victim == Order[k]

\* The handler of SIGUSR2: from here on rt_schedule switches to nobody else.
turnOffSystem ==
    /\ At("loop") /\ pc' = "stop"
    /\ nonpreempt' = TRUE
    /\ UNCHANGED <<stat, signalled, object, lists, active, current, k>>

\* rt_timer_stop on the activation timers, one after the other.
stop_timer ==
    /\ At("stop") /\ active' = active \ {Timers[k]}
    /\ IF k < Len(Timers) THEN k' = k + 1 /\ pc' = pc ELSE k' = 1 /\ pc' = "close"
    /\ UNCHANGED <<stat, signalled, object, lists, current, nonpreempt>>

\* Go on with the next task, or with the timers after the last one.
NextVictim ==
    IF k < Len(Order) THEN k' = k + 1 /\ pc' = "close" ELSE k' = k /\ pc' = "timers"

\* Mutant: rt_thread_detach is called whatever the state.
IsClosed_never(t) == FALSE

\* closeTask compares the whole state byte with RT_THREAD_CLOSE.
IsClosed(t) == stat[t] = "close" /\ t \notin signalled

\* Mutant: a closed task is not passed over.
closeTask_skip_stays ==
    /\ At("close") /\ IsClosed(Victim)
    /\ UNCHANGED vars

closeTask_skip ==
    /\ At("close") /\ IsClosed(Victim)
    /\ NextVictim
    /\ UNCHANGED <<stat, signalled, object, lists, active, current, nonpreempt>>

\* RT_ASSERT in rt_thread_detach: the object is not a thread any more.
detach_assert ==
    /\ At("close") /\ ~IsClosed(Victim) /\ Victim \notin object
    /\ pc' = "halted"
    /\ UNCHANGED <<stat, signalled, object, lists, active, current, nonpreempt, k>>

\* rt_schedule_remove_thread: off the list it is linked into, whichever that is.
detach_unlink ==
    /\ At("close") /\ ~IsClosed(Victim) /\ Victim \in object
    /\ ready' = ready \ {Victim} /\ waiting' = waiting \ {Victim}
    /\ pc' = "unlinked"
    /\ UNCHANGED <<stat, signalled, object, event, sleeping, active, current, nonpreempt, k>>

\* _thread_cleanup_execute and rt_timer_detach of the thread timer.
detach_timer ==
    /\ At("unlinked") /\ pc' = "untimed"
    /\ sleeping' = sleeping \ {Victim}
    /\ UNCHANGED <<stat, signalled, object, ready, waiting, event, active, current,
                   nonpreempt, k>>

\* Mutant: the last task is left out.
detach_close_early ==
    /\ At("untimed")
    /\ stat' = [stat EXCEPT ![Victim] = "close"]
    /\ signalled' = signalled \ {Victim} /\ object' = object \ {Victim}
    /\ IF k < Len(Order) - 1 THEN k' = k + 1 /\ pc' = "close" ELSE k' = k /\ pc' = "timers"
    /\ UNCHANGED <<lists, active, current, nonpreempt>>

\* stat = RT_THREAD_CLOSE, signal bits included, and rt_object_detach.
detach_close ==
    /\ At("untimed")
    /\ stat' = [stat EXCEPT ![Victim] = "close"]
    /\ signalled' = signalled \ {Victim} /\ object' = object \ {Victim}
    /\ NextVictim
    /\ UNCHANGED <<lists, active, current, nonpreempt>>

detach_timers ==
    /\ At("timers") /\ pc' = "off"
    /\ active' = {}
    /\ UNCHANGED <<stat, signalled, object, lists, current, nonpreempt, k>>

\* set_task_as_preemptable, and _thread_exit of TSystem itself.
Sys_off ==
    /\ At("off") /\ pc' = "exit"
    /\ nonpreempt' = FALSE
    /\ object' = object \ {"TSystem"}
    /\ rt_schedule([stat EXCEPT !["TSystem"] = "close"], ready, FALSE)
    /\ UNCHANGED <<signalled, waiting, event, sleeping, active, k>>

TSystem ==
    \/ turnOffSystem \/ stop_timer \/ closeTask_skip \/ detach_assert \/ detach_unlink
    \/ detach_timer \/ detach_close \/ detach_timers \/ Sys_off

-----------------------------------------------------------------------------
\* main has started the threads and every task waits for its event.
Init ==
    /\ stat = [t \in Threads |-> IF t = "TSystem" THEN "running"
                                 ELSE IF t = "idle" THEN "ready" ELSE "suspend"]
    /\ signalled = {} /\ object = Threads
    /\ ready = {"idle"} /\ waiting = Tasks /\ event = {} /\ sleeping = {}
    /\ active = Elements(Timers)
    /\ current = "TSystem" /\ nonpreempt = FALSE /\ pc = "loop" /\ k = 1

Tick == \E u \in Tasks : timeout_activation(u) \/ rt_thread_timeout(u)

Task(t) == rt_event_recv(t) \/ rt_thread_sleep(t) \/ rt_thread_handle_sig(t) \/ thread_exit(t)

Next ==
    \/ Tick
    \/ \E t \in Tasks : Task(t)
    \/ \E p \in Sends : Task_sends(p[1], p[2])
    \/ \E p \in Kills : rt_thread_kill(p[1], p[2])
    \/ TSystem

Spec == Init /\ [][Next]_vars

\* TSystem runs whenever the tick interrupt lets it.
FairSpec == Spec /\ WF_vars(TSystem)

-----------------------------------------------------------------------------
(* Properties *)

\* Type invariant; the walk over Order and over the timers never runs past their ends.
TypeOK ==
    /\ stat \in [Threads -> {"running", "ready", "suspend", "close"}]
    /\ signalled \subseteq Tasks /\ object \subseteq Threads
    /\ ready \subseteq Threads
    /\ waiting \subseteq Tasks /\ event \subseteq Tasks /\ sleeping \subseteq Tasks
    /\ active \subseteq Elements(Timers)
    /\ current \in Threads /\ nonpreempt \in BOOLEAN
    /\ pc \in {"loop", "stop", "close", "unlinked", "untimed", "timers", "off", "exit",
               "halted"}
    /\ k \in 1 .. IF pc = "stop" THEN Len(Timers) ELSE IF pc = "loop" THEN 1 ELSE Len(Order)

\* rt_thread_detach has unlinked t and not yet marked it closed.
InDetach(t) == pc \in {"unlinked", "untimed"} /\ t = Victim

\* The threads that only ever wait without a time-out.
Plain == Threads \ Sleepers

\* The state byte of a thread and the list it is linked into agree: the ready table
\* holds exactly the ready threads and the suspend lists the suspended ones, except
\* for the thread rt_thread_detach is taking apart, which is on no list.  A thread
\* on the wrong list would run when it must not, or never again.
ListsMatchState ==
    \A t \in Plain :
        /\ t \in ready <=> stat[t] = "ready" /\ ~InDetach(t)
        /\ t \in waiting <=> stat[t] = "suspend" /\ ~InDetach(t)
        /\ stat[t] = "running" <=> t = current

\* The assertions of rt_thread_timeout hold whenever the tick interrupt calls it: a
\* thread whose timer runs is suspended and still a thread object.
TimeoutFindsSleeper == \A t \in sleeping : stat[t] = "suspend" /\ t \in object

\* When TSystem has switched the system off, every task is closed, out of the object
\* list and on no list, and no activation timer is left that could wake one.
OffMeansClosed ==
    pc \in {"off", "exit"} =>
        /\ \A t \in Tasks \cap Plain : stat[t] = "close"
        /\ Tasks \cap (object \cup waiting \cup sleeping) = {}
        /\ Tasks \cap Plain \cap ready = {}
        /\ active = {}

\* The one way the closing can stop half-way: the assertion of rt_thread_detach fails
\* for a task that ended by itself and was sent a signal afterwards.
HaltsOnlyOnLateSignal ==
    pc = "halted" => Victim \in Enders \cap signalled /\ stat[Victim] = "close"

\* The closing ends, by switching the system off or in the assertion, whatever the
\* interrupts do meanwhile.
ClosingEnds == pc = "stop" ~> pc \in {"exit", "halted"}

=============================================================================
