--------------------------- MODULE ShutdownProofs ---------------------------
(***************************************************************************)
(* Proofs about Shutdown, for every set of tasks, every assignment of      *)
(* priorities, every order of closing and whoever wakes, signals, ends and *)
(* sleeps.                                                                 *)
(*                                                                         *)
(* A task that waits with a time-out is the hard case: its thread timer    *)
(* may fire between the critical sections of rt_thread_detach, which puts  *)
(* a thread back into the ready table that is closed all the same.  The    *)
(* invariant says how far this damage reaches: no thread is affected that  *)
(* has no time-out, and nothing runs until TSystem has ended.              *)
(***************************************************************************)
EXTENDS Shutdown, TLAPS

\* The threads st, the ready table q, the suspend lists w and the thread timers s
\* agree, except for the thread that rt_thread_detach is taking apart, and for closed
\* sleepers that their timer has put back into the ready table.
Linked(st, q, w, s) ==
    /\ \A t \in Threads : st[t] = "ready" /\ ~InDetach(t) => t \in q
    /\ \A t \in q : \/ st[t] = "ready" /\ (t \in Sleepers \/ ~InDetach(t))
                    \/ st[t] = "close" /\ t \in Sleepers /\ nonpreempt
    /\ \A t \in Threads : st[t] = "suspend" /\ ~InDetach(t) => t \in w \cup s
    /\ \A t \in w \cup s : st[t] = "suspend"
    /\ \A t \in w : t \notin s /\ ~InDetach(t)

\* Until TSystem has ended, exactly the current thread is running.
Lists ==
    pc # "exit" => /\ Linked(stat, ready, waiting, sleeping)
                   /\ \A t \in Threads : stat[t] = "running" <=> t = current

\* The thread objects are the threads that are not closed.
ObjectsOpen ==
    \A t \in Threads :
        /\ t \in object => stat[t] # "close"
        /\ t \notin object => stat[t] = "close" \/ (pc = "exit" /\ t \in Sleepers)

\* While TSystem closes the tasks it keeps the CPU.
TSystemAlone ==
    /\ nonpreempt <=> pc \notin {"loop", "exit"}
    /\ nonpreempt => current = "TSystem"
    /\ pc # "exit" => stat["TSystem"] # "close"
    /\ stat["idle"] # "close"

\* closeAllTasks has closed the tasks before the current one; of the others only a
\* task that ended by itself is closed.
Progress ==
    /\ \A i \in DOMAIN Order :
          \/ pc \in {"close", "unlinked", "untimed"} /\ i < k
          \/ pc \in {"timers", "off", "exit"}
          => Order[i] \notin object
    /\ \A i \in DOMAIN Order :
          \/ pc \in {"loop", "stop"}
          \/ pc \in {"close", "unlinked", "untimed", "halted"} /\ i >= k
          => Order[i] \in object \/ Order[i] \in Enders
    /\ pc \in {"unlinked", "untimed"} => Victim \in object
    /\ pc \in {"off", "exit"} => active = {}
    /\ pc = "halted" => Victim \notin object /\ Victim \in signalled

\* In rt_thread_detach the thread timer is gone before the thread is marked closed, and
\* when TSystem has ended no thread waits for anything.
Asleep ==
    /\ pc = "untimed" => Victim \notin sleeping
    /\ pc = "exit" => waiting = {} /\ sleeping = {}

\* TypeOK without the index.
Types ==
    /\ stat \in [Threads -> {"running", "ready", "suspend", "close"}]
    /\ signalled \subseteq Tasks /\ object \subseteq Threads
    /\ ready \subseteq Threads
    /\ waiting \subseteq Tasks /\ event \subseteq Tasks /\ sleeping \subseteq Sleepers
    /\ active \subseteq Elements(Timers)
    /\ current \in Threads

Control ==
    /\ nonpreempt \in BOOLEAN
    /\ pc \in {"loop", "stop", "close", "unlinked", "untimed", "timers", "off", "exit",
               "halted"}
    /\ k \in 1 .. IF pc = "stop" THEN Len(Timers) ELSE IF pc = "loop" THEN 1 ELSE Len(Order)

CloseInv ==
    /\ Types /\ Control /\ ListsMatchState /\ Lists /\ ObjectsOpen /\ TSystemAlone
    /\ Progress /\ Asleep

-----------------------------------------------------------------------------
LEMMA Constants ==
    /\ "TSystem" \in Threads /\ "idle" \in Threads /\ Tasks \subseteq Threads
    /\ "TSystem" \notin Tasks /\ "idle" \notin Tasks
    /\ Order \in Seq(Tasks) /\ Timers \in Seq(Tasks)
    /\ Len(Timers) \in Nat /\ Len(Timers) >= 1 /\ Len(Order) \in Nat
    /\ DOMAIN Order = 1 .. Len(Order) /\ DOMAIN Timers = 1 .. Len(Timers)
    /\ \A i \in DOMAIN Order : Order[i] \in Tasks
    /\ \A t \in Tasks : \E i \in DOMAIN Order : Order[i] = t
    /\ Enders \subseteq Tasks /\ Sleepers \subseteq Tasks
    /\ \A i \in DOMAIN Timers : Timers[i] \in Tasks
    /\ Len(Order) >= 1
<1>1. Timers \in Seq(Tasks) /\ Timers # << >> /\ Order \in Seq(Tasks)
  BY ShutdownAssumption
<1>2. Len(Timers) >= 1 /\ Timers[1] \in Tasks
  BY <1>1
<1>3. \A t \in Tasks : \E i \in DOMAIN Order : Order[i] = t
  BY ShutdownAssumption DEF Elements
<1>4. Len(Order) >= 1
  BY <1>1, <1>2, <1>3
<1> QED BY <1>1, <1>2, <1>3, <1>4, ShutdownAssumption DEF Threads

LEMMA VictimIs ==
    ASSUME CloseInv
    PROVE  /\ pc \notin {"loop", "stop"} => Victim \in Tasks
           /\ \A t \in Threads : InDetach(t) => nonpreempt /\ t \in Tasks /\ t # current
BY Constants DEF CloseInv, Control, InDetach, Victim, TSystemAlone

\* Exact lists are what ListsMatchState asks of the threads without a time-out.
LEMMA LinkedMatches ==
    ASSUME Types', Linked(stat, ready, waiting, sleeping)',
           \A t \in Threads : stat'[t] = "running" <=> t = current'
    PROVE  ListsMatchState'
BY DEF Types, Linked, ListsMatchState, Plain

\* rt_schedule, called with the threads st and the ready table q, changes neither who
\* is suspended nor who is closed, and leaves the lists and the threads linked.
LEMMA ScheduleKeeps ==
    ASSUME NEW st \in [Threads -> {"running", "ready", "suspend", "close"}],
           NEW q \in SUBSET Threads, NEW w \in SUBSET Threads, NEW s \in SUBSET Threads,
           Linked(st, q, w, s),
           \A t \in Threads : st[t] = "running" => t = current,
           current \in Threads,
           st[current] = "running" \/ (~nonpreempt /\ q # {}),
           \A t \in Threads : InDetach(t) => nonpreempt,
           rt_schedule(st, q, nonpreempt)
    PROVE  /\ stat' \in [Threads -> {"running", "ready", "suspend", "close"}]
           /\ ready' \subseteq Threads /\ current' \in Threads
           /\ Linked(stat', ready', w, s)
           /\ \A t \in Threads : stat'[t] = "running" <=> t = current'
           /\ \A t \in Threads : stat'[t] = "suspend" <=> st[t] = "suspend"
           /\ \A t \in Threads : stat'[t] = "close" <=> st[t] = "close"
           /\ nonpreempt => current' = current
<1>1. CASE Keeps(st, q, nonpreempt) /\ stat' = st /\ ready' = q /\ current' = current
  BY <1>1 DEF Keeps
<1>2. CASE ~Keeps(st, q, nonpreempt) /\ \E h \in q : MostUrgent(h, q) /\ switch(st, q, h)
  <2>1. PICK h \in q : switch(st, q, h)
    BY <1>2
  <2>2. /\ h \in Threads /\ st[h] = "ready" /\ ~nonpreempt
        /\ \A t \in Threads : ~InDetach(t) /\ (t \in q <=> st[t] = "ready")
    BY <1>2, <2>1 DEF Linked, Keeps
  <2>3. /\ stat' \in [Threads -> {"running", "ready", "suspend", "close"}]
        /\ current' = h /\ (h # current \/ st[current] # "running")
        /\ \A t \in Threads :
              stat'[t] = IF t = current /\ st[current] = "running" THEN "ready"
                         ELSE IF t = h THEN "running" ELSE st[t]
        /\ \A t \in Threads :
              t \in ready' <=> IF t = current /\ st[current] = "running" THEN TRUE
                               ELSE t \in q /\ t # h
        /\ ready' \subseteq Threads /\ current' = h
    <3>1. CASE st[current] = "running"
      <4>1. /\ stat' = [[st EXCEPT ![h] = "running"] EXCEPT ![current] = "ready"]
            /\ ready' = (q \ {h}) \cup {current} /\ current' = h /\ current # h
        BY <2>1, <2>2, <3>1 DEF switch
      <4> QED BY <2>2, <3>1, <4>1
    <3>2. CASE st[current] # "running"
      <4>1. ready' = q \ {h} /\ current' = h
        BY <2>1, <3>2 DEF switch
      <4>2. \A t \in Threads : stat'[t] = IF t = h THEN "running" ELSE st[t]
        BY <2>1, <2>2, <3>2 DEF switch
      <4>3. stat' \in [Threads -> {"running", "ready", "suspend", "close"}]
        BY <2>1, <2>2, <3>2 DEF switch
      <4> QED BY <2>2, <3>2, <4>1, <4>2, <4>3
    <3> QED BY <3>1, <3>2
  <2>4. Linked(stat', ready', w, s)
    <3>1. \A t \in Threads : t \in ready' <=> stat'[t] = "ready"
      BY <2>2, <2>3
    <3>2. \A t \in Threads : stat'[t] = "suspend" <=> st[t] = "suspend"
      BY <2>2, <2>3
    <3>3. \A t \in w \cup s : stat'[t] = "suspend"
      BY <3>2 DEF Linked
    <3> QED BY <2>2, <2>3, <3>1, <3>2, <3>3 DEF Linked
  <2> QED BY <2>2, <2>3, <2>4
<1> QED BY <1>1, <1>2 DEF rt_schedule

\* A step of a task or of the tick interrupt: TSystem stays where it is, the threads
\* become st with the ready table q, and rt_schedule follows.
LEMMA KernelKeeps ==
    ASSUME CloseInv, pc # "exit",
           NEW st \in [Threads -> {"running", "ready", "suspend", "close"}],
           NEW q \in SUBSET Threads, Linked(st, q, waiting', sleeping'),
           \A t \in Threads : st[t] = "running" => t = current,
           st[current] = "running" \/ (~nonpreempt /\ q # {}),
           rt_schedule(st, q, nonpreempt), UNCHANGED <<nonpreempt, pc, k, active>>,
           waiting' \subseteq Tasks, event' \subseteq Tasks, sleeping' \subseteq Sleepers,
           pc = "untimed" => sleeping' \subseteq sleeping,
           signalled' \subseteq Tasks, object' \subseteq Threads,
           \A t \in Threads : t \in object' <=> st[t] # "close",
           st["TSystem"] # "close", st["idle"] # "close",
           Progress'
    PROVE  CloseInv'
<1>1. /\ current \in Threads /\ \A t \in Threads : InDetach(t) => nonpreempt
      /\ waiting' \subseteq Threads /\ sleeping' \subseteq Threads
  BY VictimIs, Constants DEF CloseInv, Types
<1>2. /\ stat' \in [Threads -> {"running", "ready", "suspend", "close"}]
      /\ ready' \subseteq Threads /\ current' \in Threads
      /\ Linked(stat', ready', waiting', sleeping')
      /\ \A t \in Threads : stat'[t] = "running" <=> t = current'
      /\ \A t \in Threads : stat'[t] = "suspend" <=> st[t] = "suspend"
      /\ \A t \in Threads : stat'[t] = "close" <=> st[t] = "close"
      /\ nonpreempt => current' = current
  BY <1>1, ScheduleKeeps
<1>3. Types'
  BY <1>2 DEF CloseInv, Types
<1>4. Control'
  BY DEF CloseInv, Control
<1>5. Lists' /\ ListsMatchState'
  <2>1. \A t : InDetach(t)' <=> InDetach(t)
    BY DEF InDetach, Victim
  <2>2. Linked(stat, ready, waiting, sleeping)'
    BY <1>2, <2>1 DEF Linked
  <2> QED BY <1>2, <1>3, <2>1, <2>2, LinkedMatches DEF Lists
<1>6. ObjectsOpen'
  BY <1>2 DEF ObjectsOpen
<1>7. TSystemAlone'
  BY <1>2, Constants DEF CloseInv, TSystemAlone
<1>8. Asleep'
  BY DEF CloseInv, Asleep, Victim
<1> QED BY <1>3, <1>4, <1>5, <1>6, <1>7, <1>8 DEF CloseInv

LEMMA NowAgrees ==
    ASSUME CloseInv, pc # "exit"
    PROVE  /\ Linked(stat, ready, waiting, sleeping)
           /\ stat \in [Threads -> {"running", "ready", "suspend", "close"}]
           /\ stat[current] = "running" /\ current \in Threads
           /\ \A t \in Threads : stat[t] = "running" <=> t = current
           /\ \A t \in Threads : t \in object <=> stat[t] # "close"
           /\ stat["TSystem"] # "close" /\ stat["idle"] # "close"
           /\ ready \subseteq Threads /\ waiting \subseteq Tasks /\ sleeping \subseteq Sleepers
BY DEF CloseInv, Types, Lists, ObjectsOpen, TSystemAlone

\* As long as TSystem stays where it is and no object is detached.
LEMMA ProgressStays ==
    ASSUME CloseInv, UNCHANGED <<pc, k, active, object>>, signalled \subseteq signalled'
    PROVE  Progress'
BY DEF CloseInv, Progress, Victim

\* Once TSystem has ended nothing moves any more but the signal of a closed task.
LEMMA ExitIsQuiet ==
    ASSUME CloseInv, pc = "exit", Next
    PROVE  /\ UNCHANGED <<stat, object, lists, active, current, closing>>
           /\ signalled' \subseteq signalled
<1>1. active = {} /\ sleeping = {} /\ \A t \in Tasks : t \notin object
  BY Constants DEF CloseInv, Progress, Asleep
<1>2. ~Tick
  BY <1>1 DEF Tick, timeout_activation, rt_thread_timeout
<1>3. \A t \in Tasks : ~Runs(t)
  BY <1>1 DEF Runs
<1>4. \A p \in Sends : ~Task_sends(p[1], p[2])
  BY <1>3, ShutdownAssumption DEF Task_sends
<1>5. \A p \in Kills : ~rt_thread_kill(p[1], p[2])
  BY <1>3, ShutdownAssumption DEF rt_thread_kill
<1>6. ~TSystem
  BY DEF TSystem, At, turnOffSystem, stop_timer, closeTask_skip, detach_assert, detach_unlink,
         detach_timer, detach_close, detach_timers, Sys_off
<1>7. PICK t \in Tasks : Task(t)
  BY <1>2, <1>4, <1>5, <1>6 DEF Next
<1> QED BY <1>3, <1>7 DEF Task, rt_event_recv, rt_thread_sleep, thread_exit, rt_thread_handle_sig

\* Nothing but flags changes.
LEMMA FlagsKeep ==
    ASSUME CloseInv, UNCHANGED <<stat, object, ready, waiting, sleeping, active, current, closing>>,
           event' \subseteq Tasks, signalled' \subseteq Tasks, Progress'
    PROVE  CloseInv'
<1>1. UNCHANGED <<nonpreempt, pc, k>>
  BY DEF closing
<1>2. Types'
  BY DEF CloseInv, Types
<1>3. Control'
  BY <1>1 DEF CloseInv, Control
<1>4. ListsMatchState' /\ Lists'
  BY <1>1 DEF CloseInv, ListsMatchState, Lists, Linked, InDetach, Victim, Plain
<1>5. ObjectsOpen' /\ TSystemAlone' /\ Asleep'
  BY <1>1 DEF CloseInv, ObjectsOpen, TSystemAlone, Asleep, Victim
<1> QED BY <1>2, <1>3, <1>4, <1>5 DEF CloseInv

\* A suspended thread becomes ready, because of an event, a signal or its timer.
LEMMA WakeKeeps ==
    ASSUME CloseInv, pc # "exit", NEW u \in Tasks, u \in waiting \cup sleeping,
           waiting' = waiting \ {u}, sleeping' = sleeping \ {u},
           rt_schedule([stat EXCEPT ![u] = "ready"], ready \cup {u}, nonpreempt),
           UNCHANGED <<nonpreempt, pc, k, active, object, event>>,
           signalled' \in {signalled, signalled \cup {u}}
    PROVE  CloseInv'
<1> DEFINE st == [stat EXCEPT ![u] = "ready"]
           q == ready \cup {u}
<1>1. u \in Threads /\ stat[u] = "suspend" /\ u # current
  BY NowAgrees, Constants DEF Linked
<1>2. /\ st \in [Threads -> {"running", "ready", "suspend", "close"}]
      /\ \A t \in Threads : st[t] = IF t = u THEN "ready" ELSE stat[t]
  BY <1>1, NowAgrees
<1>3. u \in waiting => ~InDetach(u)
  BY NowAgrees DEF Linked
<1>4. u \in Sleepers \/ ~InDetach(u)
  BY <1>3, NowAgrees
<1>5. Linked(st, q, waiting', sleeping')
  BY <1>1, <1>2, <1>4, NowAgrees, Constants DEF Linked
<1>6. /\ \A t \in Threads : st[t] = "running" => t = current
      /\ st[current] = "running" /\ \A t \in Threads : t \in object' <=> st[t] # "close"
      /\ st["TSystem"] # "close" /\ st["idle"] # "close"
  BY <1>1, <1>2, NowAgrees, Constants
<1>7. Progress'
  BY ProgressStays
<1>8. /\ waiting' \subseteq Tasks /\ event' \subseteq Tasks /\ signalled' \subseteq Tasks
      /\ object' \subseteq Threads /\ sleeping' \subseteq Sleepers /\ sleeping' \subseteq sleeping
      /\ q \in SUBSET Threads
  BY <1>1 DEF CloseInv, Types
<1>9. rt_schedule(st, q, nonpreempt)
  OBVIOUS
<1> HIDE DEF st, q
<1> QED BY <1>2, <1>5, <1>6, <1>7, <1>8, <1>9, KernelKeeps

LEMMA ResumeKeeps ==
    ASSUME CloseInv, pc # "exit", NEW u \in Tasks, u \in waiting \cup sleeping,
           rt_thread_resume(u), UNCHANGED <<nonpreempt, pc, k, active, object, event>>,
           signalled' \in {signalled, signalled \cup {u}}
    PROVE  CloseInv'
BY WakeKeeps DEF rt_thread_resume

LEMMA TimeoutKeeps ==
    ASSUME CloseInv, pc # "exit", NEW u \in Tasks, rt_thread_timeout(u)
    PROVE  CloseInv'
<1>1. u \in sleeping /\ waiting' = waiting /\ UNCHANGED <<nonpreempt, pc, k>>
  BY DEF rt_thread_timeout, closing
<1>2. waiting' = waiting \ {u}
  BY <1>1, NowAgrees DEF Linked
<1> QED BY <1>1, <1>2, WakeKeeps DEF rt_thread_timeout

LEMMA SendKeeps ==
    ASSUME CloseInv, pc # "exit", NEW u \in Tasks, rt_event_send(u)
    PROVE  CloseInv'
<1>1. UNCHANGED <<signalled, object, active, closing>> /\ UNCHANGED <<nonpreempt, pc, k>>
  BY DEF rt_event_send, closing
<1>2. CASE u \in waiting /\ rt_thread_resume(u) /\ UNCHANGED event
  BY <1>1, <1>2, ResumeKeeps
<1>3. CASE event' = event \cup {u} /\ UNCHANGED <<stat, ready, waiting, sleeping, current>>
  <2>1. Progress'
    BY <1>1, ProgressStays
  <2>2. event' \subseteq Tasks /\ signalled' \subseteq Tasks
    BY <1>1, <1>3 DEF CloseInv, Types
  <2> QED BY <1>1, <1>3, <2>1, <2>2, FlagsKeep
<1> QED BY <1>2, <1>3 DEF rt_event_send

\* A task that has the CPU: TSystem is not closing, and idle is there to take over.
LEMMA TaskRuns ==
    ASSUME CloseInv, pc # "exit", NEW t \in Tasks, current = t
    PROVE  /\ ~nonpreempt /\ pc = "loop" /\ (\A u : ~InDetach(u)) /\ t \in Threads
           /\ stat[t] = "running" /\ ready # {}
<1>1. /\ ~nonpreempt /\ pc = "loop" /\ (\A u : ~InDetach(u)) /\ t \in Threads
      /\ stat[t] = "running"
  BY NowAgrees, Constants DEF CloseInv, TSystemAlone, InDetach
<1>2. stat["idle"] # "running" /\ stat["idle"] # "close"
  BY Constants, NowAgrees
<1>3. stat["idle"] # "suspend"
  BY <1>1, Constants, NowAgrees DEF Linked
<1> QED BY <1>1, <1>2, <1>3, NowAgrees, Constants DEF Linked

\* The running task t gives up the CPU: it waits, sleeps or ends.
LEMMA GiveUpKeeps ==
    ASSUME CloseInv, pc # "exit", NEW t \in Tasks, current = t, NEW how \in {"suspend", "close"},
           rt_schedule([stat EXCEPT ![t] = how], ready, nonpreempt),
           UNCHANGED <<signalled, event, active>>, UNCHANGED <<nonpreempt, pc, k>>,
           \/ /\ how = "suspend" /\ object' = object
              /\ \/ waiting' = waiting \cup {t} /\ sleeping' = sleeping
                 \/ waiting' = waiting /\ sleeping' = sleeping \cup {t} /\ t \in Sleepers
           \/ how = "close" /\ object' = object \ {t} /\ UNCHANGED <<waiting, sleeping>>,
           Progress'
    PROVE  CloseInv'
<1> DEFINE st == [stat EXCEPT ![t] = how]
<1>1. /\ ~nonpreempt /\ pc = "loop" /\ (\A u : ~InDetach(u)) /\ t \in Threads
      /\ stat[t] = "running" /\ ready # {} /\ t # "TSystem" /\ t # "idle"
  BY TaskRuns, Constants
<1>2. /\ st \in [Threads -> {"running", "ready", "suspend", "close"}]
      /\ \A u \in Threads : st[u] = IF u = t THEN how ELSE stat[u]
  BY <1>1, NowAgrees
<1>3. t \notin ready /\ t \notin waiting /\ t \notin sleeping
  BY <1>1, NowAgrees DEF Linked
<1>4. Linked(st, ready, waiting', sleeping')
  BY <1>1, <1>2, <1>3, NowAgrees, Constants DEF Linked
<1>5. /\ \A u \in Threads : st[u] = "running" => u = current
      /\ \A u \in Threads : u \in object' <=> st[u] # "close"
      /\ st["TSystem"] # "close" /\ st["idle"] # "close"
  BY <1>1, <1>2, NowAgrees, Constants
<1>6. /\ waiting' \subseteq Tasks /\ event' \subseteq Tasks /\ signalled' \subseteq Tasks
      /\ object' \subseteq Threads /\ sleeping' \subseteq Sleepers /\ ready \in SUBSET Threads
  BY <1>1 DEF CloseInv, Types
<1>7. rt_schedule(st, ready, nonpreempt) /\ pc # "untimed"
  BY <1>1
<1> HIDE DEF st
<1> QED BY <1>1, <1>2, <1>4, <1>5, <1>6, <1>7, KernelKeeps

LEMMA TaskKeeps ==
    ASSUME CloseInv, pc # "exit", NEW t \in Tasks, Task(t)
    PROVE  CloseInv'
<1>1. CASE rt_event_recv(t)
  <2>1. /\ current = t /\ UNCHANGED <<signalled, object, sleeping, active, closing>>
        /\ UNCHANGED <<nonpreempt, pc, k>>
    BY <1>1 DEF rt_event_recv, Runs, closing
  <2>2. Progress'
    BY <2>1, ProgressStays
  <2>3. CASE event' = event \ {t} /\ UNCHANGED <<stat, ready, waiting, current>>
    BY <2>1, <2>2, <2>3, FlagsKeep DEF CloseInv, Types
  <2>4. CASE /\ waiting' = waiting \cup {t} /\ UNCHANGED event
             /\ rt_schedule([stat EXCEPT ![t] = "suspend"], ready, nonpreempt)
    BY <2>1, <2>2, <2>4, GiveUpKeeps
  <2> QED BY <1>1, <2>3, <2>4 DEF rt_event_recv
<1>2. CASE rt_thread_sleep(t)
  <2>1. /\ current = t /\ UNCHANGED <<signalled, object, waiting, event, active>>
        /\ UNCHANGED <<nonpreempt, pc, k>> /\ t \in Sleepers /\ sleeping' = sleeping \cup {t}
        /\ rt_schedule([stat EXCEPT ![t] = "suspend"], ready, nonpreempt)
    BY <1>2 DEF rt_thread_sleep, Runs, closing
  <2>2. Progress'
    BY <2>1, ProgressStays
  <2> QED BY <2>1, <2>2, GiveUpKeeps
<1>3. CASE rt_thread_handle_sig(t)
  <2>1. /\ current = t /\ signalled' = signalled \ {t}
        /\ UNCHANGED <<stat, object, ready, waiting, event, sleeping, active, current, closing>>
    BY <1>3 DEF rt_thread_handle_sig, lists
  <2>2. pc' # "halted" /\ UNCHANGED <<pc, k>>
    BY <2>1, TaskRuns DEF closing
  <2>3. Progress'
    BY <2>1, <2>2 DEF CloseInv, Progress, Victim
  <2> QED BY <2>1, <2>3, FlagsKeep DEF CloseInv, Types
<1>4. CASE thread_exit(t)
  <2>1. /\ current = t /\ t \in Enders /\ object' = object \ {t}
        /\ rt_schedule([stat EXCEPT ![t] = "close"], ready, nonpreempt)
        /\ UNCHANGED <<signalled, waiting, event, sleeping, active>>
        /\ UNCHANGED <<nonpreempt, pc, k>>
    BY <1>4 DEF thread_exit, Runs, closing
  <2>2. pc = "loop"
    BY <2>1, TaskRuns
  <2>3. Progress'
    BY <2>1, <2>2 DEF CloseInv, Progress, Victim
  <2> QED BY <2>1, <2>3, GiveUpKeeps
<1> QED BY <1>1, <1>2, <1>3, <1>4 DEF Task

LEMMA KillKeeps ==
    ASSUME CloseInv, pc # "exit", NEW t \in Tasks, NEW u \in Tasks, rt_thread_kill(t, u)
    PROVE  CloseInv'
<1>1. /\ current = t /\ signalled' = signalled \cup {u}
      /\ UNCHANGED <<object, event, active, closing>> /\ UNCHANGED <<nonpreempt, pc, k>>
  BY DEF rt_thread_kill, Runs, closing
<1>2. CASE stat[u] = "suspend" /\ rt_thread_resume(u)
  <2>1. u \in waiting \cup sleeping
    BY <1>1, <1>2, TaskRuns, NowAgrees, Constants DEF Linked
  <2> QED BY <1>1, <1>2, <2>1, ResumeKeeps
<1>3. CASE UNCHANGED <<stat, ready, waiting, sleeping, current>>
  <2>1. Progress'
    BY <1>1, ProgressStays
  <2>2. event' \subseteq Tasks /\ signalled' \subseteq Tasks
    BY <1>1 DEF CloseInv, Types
  <2> QED BY <1>1, <1>3, <2>1, <2>2, FlagsKeep
<1> QED BY <1>2, <1>3 DEF rt_thread_kill

-----------------------------------------------------------------------------
\* A step of TSystem that leaves the threads and their lists alone, outside
\* rt_thread_detach.
LEMMA QuietKeeps ==
    ASSUME CloseInv, UNCHANGED <<stat, signalled, object, lists, current>>,
           current = "TSystem", active' \subseteq active,
           pc \notin {"unlinked", "untimed", "exit"}, pc' \notin {"unlinked", "untimed", "loop", "exit"},
           nonpreempt' = TRUE, Control', Progress'
    PROVE  CloseInv'
<1>1. UNCHANGED <<ready, waiting, event, sleeping>>
  BY DEF lists
<1>2. Types'
  BY <1>1 DEF CloseInv, Types
<1>3. ListsMatchState'
  BY <1>1 DEF CloseInv, ListsMatchState, InDetach, Plain
<1>4. Lists'
  BY <1>1 DEF CloseInv, Lists, Linked, InDetach
<1>5. ObjectsOpen'
  BY DEF CloseInv, ObjectsOpen
<1>6. TSystemAlone' /\ Asleep'
  BY DEF CloseInv, TSystemAlone, Asleep
<1> QED BY <1>2, <1>3, <1>4, <1>5, <1>6 DEF CloseInv

LEMMA TimersStop ==
    ASSUME CloseInv, turnOffSystem \/ stop_timer \/ detach_timers
    PROVE  CloseInv'
<1>1. CASE turnOffSystem
  <2>1. /\ pc = "loop" /\ pc' = "stop" /\ k' = k /\ nonpreempt' = TRUE /\ current = "TSystem"
        /\ UNCHANGED <<stat, signalled, object, lists, current>> /\ active' = active
    BY <1>1 DEF turnOffSystem, At
  <2>2. Control'
    BY <2>1, Constants DEF CloseInv, Control
  <2>3. Progress'
    BY <2>1 DEF CloseInv, Progress
  <2> QED BY <2>1, <2>2, <2>3, QuietKeeps
<1>2. CASE stop_timer
  <2>1. /\ pc = "stop" /\ nonpreempt' = nonpreempt /\ current = "TSystem"
        /\ UNCHANGED <<stat, signalled, object, lists, current>> /\ active' \subseteq active
    BY <1>2 DEF stop_timer, At
  <2>2. nonpreempt' = TRUE
    BY <2>1 DEF CloseInv, Control, TSystemAlone
  <2>3. \/ k < Len(Timers) /\ k' = k + 1 /\ pc' = "stop"
        \/ k' = 1 /\ pc' = "close"
    BY <1>2, <2>1 DEF stop_timer
  <2>4. Control'
    BY <2>1, <2>2, <2>3, Constants DEF CloseInv, Control
  <2>5. Progress'
    BY <2>1, <2>3, Constants DEF CloseInv, Progress
  <2> QED BY <2>1, <2>2, <2>3, <2>4, <2>5, QuietKeeps
<1>3. CASE detach_timers
  <2>1. /\ pc = "timers" /\ pc' = "off" /\ k' = k /\ nonpreempt' = nonpreempt
        /\ current = "TSystem" /\ active' = {}
        /\ UNCHANGED <<stat, signalled, object, lists, current>>
    BY <1>3 DEF detach_timers, At
  <2>2. nonpreempt' = TRUE
    BY <2>1 DEF CloseInv, Control, TSystemAlone
  <2>3. Control'
    BY <2>1, <2>2 DEF CloseInv, Control
  <2>4. Progress'
    BY <2>1 DEF CloseInv, Progress
  <2> QED BY <2>1, <2>2, <2>3, <2>4, QuietKeeps
<1> QED BY <1>1, <1>2, <1>3

LEMMA LastVictim ==
    ASSUME CloseInv, pc \in {"close", "unlinked", "untimed"}
    PROVE  /\ k \in Nat /\ k >= 1 /\ k <= Len(Order) /\ Len(Order) \in Nat
           /\ DOMAIN Order = 1 .. Len(Order)
           /\ NextVictim => \/ k < Len(Order) /\ k' = k + 1 /\ pc' = "close"
                            \/ k = Len(Order) /\ k' = k /\ pc' = "timers"
<1>1. Len(Order) \in Nat /\ DOMAIN Order = 1 .. Len(Order)
  BY Constants
<1>2. k \in 1 .. Len(Order)
  BY DEF CloseInv, Control
<1>3. PICK n \in Nat : n = Len(Order)
  BY <1>1
<1>4. k \in Nat /\ k >= 1 /\ k <= n /\ (k < n \/ k = n)
  <2>1. k \in 1 .. n
    BY <1>2, <1>3
  <2> QED BY ONLY <2>1, n \in Nat
<1>5. NextVictim => \/ k < n /\ k' = k + 1 /\ pc' = "close"
                    \/ k = n /\ k' = k /\ pc' = "timers"
  BY <1>3, <1>4 DEF NextVictim
<1> QED BY <1>1, <1>3, <1>4, <1>5

LEMMA ClosingKeeps ==
    ASSUME CloseInv, closeTask_skip \/ detach_assert
    PROVE  CloseInv'
<1>1. /\ pc = "close" /\ nonpreempt' = nonpreempt /\ current = "TSystem"
      /\ UNCHANGED <<stat, signalled, object, lists, current>> /\ active' = active
  BY DEF closeTask_skip, detach_assert, At
<1>2. nonpreempt' = TRUE
  BY <1>1 DEF CloseInv, Control, TSystemAlone
<1>3. /\ Victim \in Tasks /\ Victim \in Threads /\ k \in 1 .. Len(Order)
  BY <1>1, VictimIs, Constants DEF CloseInv, Control
<1>4. CASE closeTask_skip
  <2>1. Victim \notin object
    BY <1>3, <1>4 DEF closeTask_skip, IsClosed, CloseInv, ObjectsOpen
  <2>2. \/ k < Len(Order) /\ k' = k + 1 /\ pc' = "close"
        \/ k = Len(Order) /\ k' = k /\ pc' = "timers"
    BY <1>1, <1>4, LastVictim DEF closeTask_skip
  <2>3. Control'
    BY <1>1, <1>2, <2>2, LastVictim DEF Control
  <2>4. Progress'
    BY <1>1, <2>1, <2>2, LastVictim DEF CloseInv, Progress, Victim
  <2> QED BY <1>1, <1>2, <2>2, <2>3, <2>4, QuietKeeps
<1>5. CASE detach_assert
  <2>1. /\ pc' = "halted" /\ k' = k /\ Victim \notin object /\ Victim \in signalled
    BY <1>1, <1>3, <1>5 DEF detach_assert, IsClosed, CloseInv, ObjectsOpen
  <2>2. Control'
    BY <1>2, <1>3, <2>1 DEF Control
  <2>3. Progress'
    BY <1>1, <1>3, <2>1 DEF CloseInv, Progress, Victim
  <2> QED BY <1>1, <1>2, <2>1, <2>2, <2>3, QuietKeeps
<1> QED BY <1>4, <1>5

LEMMA DetachKeeps ==
    ASSUME CloseInv, detach_unlink \/ detach_timer \/ detach_close
    PROVE  CloseInv'
<1>1. /\ pc \in {"close", "unlinked", "untimed"} /\ nonpreempt' = nonpreempt
      /\ current = "TSystem" /\ current' = current /\ active' = active /\ event' = event
  BY DEF detach_unlink, detach_timer, detach_close, At, lists
<1>2. nonpreempt' = TRUE /\ nonpreempt = TRUE
  BY <1>1 DEF CloseInv, Control, TSystemAlone
<1>3. /\ Victim \in Tasks /\ Victim \in Threads /\ k \in 1 .. Len(Order) /\ Victim # "TSystem"
      /\ Victim # "idle"
  BY <1>1, VictimIs, Constants DEF CloseInv, Control
<1>4. CASE detach_unlink
  <2>1. /\ pc = "close" /\ pc' = "unlinked" /\ k' = k /\ Victim \in object
        /\ ready' = ready \ {Victim} /\ waiting' = waiting \ {Victim}
        /\ UNCHANGED <<stat, signalled, object, sleeping>>
    BY <1>4 DEF detach_unlink, At
  <2>2. Types'
    BY <1>1, <2>1 DEF CloseInv, Types
  <2>3. Control'
    BY <1>2, <1>3, <2>1 DEF Control
  <2>4. Lists'
    <3>1. \A t \in Threads : ~InDetach(t) /\ (InDetach(t)' <=> t = Victim)
      BY <2>1 DEF InDetach, Victim
    <3>2. Linked(stat, ready, waiting, sleeping)'
      BY <1>2, <2>1, <3>1, NowAgrees, Constants DEF Linked
    <3> QED BY <1>1, <2>1, <3>2 DEF CloseInv, Lists
  <2>5. ListsMatchState'
    BY <2>1, <2>2, <2>4, LinkedMatches DEF Lists
  <2>6. ObjectsOpen' /\ TSystemAlone' /\ Asleep'
    BY <1>1, <1>2, <2>1 DEF CloseInv, ObjectsOpen, TSystemAlone, Asleep
  <2>7. Progress'
    BY <1>1, <2>1 DEF CloseInv, Progress, Victim
  <2> QED BY <2>2, <2>3, <2>4, <2>5, <2>6, <2>7 DEF CloseInv
<1>5. CASE detach_timer
  <2>1. /\ pc = "unlinked" /\ pc' = "untimed" /\ k' = k /\ sleeping' = sleeping \ {Victim}
        /\ UNCHANGED <<stat, signalled, object, ready, waiting>>
    BY <1>5 DEF detach_timer, At
  <2>2. Types'
    BY <1>1, <2>1 DEF CloseInv, Types
  <2>3. Control'
    BY <1>2, <1>3, <2>1 DEF Control
  <2>4. Lists'
    <3>1. \A t : /\ InDetach(t)' <=> InDetach(t)
                 /\ InDetach(t) <=> t = Victim
      BY <2>1 DEF InDetach, Victim
    <3>2. Linked(stat, ready, waiting, sleeping)'
      BY <1>2, <2>1, <3>1, NowAgrees DEF Linked
    <3> QED BY <1>1, <2>1, <3>2 DEF CloseInv, Lists
  <2>5. ListsMatchState'
    BY <2>1, <2>2, <2>4, LinkedMatches DEF Lists
  <2>6. ObjectsOpen' /\ TSystemAlone' /\ Asleep'
    BY <1>1, <1>2, <2>1 DEF CloseInv, ObjectsOpen, TSystemAlone, Asleep, Victim
  <2>7. Progress'
    BY <1>1, <2>1 DEF CloseInv, Progress, Victim
  <2> QED BY <2>2, <2>3, <2>4, <2>5, <2>6, <2>7 DEF CloseInv
<1>6. CASE detach_close
  <2>1. /\ pc = "untimed" /\ stat' = [stat EXCEPT ![Victim] = "close"]
        /\ signalled' = signalled \ {Victim} /\ object' = object \ {Victim}
        /\ UNCHANGED <<ready, waiting, sleeping>>
    BY <1>6 DEF detach_close, At, lists
  <2>2. \/ k < Len(Order) /\ k' = k + 1 /\ pc' = "close"
        \/ k = Len(Order) /\ k' = k /\ pc' = "timers"
    BY <1>1, <1>6, LastVictim DEF detach_close
  <2>3. Types'
    BY <1>1, <2>1 DEF CloseInv, Types
  <2>4. Control'
    BY <1>1, <1>2, <2>2, LastVictim DEF Control
  <2>5. \A t \in Threads : stat'[t] = IF t = Victim THEN "close" ELSE stat[t]
    BY <2>1, <1>3 DEF CloseInv, Types
  <2>6. Lists'
    <3>1. (\A t \in Threads : ~InDetach(t)') /\ (\A t : InDetach(t) <=> t = Victim)
      BY <2>1, <2>2 DEF InDetach, Victim
    <3>2. Victim \notin waiting /\ Victim \notin sleeping
      BY <1>3, <2>1, <3>1, NowAgrees DEF Linked, CloseInv, Asleep
    <3>3. Victim \in ready => Victim \in Sleepers
      BY <2>1, <3>1, NowAgrees DEF Linked
    <3>4. Linked(stat, ready, waiting, sleeping)'
      <4>1. \A t \in waiting \cup sleeping : t \in Threads /\ t # Victim
        BY <2>1, <3>2, NowAgrees, Constants
      <4>2. \A t \in waiting' : t \in Threads
        BY <2>1, NowAgrees, Constants
      <4> QED BY <1>2, <2>1, <2>5, <3>1, <3>3, <4>1, <4>2, NowAgrees DEF Linked
    <3>5. Victim # current
      BY <1>1, <1>3
    <3> QED BY <1>1, <1>3, <2>1, <2>5, <3>4, <3>5, NowAgrees DEF Lists
  <2>7. ListsMatchState'
    BY <2>2, <2>3, <2>6, LinkedMatches DEF Lists
  <2>8. ObjectsOpen' /\ TSystemAlone' /\ Asleep'
    BY <1>1, <1>2, <1>3, <2>1, <2>2 DEF CloseInv, Types, ObjectsOpen, TSystemAlone, Asleep
  <2>9. Progress'
    <3>1. \A i \in DOMAIN Order : i # k => Order[i] # Victim
      BY <1>3, Constants, ShutdownAssumption DEF Victim
    <3> QED BY <1>1, <2>1, <2>2, <3>1, LastVictim DEF CloseInv, Progress, Victim
  <2> QED BY <2>3, <2>4, <2>6, <2>7, <2>8, <2>9 DEF CloseInv
<1> QED BY <1>4, <1>5, <1>6

\* TSystem ends: only now can a closed sleeper that was left in the ready table get the
\* CPU; the threads without a time-out are where they belong.
LEMMA SysOffKeeps ==
    ASSUME CloseInv, Sys_off
    PROVE  CloseInv'
<1> DEFINE st == [stat EXCEPT !["TSystem"] = "close"]
<1>1. /\ pc = "off" /\ pc' = "exit" /\ current = "TSystem" /\ nonpreempt' = FALSE
      /\ object' = object \ {"TSystem"} /\ rt_schedule(st, ready, FALSE)
      /\ UNCHANGED <<signalled, waiting, event, sleeping, active, k>>
  BY DEF Sys_off, At
<1>2. /\ \A t \in Threads : ~InDetach(t) /\ ~InDetach(t)'
      /\ "TSystem" \in Threads /\ "idle" \in Threads /\ "idle" # "TSystem"
  BY <1>1, Constants DEF InDetach
<1>3. \A t \in Tasks : t \in Threads /\ t \notin object /\ stat[t] = "close" /\ t # "TSystem"
  BY <1>1, Constants, NowAgrees DEF CloseInv, Progress
<1>4. waiting = {} /\ sleeping = {}
  BY <1>1, <1>3, NowAgrees, Constants DEF Linked
<1>5. stat["idle"] = "ready" /\ "idle" \in ready
  BY <1>1, <1>2, <1>4, NowAgrees DEF Linked
<1>6. \A t \in Threads : st[t] = IF t = "TSystem" THEN "close" ELSE stat[t]
  BY NowAgrees, <1>1
<1>7. ~Keeps(st, ready, FALSE)
  BY <1>1, <1>2, <1>5, <1>6 DEF Keeps
<1>8. PICK h \in ready : switch(st, ready, h)
  BY <1>1, <1>7 DEF rt_schedule
<1>9. /\ h \in Threads /\ h # "TSystem" /\ ready' = ready \ {h} /\ current' = h
      /\ \A t \in Threads : stat'[t] = IF t = h THEN "running" ELSE st[t]
      /\ stat' \in [Threads -> {"running", "ready", "suspend", "close"}]
  <2>1. h \in Threads /\ h # "TSystem"
    BY <1>1, NowAgrees, Constants DEF Linked
  <2> QED BY <1>1, <1>2, <1>6, <1>8, <2>1, NowAgrees DEF switch
<1>10. stat["TSystem"] = "running" /\ stat[h] \in {"ready", "close"}
       /\ (stat[h] = "close" => h \in Sleepers)
  BY <1>1, NowAgrees DEF Linked
<1> HIDE DEF st
<1>11. Types'
  BY <1>1, <1>9 DEF CloseInv, Types
<1>12. Control'
  BY <1>1 DEF CloseInv, Control
<1>13. ListsMatchState'
  <2> SUFFICES ASSUME NEW t \in Plain
               PROVE  /\ t \in ready' <=> stat'[t] = "ready"
                      /\ t \notin waiting' /\ stat'[t] # "suspend"
                      /\ stat'[t] = "running" <=> t = current'
    BY <1>2 DEF ListsMatchState, Plain
  <2>1. t \in Threads /\ t \notin Sleepers
    BY DEF Plain
  <2>2. t \in ready <=> stat[t] = "ready"
    BY <1>2, <2>1, NowAgrees, <1>1 DEF Linked
  <2>3. stat[t] # "suspend" /\ (stat[t] = "running" <=> t = "TSystem")
    BY <1>1, <1>2, <1>4, <2>1, NowAgrees DEF Linked
  <2> QED BY <1>1, <1>4, <1>6, <1>9, <2>1, <2>2, <2>3
<1>14. Lists' /\ Asleep'
  BY <1>1, <1>4 DEF Lists, Asleep
<1>15. ObjectsOpen'
  <2>1. \A t \in Threads : t \in object' <=> t = "idle"
    BY <1>1, <1>2, <1>3, <1>5, NowAgrees DEF Threads
  <2>2. \A t \in Threads : t # "idle" => st[t] = "close"
    BY <1>3, <1>6 DEF Threads
  <2>3. h # "idle" => h \in Sleepers
    BY <1>3, <1>9, <1>10 DEF Threads
  <2> QED BY <1>1, <1>2, <1>5, <1>6, <1>9, <2>1, <2>2, <2>3 DEF ObjectsOpen
<1>16. TSystemAlone'
  BY <1>1, <1>2, <1>5, <1>6, <1>9 DEF TSystemAlone
<1>17. Progress'
  BY <1>1 DEF CloseInv, Progress
<1> QED BY <1>11, <1>12, <1>13, <1>14, <1>15, <1>16, <1>17 DEF CloseInv

-----------------------------------------------------------------------------
LEMMA InitCloses ==
    ASSUME Init
    PROVE  CloseInv
<1>1. Types
  BY Constants DEF Init, Types
<1>2. Control
  <2>1. pc = "loop" /\ k = 1 /\ nonpreempt = FALSE
    BY DEF Init
  <2>2. 1 \in 1 .. 1
    OBVIOUS
  <2> QED BY <2>1, <2>2 DEF Control
<1>3. ListsMatchState
  BY Constants DEF Init, ListsMatchState, Plain, InDetach, Threads
<1>4. ObjectsOpen /\ TSystemAlone /\ Asleep
  BY Constants DEF Init, ObjectsOpen, TSystemAlone, Asleep
<1>5. Progress
  BY Constants DEF Init, Progress
<1>6. Lists
  BY Constants DEF Init, Lists, Linked, InDetach, Threads
<1> QED BY <1>1, <1>2, <1>3, <1>4, <1>5, <1>6 DEF CloseInv

LEMMA NextCloses ==
    ASSUME CloseInv, [Next]_vars
    PROVE  CloseInv'
<1>1. CASE UNCHANGED vars \/ (pc = "exit" /\ Next)
  <2>1. /\ UNCHANGED <<stat, object, ready, waiting, event, sleeping, active, current>>
        /\ UNCHANGED closing /\ signalled' \subseteq signalled
        /\ signalled' = signalled \/ pc = "exit"
    BY <1>1, ExitIsQuiet DEF vars, lists
  <2>2. Progress'
    BY <2>1 DEF CloseInv, Progress, Victim, closing
  <2> QED BY <2>1, <2>2, FlagsKeep DEF CloseInv, Types
<1> SUFFICES ASSUME pc # "exit", Next
             PROVE  CloseInv'
  BY <1>1
<1>2. CASE Tick
  BY <1>2, SendKeeps, TimeoutKeeps DEF Tick, timeout_activation
<1>3. CASE \E t \in Tasks : Task(t)
  BY <1>3, TaskKeeps
<1>4. CASE \E p \in Sends : Task_sends(p[1], p[2])
  <2>1. PICK p \in Sends : Task_sends(p[1], p[2])
    BY <1>4
  <2>2. p[2] \in Tasks
    BY ShutdownAssumption
  <2> QED BY <2>1, <2>2, SendKeeps DEF Task_sends
<1>5. CASE \E p \in Kills : rt_thread_kill(p[1], p[2])
  <2>1. PICK p \in Kills : rt_thread_kill(p[1], p[2])
    BY <1>5
  <2>2. p[1] \in Tasks /\ p[2] \in Tasks
    BY ShutdownAssumption
  <2> QED BY <2>1, <2>2, KillKeeps
<1>6. CASE TSystem
  BY <1>6, TimersStop, ClosingKeeps, DetachKeeps, SysOffKeeps DEF TSystem
<1> QED BY <1>2, <1>3, <1>4, <1>5, <1>6 DEF Next

\* The conjunction of all that is proved of the reachable states.
THEOREM ClosingInvariant ==
    Spec => []CloseInv
<1>1. Init => CloseInv
  BY InitCloses
<1>2. CloseInv /\ [Next]_vars => CloseInv'
  BY NextCloses
<1> QED BY <1>1, <1>2, PTL DEF Spec

\* Every variable keeps its type and TSystem's index stays within the array it walks.
THEOREM TypeCorrect ==
    Spec => []TypeOK
<1>1. CloseInv => TypeOK
  BY Constants DEF CloseInv, Types, Control, TypeOK
<1> QED BY <1>1, ClosingInvariant, PTL

\* A thread is on the list its state byte says, whatever interrupt comes between the
\* critical sections of rt_thread_detach.
THEOREM ListsMatchHolds ==
    Spec => []ListsMatchState
<1>1. CloseInv => ListsMatchState
  BY DEF CloseInv
<1> QED BY <1>1, ClosingInvariant, PTL

\* Whenever a thread timer fires, its thread is suspended and still a thread object: the
\* assertions of rt_thread_timeout hold at any point of rt_thread_detach.
THEOREM TimeoutFindsSleeperHolds == Spec => []TimeoutFindsSleeper
<1>1. CloseInv => TimeoutFindsSleeper
  <2> SUFFICES ASSUME CloseInv, NEW t \in sleeping
               PROVE  stat[t] = "suspend" /\ t \in object
    BY DEF TimeoutFindsSleeper
  <2>1. pc # "exit"
    BY DEF CloseInv, Asleep
  <2>2. t \in Threads
    BY Constants DEF CloseInv, Types
  <2> QED BY <2>1, <2>2, NowAgrees DEF Linked
<1> QED BY <1>1, ClosingInvariant, PTL

\* When the system is off every task is closed and nothing is left to wake one.
THEOREM OffMeansClosedHolds == Spec => []OffMeansClosed
<1>1. CloseInv => OffMeansClosed
  <2> SUFFICES ASSUME CloseInv, pc \in {"off", "exit"}
               PROVE  /\ active = {}
                      /\ \A t \in Tasks : /\ t \notin object /\ t \notin waiting /\ t \notin sleeping
                                          /\ t \in Plain => stat[t] = "close" /\ t \notin ready
    BY DEF OffMeansClosed
  <2>1. active = {}
    BY DEF CloseInv, Progress
  <2>2. \A t \in Tasks : t \notin object /\ t \in Threads
    BY Constants DEF CloseInv, Progress
  <2>3. \A t \in Tasks : t \in Plain => stat[t] = "close" /\ t \notin ready
    BY <2>2 DEF CloseInv, ObjectsOpen, Plain, ListsMatchState
  <2>4. \A t \in Tasks : t \notin waiting /\ t \notin sleeping
    <3>1. CASE pc = "exit"
      BY <3>1 DEF CloseInv, Asleep
    <3>2. CASE pc # "exit"
      BY <2>2, <3>2, NowAgrees DEF Linked
    <3> QED BY <3>1, <3>2
  <2> QED BY <2>1, <2>2, <2>3, <2>4
<1> QED BY <1>1, ClosingInvariant, PTL

\* The closing stops half-way only in the assertion of rt_thread_detach, for a task
\* that ended by itself and was signalled afterwards.
THEOREM HaltsOnlyOnLateSignalHolds ==
    Spec => []HaltsOnlyOnLateSignal
<1>1. CloseInv => HaltsOnlyOnLateSignal
  <2> SUFFICES ASSUME CloseInv, pc = "halted"
               PROVE  Victim \in Enders \cap signalled /\ stat[Victim] = "close"
    BY DEF HaltsOnlyOnLateSignal
  <2>1. Victim \notin object /\ Victim \in signalled /\ Victim \in Threads /\ k \in DOMAIN Order
    BY VictimIs, Constants DEF CloseInv, Progress, Control
  <2>2. Victim \in Enders
    BY <2>1, Constants DEF CloseInv, Progress, Victim, Control
  <2> QED BY <2>1, <2>2 DEF CloseInv, ObjectsOpen
<1> QED BY <1>1, ClosingInvariant, PTL

=============================================================================
