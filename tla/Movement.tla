------------------------------ MODULE Movement ------------------------------
(***************************************************************************)
(* The movement subsystem of the robot vacuum cleaner: the three           *)
(* highest-priority threads (TaskS movement_stop, Task1 obstacle_control,  *)
(* Task2 movement_control of applications/tasks.c), the timers that        *)
(* activate them, the kernel events they wait on, the SIGUSR1 soft         *)
(* interrupt from Task1 to Task2, the engine and the map of the room.      *)
(*                                                                         *)
(* One kernel call is one step (the kernel runs it with interrupts off);   *)
(* one C statement of Task2 that touches state the signal handler also     *)
(* touches is one step.  The CPU belongs to the ready thread of the        *)
(* highest priority, so a thread steps only when no higher one is ready.   *)
(* Lower-priority threads (Task3 filling mb2_3, Task5 emptying mb2_5) are  *)
(* the environment and act only when all three threads are blocked.        *)
(*                                                                         *)
(* Init is the state main() leaves behind: the threads have run up to      *)
(* their first rt_event_recv and the timers are armed.                     *)
(***************************************************************************)
EXTENDS Integers, FiniteSets

CONSTANTS
    MAP_SIDE,          \* side of the square room, in tiles (10 in the code)
    MailCap,           \* mails a mailbox holds (32 in the code)
    MaxObstacles,      \* bound: how often the proximity sensor answers 'y'
    MaxGarbage,        \* bound: where the garbage counter saturates
    StuckGarbage,      \* values the uninitialised local "stuck" may start with
    TimersMayOverrun   \* TRUE: a timer may fire again before its task is done

ASSUME MovementAssumption ==
    /\ MAP_SIDE \in Nat \ {0}
    /\ MailCap \in Nat \ {0}
    /\ MaxObstacles \in Nat
    /\ MaxGarbage \in Nat \ {0}
    /\ StuckGarbage \subseteq {0, 1} /\ StuckGarbage # {}
    /\ TimersMayOverrun \in BOOLEAN

VARIABLES
    stat,        \* rt_thread.stat of each thread: ready (or running), suspend, close
    pc,          \* the next statement of each thread
    flag,        \* threads whose event bit is set in the event they wait on
    sig_pending, \* SIGUSR1 is in Task2's sig_pending (and its node in si_list)
    sig_mask,    \* SIGUSR1 is unmasked in Task2's sig_mask
    sig_entry,   \* RT_THREAD_STAT_SIGNAL: Task2's next instructions are the handler
    error,       \* Task2's thread->error
    position, direction, map, stuck,
    engine,      \* the mock engine: "STOP" or "START"
    garbage,     \* garbage_bag_value
    mb2_3,       \* number of mails in mb2_3 (Task2 never looks at their text)
    mb2_5,       \* number of "Come back home" mails in mb2_5
    sys_pending, \* SIGUSR2 has been sent to TSystem
    obstacles,   \* how often the sensor has answered 'y'
    fired,       \* timers that have fired in the current 50-tick frame
    due          \* history: a Task2 activation has been sent, its job has not begun

signals == <<sig_pending, sig_mask, sig_entry, error>>
mailboxes == <<mb2_3, mb2_5>>
robot == <<position, direction, map, stuck, garbage>>
timers == <<fired, due>>
vars == <<stat, pc, flag, signals, robot, engine, mailboxes, sys_pending,
          obstacles, timers>>

-----------------------------------------------------------------------------
(* Threads and the CPU *)

Threads == {"TaskS", "Task1", "Task2"}

\* Mutant: MOVEMENT_STOP_PRIORITY below MOVEMENT_CONTROL_PRIORITY.
Priority_late_stop == [t \in Threads |-> CASE t = "TaskS" -> 4 [] t = "Task1" -> 2
                                           [] t = "Task2" -> 3]

\* MOVEMENT_STOP_PRIORITY, OBSTACLE_CONTROL_PRIORITY, MOVEMENT_CONTROL_PRIORITY
Priority == [t \in Threads |-> CASE t = "TaskS" -> 1 [] t = "Task1" -> 2
                                 [] t = "Task2" -> 3]

\* rt_schedule keeps the CPU with the ready thread of the smallest priority.
Running(t) ==
    /\ stat[t] = "ready"
    /\ \A u \in Threads : Priority[u] < Priority[t] => stat[u] # "ready"

\* Nothing of this module is ready: lower-priority threads have the CPU.
Idle == \A t \in Threads : stat[t] # "ready"

\* Mutant: the waiting list is not searched.
event_send_no_search(t) == flag' = flag \cup {t} /\ UNCHANGED stat

\* rt_event_send for the bit thread t waits on.  A suspended waiter is resumed
\* and its bit is cleared again at once; otherwise the bit stays set.
event_send(t) ==
    IF stat[t] = "suspend"
    THEN stat' = [stat EXCEPT ![t] = "ready"] /\ UNCHANGED flag
    ELSE flag' = flag \cup {t} /\ UNCHANGED stat

\* rt_event_recv (AND | CLEAR, wait forever) up to the point where it either has
\* the event or is suspended; the thread continues at "return" in both cases.
event_recv(t) ==
    /\ Running(t) /\ pc[t] = "recv"
    /\ pc' = [pc EXCEPT ![t] = "return"]
    /\ IF t \in flag
       THEN flag' = flag \ {t} /\ UNCHANGED stat
       ELSE stat' = [stat EXCEPT ![t] = "suspend"] /\ UNCHANGED flag

\* Mutant: a suspended thread is not resumed.
kill_Task2_no_resume ==
    /\ sig_pending' = TRUE
    /\ sig_entry' = (sig_entry \/ (~sig_pending /\ sig_mask))
    /\ UNCHANGED stat

\* rt_thread_kill(&movement_control, SIGUSR1) with _signal_deliver, called by
\* another thread: a second signal before the first is handled changes nothing;
\* a masked one stays pending; a suspended thread is resumed (and so leaves the
\* event's waiting list); a ready one gets a handler frame on its stack.
kill_Task2 ==
    /\ sig_pending' = TRUE
    /\ sig_entry' = (sig_entry \/ (~sig_pending /\ sig_mask))
    /\ stat' = IF ~sig_pending /\ sig_mask /\ stat["Task2"] = "suspend"
               THEN [stat EXCEPT !["Task2"] = "ready"] ELSE stat

Goto(t, from, to) ==
    /\ Running(t) /\ pc[t] = from
    /\ pc' = [pc EXCEPT ![t] = to]

-----------------------------------------------------------------------------
(* The periodic timers.  PERIOD_TASK1 = PERIOD_TASK2 and Task1's timer is    *)
(* started first, so every frame of 50 ticks begins with Task1's timeout and *)
(* has one of Task2; with the durations of tasks.h both jobs are over before *)
(* the next frame.  TimersMayOverrun drops that assumption.                  *)

timeout_obstacle_control ==
    /\ \/ TimersMayOverrun
       \/ fired = {"Task1", "Task2"} /\ Idle
    /\ event_send("Task1")
    /\ fired' = {"Task1"}
    /\ UNCHANGED <<pc, signals, robot, engine, mailboxes, sys_pending, obstacles, due>>

timeout_movement_control ==
    /\ TimersMayOverrun \/ "Task2" \notin fired
    /\ event_send("Task2")
    /\ fired' = fired \cup {"Task2"}
    /\ due' = TRUE
    /\ UNCHANGED <<pc, signals, robot, engine, mailboxes, sys_pending, obstacles>>

-----------------------------------------------------------------------------
(* TaskS, movement_stop_entry *)

S_recv ==
    /\ event_recv("TaskS")
    /\ UNCHANGED <<signals, robot, engine, mailboxes, sys_pending, obstacles, timers>>

S_return ==
    /\ Goto("TaskS", "return", "write")
    /\ UNCHANGED <<stat, flag, signals, robot, engine, mailboxes, sys_pending,
                   obstacles, timers>>

S_write ==
    /\ Goto("TaskS", "write", "recv")
    /\ engine' = "STOP"
    /\ UNCHANGED <<stat, flag, signals, robot, mailboxes, sys_pending, obstacles, timers>>

movement_stop == S_recv \/ S_return \/ S_write

-----------------------------------------------------------------------------
(* Task1, obstacle_control_entry *)

T1_recv ==
    /\ event_recv("Task1")
    /\ UNCHANGED <<signals, robot, engine, mailboxes, sys_pending, obstacles, timers>>

T1_return ==
    /\ Goto("Task1", "return", "read")
    /\ UNCHANGED <<stat, flag, signals, robot, engine, mailboxes, sys_pending,
                   obstacles, timers>>

\* proximity_sensor_read draws a random number: any answer is possible.
T1_read(obstacle) ==
    /\ Goto("Task1", "read", IF obstacle THEN "kill" ELSE "spin")
    /\ obstacle => obstacles < MaxObstacles
    /\ obstacles' = IF obstacle THEN obstacles + 1 ELSE obstacles
    /\ UNCHANGED <<stat, flag, signals, robot, engine, mailboxes, sys_pending, timers>>

T1_kill ==
    /\ Goto("Task1", "kill", "send")
    /\ kill_Task2
    /\ UNCHANGED <<flag, sig_mask, error, robot, engine, mailboxes, sys_pending,
                   obstacles, timers>>

T1_send ==
    /\ Goto("Task1", "send", "spin")
    /\ event_send("TaskS")
    /\ UNCHANGED <<signals, robot, engine, mailboxes, sys_pending, obstacles, timers>>

\* The busy wait until tick_count is 0, then set_task_ended.
T1_spin ==
    /\ Goto("Task1", "spin", "recv")
    /\ UNCHANGED <<stat, flag, signals, robot, engine, mailboxes, sys_pending,
                   obstacles, timers>>

obstacle_control ==
    \/ T1_recv \/ T1_return \/ T1_kill \/ T1_send \/ T1_spin
    \/ \E obstacle \in BOOLEAN : T1_read(obstacle)

-----------------------------------------------------------------------------
(* The room *)

Moves == {"UP", "DOWN", "LEFT", "RIGHT"}

Opposite == [d \in Moves |-> CASE d = "UP" -> "DOWN" [] d = "DOWN" -> "UP"
                               [] d = "LEFT" -> "RIGHT" [] d = "RIGHT" -> "LEFT"]

\* The tile one step away in direction d; position[0] is the row.
Step(d) ==
    CASE d = "UP"    -> [position EXCEPT ![0] = @ - 1]
      [] d = "DOWN"  -> [position EXCEPT ![0] = @ + 1]
      [] d = "LEFT"  -> [position EXCEPT ![1] = @ - 1]
      [] d = "RIGHT" -> [position EXCEPT ![1] = @ + 1]

\* map[r][c] is the int at offset r * MAP_SIDE + c, whatever r and c are.
Offset(p) == p[0] * MAP_SIDE + p[1]
Tiles == 0 .. (MAP_SIDE * MAP_SIDE - 1)

\* map[..][..] = v at the robot's position; a write outside the array lands in
\* memory this module does not model and leaves map alone.
Mark(v) ==
    IF Offset(position) \in Tiles THEN [map EXCEPT ![Offset(position)] = v] ELSE map

\* The bound the code tests before it looks at the tile in direction d.
InBound(d) ==
    CASE d = "UP"    -> position[0] > 0
      [] d = "DOWN"  -> position[0] < MAP_SIDE - 1
      [] d = "LEFT"  -> position[1] > 0
      [] d = "RIGHT" -> position[1] < MAP_SIDE - 1

\* map[..] != 1 one step in direction d.  An access outside the array reads
\* foreign memory: "foreign" is the set of directions in which that memory
\* happens to hold a 1.
Open(d, foreign) ==
    /\ InBound(d)
    /\ IF Offset(Step(d)) \in Tiles THEN map[Offset(Step(d))] # 1 ELSE d \notin foreign

\* The directions find_new_position accepts, and the order it tries them in.
Candidates(foreign) ==
    {d \in Moves : direction # Opposite[d] /\ Open(d, foreign)}

find_new_position(foreign) ==
    LET ok == Candidates(foreign) IN
    CASE "UP" \in ok -> "UP"
      [] "UP" \notin ok /\ "DOWN" \in ok -> "DOWN"
      [] ok \cap {"UP", "DOWN"} = {} /\ "LEFT" \in ok -> "LEFT"
      [] ok = {"RIGHT"} -> "RIGHT"

-----------------------------------------------------------------------------
(* Task2, movement_control_entry and its signal handler *)

Task2At(from, to) == ~sig_entry /\ Goto("Task2", from, to)

\* rt_thread_handle_sig calls movement_control_obstacle_handler before anything
\* else Task2 does, and leaves -RT_EINTR in thread->error.
T2_handler ==
    /\ Running("Task2") /\ sig_entry /\ sig_pending /\ sig_mask
    /\ sig_pending' = FALSE /\ sig_entry' = FALSE /\ error' = "EINTR"
    /\ map' = Mark(1)
    /\ position' = IF direction = "RETURN" THEN position ELSE Step(Opposite[direction])
    /\ UNCHANGED <<stat, pc, flag, sig_mask, direction, stuck, garbage, engine,
                   mailboxes, sys_pending, obstacles, timers>>

\* Mutant: rt_event_recv does not reset thread->error.
T2_reset_forgotten ==
    /\ Task2At("reset", "recv")
    /\ UNCHANGED <<stat, flag, signals, robot, engine, mailboxes, sys_pending, obstacles, timers>>

\* rt_event_recv resets thread->error before it disables interrupts: a signal that
\* comes in between leaves -RT_EINTR for the activation Task2 then waits for.
T2_reset ==
    /\ Task2At("reset", "recv")
    /\ error' = "EOK"
    /\ UNCHANGED <<stat, flag, sig_pending, sig_mask, sig_entry, robot, engine, mailboxes,
                   sys_pending, obstacles, timers>>

T2_recv ==
    /\ ~sig_entry
    /\ event_recv("Task2")
    /\ UNCHANGED <<signals, robot, engine, mailboxes, sys_pending, obstacles, timers>>

\* rt_event_recv returns thread->error: the loop body runs only for RT_EOK.
T2_return ==
    /\ Task2At("return", IF error = "EOK" THEN "mb_recv" ELSE "reset")
    /\ due' = (due /\ error # "EOK")
    /\ UNCHANGED <<stat, flag, signals, robot, engine, mailboxes, sys_pending,
                   obstacles, fired>>

T2_mb_recv ==
    /\ Task2At("mb_recv", IF mb2_3 > 0 THEN "set_return" ELSE "clean")
    /\ mb2_3' = IF mb2_3 > 0 THEN mb2_3 - 1 ELSE mb2_3
    /\ UNCHANGED <<stat, flag, signals, robot, engine, mb2_5, sys_pending,
                   obstacles, timers>>

T2_set_return ==
    /\ Task2At("set_return", "mask")
    /\ direction' = "RETURN"
    /\ UNCHANGED <<stat, flag, signals, position, map, stuck, garbage, engine,
                   mailboxes, sys_pending, obstacles, timers>>

T2_mask ==
    /\ Task2At("mask", "mb_send")
    /\ sig_mask' = FALSE
    /\ UNCHANGED <<stat, flag, sig_pending, sig_entry, error, robot, engine,
                   mailboxes, sys_pending, obstacles, timers>>

\* rt_mb_send: a full mailbox refuses the mail and Task2 ignores the result.
T2_mb_send ==
    /\ Task2At("mb_send", "clean")
    /\ mb2_5' = IF mb2_5 < MailCap THEN mb2_5 + 1 ELSE mb2_5
    /\ UNCHANGED <<stat, flag, signals, robot, engine, mb2_3, sys_pending,
                   obstacles, timers>>

\* if (map[..] == 0) { map[..] = 2; write the garbage bag }
T2_clean ==
    /\ Task2At("clean", "move")
    /\ \E dirty \in IF Offset(position) \in Tiles THEN {map[Offset(position)] = 0}
                                                  ELSE BOOLEAN :
          /\ map' = IF dirty THEN Mark(2) ELSE map
          /\ garbage' = IF dirty /\ garbage < MaxGarbage THEN garbage + 1 ELSE garbage
    /\ UNCHANGED <<stat, flag, signals, position, direction, stuck, engine,
                   mailboxes, sys_pending, obstacles, timers>>

\* The switch: straight on if the next tile is open, else find_new_position.
T2_move ==
    /\ Task2At("move", "decide")
    /\ direction # "RETURN"
    /\ \E foreign \in SUBSET Moves :
          \/ /\ Open(direction, foreign)
             /\ position' = Step(direction)
             /\ UNCHANGED <<direction, stuck>>
          \/ /\ ~Open(direction, foreign)
             /\ Candidates(foreign) # {}
             /\ direction' = find_new_position(foreign)
             /\ position' = Step(find_new_position(foreign))
             /\ stuck' = 0
          \/ /\ ~Open(direction, foreign)
             /\ Candidates(foreign) = {}
             /\ stuck' = 1
             /\ UNCHANGED <<position, direction>>
    /\ UNCHANGED <<stat, flag, signals, map, garbage, engine, mailboxes,
                   sys_pending, obstacles, timers>>

\* Mutant: position[0] >= 0 instead of position[0] > 0.
T2_move_back_too_far ==
    /\ Task2At("move", "decide")
    /\ direction = "RETURN"
    /\ position' = IF position[0] >= 0 THEN Step("UP")
                   ELSE IF position[1] > 0 THEN Step("LEFT") ELSE position
    /\ UNCHANGED <<stat, flag, signals, direction, map, stuck, garbage, engine,
                   mailboxes, sys_pending, obstacles, timers>>

\* case RETURN: rows first, then columns; the map is not consulted.
T2_move_back ==
    /\ Task2At("move", "decide")
    /\ direction = "RETURN"
    /\ position' = IF position[0] > 0 THEN Step("UP")
                   ELSE IF position[1] > 0 THEN Step("LEFT") ELSE position
    /\ UNCHANGED <<stat, flag, signals, direction, map, stuck, garbage, engine,
                   mailboxes, sys_pending, obstacles, timers>>

AtHome == direction = "RETURN" /\ position[0] = 0 /\ position[1] = 0

\* break out of the loop: _thread_exit closes the thread.
Task2Exits ==
    /\ Task2At("decide", "exit")
    /\ stat' = [stat EXCEPT !["Task2"] = "close"]

T2_stuck ==
    /\ stuck = 1
    /\ Task2Exits
    /\ UNCHANGED <<flag, signals, robot, engine, mailboxes, sys_pending,
                   obstacles, timers>>

\* Mutant: the thread ends without the signal to TSystem.
T2_home_silent ==
    /\ stuck # 1 /\ AtHome
    /\ Task2Exits
    /\ UNCHANGED <<flag, signals, robot, engine, mailboxes, sys_pending,
                   obstacles, timers>>

\* rt_thread_kill(&Tsystem, SIGUSR2); TSystem has a lower priority.
T2_home ==
    /\ stuck # 1 /\ AtHome
    /\ Task2Exits
    /\ sys_pending' = TRUE
    /\ UNCHANGED <<flag, signals, robot, engine, mailboxes, obstacles, timers>>

T2_start ==
    /\ stuck # 1 /\ ~AtHome
    /\ Task2At("decide", "spin")
    /\ engine' = "START"
    /\ UNCHANGED <<stat, flag, signals, robot, mailboxes, sys_pending, obstacles, timers>>

T2_spin ==
    /\ Task2At("spin", "reset")
    /\ UNCHANGED <<stat, flag, signals, robot, engine, mailboxes, sys_pending,
                   obstacles, timers>>

movement_control ==
    \/ T2_handler \/ T2_reset \/ T2_recv \/ T2_return \/ T2_mb_recv \/ T2_set_return
    \/ T2_mask \/ T2_mb_send \/ T2_clean \/ T2_move \/ T2_move_back \/ T2_stuck \/ T2_home
    \/ T2_start \/ T2_spin

-----------------------------------------------------------------------------
(* Environment: Task3 and Task5 run only when the three threads are blocked *)

Task3_mails ==
    /\ Idle /\ mb2_3 < MailCap
    /\ mb2_3' = mb2_3 + 1
    /\ UNCHANGED <<stat, pc, flag, signals, robot, engine, mb2_5, sys_pending,
                   obstacles, timers>>

Task5_takes_mail ==
    /\ Idle /\ mb2_5 > 0
    /\ mb2_5' = mb2_5 - 1
    /\ UNCHANGED <<stat, pc, flag, signals, robot, engine, mb2_3, sys_pending,
                   obstacles, timers>>

Init ==
    /\ stat = [t \in Threads |-> "suspend"]
    /\ pc = [t \in Threads |-> "return"]
    /\ flag = {}
    /\ sig_pending = FALSE /\ sig_mask = TRUE /\ sig_entry = FALSE /\ error = "EOK"
    /\ position = [i \in {0, 1} |-> 0]
    /\ direction = "DOWN"
    /\ map = [i \in Tiles |-> 0]
    /\ stuck \in StuckGarbage
    /\ engine = "STOP" /\ garbage = 0
    /\ mb2_3 = 0 /\ mb2_5 = 0 /\ sys_pending = FALSE
    /\ obstacles = 0
    /\ fired = {"Task1", "Task2"} /\ due = FALSE

Next ==
    \/ timeout_obstacle_control \/ timeout_movement_control
    \/ movement_stop \/ obstacle_control \/ movement_control
    \/ Task3_mails \/ Task5_takes_mail

Spec == Init /\ [][Next]_vars

\* The tick interrupt keeps firing and a ready thread the scheduler has chosen
\* keeps executing.
Fairness ==
    /\ WF_vars(timeout_obstacle_control) /\ WF_vars(timeout_movement_control)
    /\ WF_vars(movement_stop) /\ WF_vars(obstacle_control) /\ WF_vars(movement_control)

FairSpec == Spec /\ Fairness

-----------------------------------------------------------------------------
(* Properties *)

TypeThreads ==
    /\ stat \in [Threads -> {"ready", "suspend", "close"}]
    /\ pc \in [Threads -> {"recv", "return", "write", "read", "kill", "send", "spin",
                           "mb_recv", "set_return", "mask", "mb_send", "clean", "move",
                           "decide", "reset", "exit"}]
    /\ flag \in SUBSET Threads

TypeSignals ==
    /\ sig_pending \in BOOLEAN /\ sig_mask \in BOOLEAN /\ sig_entry \in BOOLEAN
    /\ error \in {"EOK", "EINTR"}
    /\ sys_pending \in BOOLEAN

TypeRobot ==
    /\ position \in [{0, 1} -> Int]
    /\ direction \in Moves \cup {"RETURN"}
    /\ map \in [Tiles -> {0, 1, 2}]
    /\ stuck \in {0, 1}
    /\ engine \in {"STOP", "START"}

TypeCounters ==
    /\ garbage \in 0 .. MaxGarbage
    /\ mb2_3 \in 0 .. MailCap /\ mb2_5 \in 0 .. MailCap
    /\ obstacles \in 0 .. MaxObstacles

\* Every variable keeps its type; in particular no mailbox count leaves 0 .. MailCap
\* (the full test of rt_mb_send, the empty test of rt_mb_recv).
TypeOK ==
    /\ TypeThreads /\ TypeSignals /\ TypeRobot /\ TypeCounters
    /\ fired \in SUBSET {"Task1", "Task2"} /\ due \in BOOLEAN

\* No lost wake-up: a thread sleeps in rt_event_recv only while its event bit is
\* clear, although rt_event_send, the signal that pulls Task2 off the waiting
\* list and the retry after -RT_EINTR all race with one another.
NoLostWakeup ==
    \A t \in Threads : stat[t] = "suspend" => pc[t] = "return" /\ t \notin flag

\* No orphaned signal: while Task2 lives, an unmasked SIGUSR1 that is pending has
\* made Task2 ready and put the handler in front of its next statement.
\* (rt_thread_kill returns early for a pending signal, so nobody would deliver
\* an orphan again.)
SignalArmed ==
    sig_pending /\ sig_mask /\ stat["Task2"] # "close"
        => sig_entry /\ stat["Task2"] = "ready"

\* Task1 has seen an obstacle that is not yet fully dealt with: Task1 is between
\* the sensor and its two notifications, TaskS has still to stop the engine, or
\* Task2 has still to run the handler.
ObstacleOpen ==
    \/ pc["Task1"] \in {"kill", "send"}
    \/ "TaskS" \in flag \/ stat["TaskS"] = "ready"
    \/ sig_pending /\ sig_mask

\* Task2 never starts the engine over an obstacle: whenever it writes START, every
\* obstacle Task1 has seen has stopped the engine and is recorded in the map.
NoStartOverObstacle ==
    [][pc["Task2"] = "decide" /\ pc'["Task2"] = "spin" => ~ObstacleOpen]_vars

Inside == position[0] \in Nat /\ position[1] \in Nat
Distance == position[0] + position[1]

\* The return is final: once SIGUSR1 is masked the robot heads home for good, no
\* tile becomes an obstacle, and every move from inside the room is one step
\* nearer to the charging station (no handler pushes the robot back).
ReturnIsFinal ==
    [][~sig_mask =>
          /\ ~sig_mask' /\ direction' = "RETURN"
          /\ \A i \in Tiles : map'[i] = 1 => map[i] = 1
          /\ position' # position /\ Inside => Inside' /\ Distance' = Distance - 1]_vars

\* Any mail of Task3 sends the robot home (or the robot was stuck): one activation
\* that is not lost to a signal is enough.
MailBringsReturn == mb2_3 > 0 ~> direction = "RETURN" \/ stat["Task2"] = "close"

\* A signal may take Task2 out of rt_event_recv together with the activation it was
\* woken for, but (obstacles being finite) a later job makes up for it.
JobFollowsActivation == due ~> ~due \/ stat["Task2"] = "close"

\* A robot that turns home inside the room arrives there and TSystem is told, unless
\* stuck, which Task2 reads before anything has set it, happens to be 1.
HomeFromInside ==
    direction = "RETURN" /\ Inside /\ stuck = 0 ~> stat["Task2"] = "close" /\ sys_pending

-----------------------------------------------------------------------------
(* What the comments and documents of the repository say and the code does not *)

\* "if an obstacle is found go back to previous tile" (tasks.c): the robot is always
\* on a tile of the room.
PositionInRoom == \A i \in {0, 1} : position[i] \in 0 .. MAP_SIDE - 1

=============================================================================
